\* A book replaced between the claim and the lookup; a connection that breaks
\* after the provider took the message.  Run with -continue to see both.
SPECIFICATION Spec
CONSTANTS
  Requests = {q1}
  Addresses = {kindle}
  MaxSends = 2
  MaxBooks = 2
  MaxFaults = 0
  MaxStops = 0
INVARIANTS TransportErrorIsAnswer
PROPERTIES GoneMeansGone
