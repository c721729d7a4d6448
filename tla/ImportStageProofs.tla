------------------------- MODULE ImportStageProofs --------------------------
(***************************************************************************)
(* Proofs about the staging area, for every number of uploads, clicks,     *)
(* contents, candidate names and outside events.                           *)
(*                                                                         *)
(* The invariant follows one stage through its confirms.  A click inside   *)
(* the critical section of a stage is alone there; until the copy is in    *)
(* the library the stage is not done and has been published and answered   *)
(* never, between Publish and taken it is the one published copy, and from *)
(* taken on the stage is done.  A stage that may still be confirmed and is *)
(* neither done nor published by the click at work now was never           *)
(* published.  What a stage has answered is its book, which changes only   *)
(* while it has answered none.  The last part is about the budget: what is *)
(* staged is the size of a set of bytes, each charged to one stage.        *)
(***************************************************************************)
EXTENDS ImportStageProps, FiniteSetTheorems, TLAPS

Landed == {"live", "gone"}
Before == {"open", "claim", "copy", "link", "lstat", "rename"}
Inside == Before \cup {"take", "index"}

\* The tables and the counts; what is charged comes last.
ShapeOK ==
  /\ stages \in [Ids -> Stages] /\ temp \subseteq Ids
  /\ clicks \in [Clicks -> ClickStates]
  /\ lib \in [Names -> Contents \cup {NoFile}]
  /\ parts \in [Names -> Clicks \cup {Free, Left}]
  /\ book \in [Contents -> Nat] /\ nextBook \in Nat
  /\ published \in [Ids -> Nat] /\ answers \in [Ids -> SUBSET Nat]

\* Stage i by itself.
StageOK(i) ==
  /\ stages[i].pc \notin Landed => published[i] = 0 /\ answers[i] = {}
  /\ answers[i] # {} => stages[i].done
  /\ answers[i] \subseteq {stages[i].book}
  /\ published[i] <= 1

\* Stages whose file is in the temp directory.
Keeps(s) == s.pc \in {"copy", "verdict"} \/ (s.pc \in {"register", "live"} /\ ~s.done)
TempOK == \A i \in temp : Keeps(stages[i])

\* The .part files of the library have the clicks that write them.
Writing == {"copy", "link", "lstat", "rename"}
PartsOK ==
  \A n \in Names : parts[n] \in Clicks =>
    clicks[parts[n]].pc \in Writing /\ clicks[parts[n]].part = n

\* Click k and the stage it is at.
ClickOK(k) ==
  /\ clicks[k].pc # "idle" => stages[clicks[k].id].pc \in Landed
  /\ clicks[k].pc \in Before => ~stages[clicks[k].id].done /\ published[clicks[k].id] = 0
  /\ clicks[k].pc = "take" => ~stages[clicks[k].id].done
  /\ clicks[k].pc = "index" => stages[clicks[k].id].done /\ answers[clicks[k].id] = {}

OneInside ==
  \A k, l \in Clicks :
    clicks[k].pc \in Inside /\ clicks[l].pc \in Inside /\ clicks[k].id = clicks[l].id => k = l

Confirmable(i) == stages[i].pc = "live" \/ \E k \in Clicks : clicks[k].pc # "idle" /\ clicks[k].id = i
Taking(i) == \E k \in Clicks : clicks[k].pc = "take" /\ clicks[k].id = i
Unpublished ==
  \A i \in Ids : Confirmable(i) => published[i] = 0 \/ stages[i].done \/ Taking(i)

ImportInv ==
  /\ ShapeOK /\ TempOK /\ PartsOK
  /\ \A i \in Ids : StageOK(i)
  /\ \A k \in Clicks : ClickOK(k)
  /\ OneInside /\ Unpublished
-----------------------------------------------------------------------------
\* The record of an upload that has begun.
Begun ==
  [pc : Uploading \cup {"live", "gone"}, reserved : Nat, done : BOOLEAN, book : Nat,
   expired : BOOLEAN, content : Contents, size : Nat, extra : Nat]

LEMMA StageShape ==
  ASSUME NEW s \in Stages
  PROVE  /\ s.pc # "new" => s \in Begun
         /\ s.pc \in {"new"} \cup Uploading \cup {"live", "gone"}
         /\ s.reserved \in Nat /\ s.done \in BOOLEAN /\ s.book \in Nat
<1>1. \/ s \in [pc : {"new"}, reserved : {0}, done : {FALSE}, book : {0}, expired : {FALSE}]
      \/ s \in Begun
  BY DEF Stages, Begun
<1>2. CASE s \in [pc : {"new"}, reserved : {0}, done : {FALSE}, book : {0}, expired : {FALSE}]
  <2>1. s.pc \in {"new"} /\ s.done \in {FALSE} /\ s.reserved \in {0} /\ s.book \in {0}
    BY <1>2
  <2>2. s.pc = "new" /\ s.done = FALSE /\ s.reserved = 0 /\ s.book = 0
    BY <2>1, Zenon
  <2>3. s.done \in BOOLEAN
    BY <2>2, Zenon
  <2>4. s.pc = "new" /\ s.reserved \in Nat /\ s.book \in Nat
    BY <2>2
  <2>5. QED
    BY <2>3, <2>4
<1>3. CASE s \in Begun
  BY <1>3 DEF Begun
<1>4. QED
  BY <1>1, <1>2, <1>3

LEMMA BegunChanges ==
  ASSUME NEW s \in Begun
  PROVE  /\ s \in Stages /\ s.content \in Contents /\ s.size \in Nat /\ s.extra \in Nat
         /\ s.pc \in Uploading \cup {"live", "gone"}
         /\ \A pc \in Uploading \cup {"live", "gone"} : [s EXCEPT !.pc = pc] \in Begun
         /\ \A r \in Nat : [s EXCEPT !.reserved = r] \in Begun
         /\ \A d \in BOOLEAN : [s EXCEPT !.done = d] \in Begun
         /\ \A b \in Nat : [s EXCEPT !.book = b] \in Begun
         /\ [s EXCEPT !.expired = TRUE] \in Begun
<1>1. /\ s \in Stages /\ s.content \in Contents /\ s.size \in Nat /\ s.extra \in Nat
      /\ s.pc \in Uploading \cup {"live", "gone"}
  BY DEF Stages, Begun
<1>2. \A pc \in Uploading \cup {"live", "gone"} : [s EXCEPT !.pc = pc] \in Begun
  BY DEF Begun
<1>3. \A r \in Nat : [s EXCEPT !.reserved = r] \in Begun
  BY DEF Begun
<1>4. \A d \in BOOLEAN : [s EXCEPT !.done = d] \in Begun
  BY DEF Begun
<1>5. \A b \in Nat : [s EXCEPT !.book = b] \in Begun
  BY DEF Begun
<1>6. [s EXCEPT !.expired = TRUE] \in Begun
  BY DEF Begun
<1>7. QED
  BY <1>1, <1>2, <1>3, <1>4, <1>5, <1>6

LEMMA ClickShape ==
  ASSUME NEW c \in ClickStates
  PROVE  /\ c.pc \in {"idle", "lock"} \cup Inside
         /\ c.pc # "idle" => c.id \in Ids
         /\ c.pc \in {"lock", "open"} => c \in [pc : {"lock", "open"}, id : Ids]
         /\ c.pc = "claim" => c \in [pc : {"claim"}, id : Ids, n : Names]
         /\ c.pc = "copy" => c \in [pc : {"copy"}, id : Ids, part : Names]
         /\ c.pc \in {"link", "lstat", "rename"} =>
              c \in [pc : {"link", "lstat", "rename"}, id : Ids, part : Names, n : Names]
         /\ c.pc \in {"take", "index"} => c \in [pc : {"take", "index"}, id : Ids, n : Names]
BY DEF ClickStates, NoClick, Inside, Before

LEMMA InitImport == Init => ImportInv
<1> SUFFICES ASSUME Init PROVE ImportInv
  OBVIOUS
<1>1. NoStage \in Stages /\ NoStage.pc = "new" /\ ~NoStage.done
  BY DEF NoStage, Stages
<1>2. NoClick \in ClickStates /\ NoClick.pc = "idle"
  BY DEF NoClick, ClickStates
<1>3. ShapeOK
  BY <1>1, <1>2 DEF Init, ShapeOK
<1>4. PartsOK /\ TempOK
  BY NameAssumption DEF Init, PartsOK, TempOK
<1>5. \A i \in Ids : StageOK(i)
  BY DEF Init, StageOK
<1>6. \A k \in Clicks : ClickOK(k)
  BY <1>2 DEF Init, ClickOK, Before
<1>7. OneInside /\ Unpublished
  BY <1>1, <1>2 DEF Init, OneInside, Unpublished, Inside, Before
<1>8. QED
  BY <1>3, <1>4, <1>5, <1>6, <1>7 DEF ImportInv
-----------------------------------------------------------------------------
\* A step of stages alone: a landed stage keeps what it has answered and
\* does not come back.
LEMMA StageMoves ==
  ASSUME ImportInv, UNCHANGED <<clicks, library, history>>,
         stages' \in [Ids -> Stages], temp' \subseteq Ids,
         \A i \in temp' : Keeps(stages'[i]),
         \A i \in Ids : stages[i].pc \in Landed =>
           /\ stages'[i].pc \in Landed
           /\ stages'[i].pc = "live" => stages[i].pc = "live"
           /\ stages'[i].done = stages[i].done /\ stages'[i].book = stages[i].book
  PROVE  ImportInv'
<1>1. ShapeOK'
  BY DEF ImportInv, ShapeOK, library, history
<1>2. PartsOK' /\ TempOK'
  BY DEF ImportInv, PartsOK, TempOK, library
<1>3. \A i \in Ids : StageOK(i)'
  BY DEF ImportInv, StageOK, history
<1>4. \A k \in Clicks : clicks[k].pc # "idle" => clicks[k].id \in Ids
  BY ClickShape DEF ImportInv, ShapeOK
<1>5. \A k \in Clicks : ClickOK(k)'
  BY <1>4 DEF ImportInv, ClickOK, Before, history
<1>6. OneInside'
  BY DEF ImportInv, OneInside
<1>7. Unpublished'
  <2> SUFFICES ASSUME NEW i \in Ids, Confirmable(i)'
               PROVE  published'[i] = 0 \/ stages'[i].done \/ Taking(i)'
    BY DEF Unpublished
  <2>1. CASE stages[i].pc \notin Landed
    BY <2>1 DEF ImportInv, StageOK, history
  <2>2. CASE stages[i].pc \in Landed
    <3>1. Confirmable(i)
      BY <2>2 DEF Confirmable
    <3>2. published[i] = 0 \/ stages[i].done \/ Taking(i)
      BY <3>1 DEF ImportInv, Unpublished
    <3>3. QED
      BY <2>2, <3>2 DEF Taking, history
  <2>3. QED
    BY <2>1, <2>2
<1>8. QED
  BY <1>1, <1>2, <1>3, <1>5, <1>6, <1>7 DEF ImportInv

\* remove, of stages that have begun.
LEMMA RemoveKeeps ==
  ASSUME ImportInv, NEW ids \in SUBSET Ids, \A i \in ids : stages[i].pc # "new",
         Remove(ids), UNCHANGED clicks
  PROVE  ImportInv'
<1>1. stages' = Removed(ids) /\ temp' = temp \ ids /\ stages \in [Ids -> Stages] /\ temp \subseteq Ids
  BY DEF Remove, ImportInv, ShapeOK
<1>2. \A i \in ids : stages[i] \in Begun
  BY <1>1, StageShape
<1>3. \A s \in Begun : /\ [s EXCEPT !.pc = "gone", !.reserved = 0] \in Begun
                       /\ [s EXCEPT !.pc = "gone", !.reserved = 0].pc = "gone"
                       /\ [s EXCEPT !.pc = "gone", !.reserved = 0].done = s.done
                       /\ [s EXCEPT !.pc = "gone", !.reserved = 0].book = s.book
  BY DEF Begun
<1>4. \A i \in ids : /\ stages'[i] \in Begun /\ stages'[i].pc = "gone"
                     /\ stages'[i].done = stages[i].done /\ stages'[i].book = stages[i].book
  BY <1>1, <1>2, <1>3 DEF Removed
<1>5. \A i \in Ids \ ids : stages'[i] = stages[i]
  BY <1>1 DEF Removed
<1>6. stages' \in [Ids -> Stages]
  <2>1. \A i \in Ids : stages'[i] \in Stages
    BY <1>1, <1>4, <1>5, BegunChanges
  <2>2. QED
    BY <1>1, <2>1 DEF Removed
<1>7. \A i \in temp' : Keeps(stages'[i])
  BY <1>1, <1>5 DEF ImportInv, TempOK
<1>8. \A i \in Ids : stages[i].pc \in Landed =>
        /\ stages'[i].pc \in Landed
        /\ stages'[i].pc = "live" => stages[i].pc = "live"
        /\ stages'[i].done = stages[i].done /\ stages'[i].book = stages[i].book
  BY <1>4, <1>5 DEF Landed
<1>9. QED
  BY <1>1, <1>6, <1>7, <1>8, StageMoves DEF Remove
\* One stage moves on: s is its new record.
LEMMA StageBecomes ==
  ASSUME ImportInv, UNCHANGED <<clicks, library, history>>,
         NEW i \in Ids, NEW s \in Begun, stages' = [stages EXCEPT ![i] = s],
         temp' \subseteq Ids, temp' \subseteq temp \cup {i},
         i \in temp' => Keeps(s),
         stages[i].pc \in Landed =>
           /\ s.pc = stages[i].pc /\ s.done = stages[i].done /\ s.book = stages[i].book
  PROVE  ImportInv'
<1>1. stages \in [Ids -> Stages] /\ s \in Stages
  BY BegunChanges DEF ImportInv, ShapeOK
<1>2. /\ stages' \in [Ids -> Stages] /\ stages'[i] = s
      /\ \A j \in Ids \ {i} : stages'[j] = stages[j]
  BY <1>1
<1>3. \A j \in temp' : Keeps(stages'[j])
  BY <1>2 DEF ImportInv, TempOK
<1>4. \A j \in Ids : stages[j].pc \in Landed =>
        /\ stages'[j].pc \in Landed
        /\ stages'[j].pc = "live" => stages[j].pc = "live"
        /\ stages'[j].done = stages[j].done /\ stages'[j].book = stages[j].book
  BY <1>2
<1>5. QED
  BY <1>2, <1>3, <1>4, StageMoves

LEMMA UploadStep ==
  ASSUME ImportInv, NEW i \in Ids, Reserve(i) \/ Staging(i) \/ Expire(i)
  PROVE  ImportInv'
<1>a. /\ stages \in [Ids -> Stages] /\ temp \subseteq Ids /\ book \in [Contents -> Nat]
      /\ stages[i].pc # "new" => stages[i] \in Begun
      /\ i \in temp => Keeps(stages[i])
  BY StageShape DEF ImportInv, ShapeOK, TempOK
<1>1. CASE Reserve(i)
  <2>1. PICK c \in Contents, z \in Sizes, e \in Extras :
          stages' = [stages EXCEPT ![i] =
            [pc |-> "copy", reserved |-> 0, done |-> FALSE, book |-> 0, expired |-> FALSE,
             content |-> c, size |-> z, extra |-> e]]
    BY <1>1 DEF Reserve
  <2> DEFINE s == [pc |-> "copy", reserved |-> 0, done |-> FALSE, book |-> 0, expired |-> FALSE,
                   content |-> c, size |-> z, extra |-> e]
  <2>2. s \in Begun /\ Keeps(s)
    BY SizeAssumption DEF Begun, Uploading, Keeps
  <2> HIDE DEF s
  <2>3. stages' = [stages EXCEPT ![i] = s]
    BY <2>1 DEF s
  <2>4. QED
    BY <1>1, <1>a, <2>2, <2>3, StageBecomes DEF Reserve, Landed
<1>2. CASE CopyIn(i)
  <2> DEFINE s == [stages[i] EXCEPT !.pc = "verdict"]
  <2>1. stages[i] \in Begun /\ "verdict" \in Uploading
    BY <1>2, <1>a DEF CopyIn, Uploading
  <2>2. s \in Begun /\ Keeps(s)
    BY <2>1, BegunChanges DEF Begun, Keeps
  <2>3. stages' = [stages EXCEPT ![i] = s] /\ stages[i].pc \notin Landed
    BY <1>2 DEF CopyIn, Landed
  <2> HIDE DEF s
  <2>4. QED
    BY <1>2, <1>a, <2>2, <2>3, StageBecomes DEF CopyIn
<1>3. CASE StageFails(i)
  <2> DEFINE s == [stages[i] EXCEPT !.pc = "gone"]
  <2>1. stages[i] \in Begun /\ stages[i].pc \notin Landed
    BY <1>3, <1>a DEF StageFails, Landed
  <2>2. s \in Begun
    BY <2>1, BegunChanges
  <2>3. stages' = [stages EXCEPT ![i] = s] /\ temp' = temp \ {i}
    BY <1>3 DEF StageFails
  <2> HIDE DEF s
  <2>4. QED
    BY <1>3, <1>a, <2>1, <2>2, <2>3, StageBecomes DEF StageFails
<1>4. CASE DecideVerdict(i)
  <2>1. stages[i] \in Begun /\ stages[i].pc \notin Landed
    BY <1>4, <1>a DEF DecideVerdict, Landed
  <2> DEFINE known == book[stages[i].content]
             r == stages[i].extra + IF known = 0 THEN stages[i].size ELSE 0
             d == known # 0
             s == [[[[stages[i] EXCEPT !.pc = "register"] EXCEPT !.done = d] EXCEPT !.book = known]
                   EXCEPT !.reserved = r]
  <2>2. known \in Nat /\ r \in Nat /\ d \in BOOLEAN
    <3>1. stages[i].content \in Contents /\ stages[i].extra \in Nat /\ stages[i].size \in Nat
      BY <2>1, BegunChanges
    <3>2. known \in Nat
      BY <1>a, <3>1
    <3>3. r \in Nat
      BY <3>1
    <3>4. d \in BOOLEAN
      BY Zenon
    <3>5. QED
      BY <3>2, <3>3, <3>4
  <2>3. stages' = [stages EXCEPT ![i] = s]
    BY <1>4, <1>a DEF DecideVerdict
  <2>4. temp' \subseteq temp /\ (i \in temp' => ~d)
    BY <1>4 DEF DecideVerdict
  <2> HIDE DEF known, r, d
  <2>5. s \in Begun /\ s.pc = "register" /\ s.done = d
    <3>1. [stages[i] EXCEPT !.pc = "register"] \in Begun
      BY <2>1, BegunChanges DEF Uploading
    <3>2. [[stages[i] EXCEPT !.pc = "register"] EXCEPT !.done = d] \in Begun
      BY <2>2, <3>1, BegunChanges
    <3>3. [[[stages[i] EXCEPT !.pc = "register"] EXCEPT !.done = d] EXCEPT !.book = known] \in Begun
      BY <2>2, <3>2, BegunChanges
    <3>4. s \in Begun
      BY <2>2, <3>3, BegunChanges
    <3>5. s.pc = "register" /\ s.done = d
      BY <2>1 DEF Begun
    <3>6. QED
      BY <3>4, <3>5
  <2> HIDE DEF s
  <2>6. i \in temp' => Keeps(s)
    BY <2>4, <2>5 DEF Keeps
  <2>7. QED
    BY <1>4, <1>a, <2>1, <2>3, <2>4, <2>5, <2>6, StageBecomes DEF DecideVerdict
<1>5. CASE Register(i)
  <2> DEFINE s == [stages[i] EXCEPT !.pc = "live"]
  <2>1. stages[i] \in Begun /\ stages[i].pc \notin Landed
    BY <1>5, <1>a DEF Register, Landed
  <2>2. s \in Begun /\ s.pc = "live" /\ s.done = stages[i].done
    BY <2>1, BegunChanges DEF Begun
  <2>3. stages' = [stages EXCEPT ![i] = s] /\ temp' = temp
    BY <1>5 DEF Register
  <2> HIDE DEF s
  <2>4. i \in temp => Keeps(s)
    BY <1>5, <1>a, <2>2 DEF Keeps, Register
  <2>5. QED
    BY <1>5, <1>a, <2>1, <2>2, <2>3, <2>4, StageBecomes DEF Register
<1>6. CASE Expire(i)
  <2> DEFINE s == [stages[i] EXCEPT !.expired = TRUE]
  <2>1. stages[i] \in Begun
    BY <1>6, <1>a DEF Expire
  <2>2. s \in Begun /\ s.pc = stages[i].pc /\ s.done = stages[i].done /\ s.book = stages[i].book
    BY <2>1, BegunChanges DEF Begun
  <2>3. stages' = [stages EXCEPT ![i] = s] /\ temp' = temp
    BY <1>6 DEF Expire
  <2> HIDE DEF s
  <2>4. i \in temp => Keeps(s)
    BY <1>a, <2>2 DEF Keeps
  <2>5. QED
    BY <1>6, <1>a, <2>2, <2>3, <2>4, StageBecomes DEF Expire
<1>7. QED
  BY <1>1, <1>2, <1>3, <1>4, <1>5, <1>6 DEF Staging
-----------------------------------------------------------------------------
\* A click moves to c, outside the steps that publish, take or answer.
LEMMA ClickMoves ==
  ASSUME ImportInv, NEW k \in Clicks, NEW c \in ClickStates, clicks' = [clicks EXCEPT ![k] = c],
         UNCHANGED <<stages, temp, lib, book, nextBook, published, answers>>,
         parts' \in [Names -> Clicks \cup {Free, Left}], PartsOK',
         c.pc \in {"idle", "lock"} \cup Before, clicks[k].pc # "take",
         c.pc # "idle" => stages[c.id].pc \in Landed /\ Confirmable(c.id),
         c.pc \in Before => /\ ~stages[c.id].done /\ published[c.id] = 0
                            /\ \A l \in Clicks \ {k} : clicks[l].pc \in Inside => clicks[l].id # c.id
  PROVE  ImportInv'
<1>1. clicks \in [Clicks -> ClickStates]
  BY DEF ImportInv, ShapeOK
<1>2. clicks'[k] = c /\ \A l \in Clicks \ {k} : clicks'[l] = clicks[l]
  BY <1>1
<1>3. ShapeOK'
  BY <1>1 DEF ImportInv, ShapeOK
<1>4. TempOK' /\ \A i \in Ids : StageOK(i)'
  BY DEF ImportInv, TempOK, StageOK
<1>5. \A l \in Clicks : ClickOK(l)'
  <2> SUFFICES ASSUME NEW l \in Clicks PROVE ClickOK(l)'
    OBVIOUS
  <2>1. CASE l = k
    BY <1>2, <2>1 DEF ClickOK, Before
  <2>2. CASE l # k
    BY <1>2, <2>2 DEF ImportInv, ClickOK
  <2>3. QED
    BY <2>1, <2>2
<1>6. OneInside'
  BY <1>2 DEF ImportInv, OneInside, Inside, Before
<1>7. Unpublished'
  <2> SUFFICES ASSUME NEW i \in Ids, Confirmable(i)'
               PROVE  published'[i] = 0 \/ stages'[i].done \/ Taking(i)'
    BY DEF Unpublished
  <2>1. Confirmable(i)
    BY <1>2 DEF Confirmable
  <2>2. published[i] = 0 \/ stages[i].done \/ Taking(i)
    BY <2>1 DEF ImportInv, Unpublished
  <2>3. Taking(i) => Taking(i)'
    BY <1>2 DEF Taking
  <2>4. QED
    BY <2>2, <2>3
<1>8. QED
  BY <1>3, <1>4, <1>5, <1>6, <1>7 DEF ImportInv

\* ... on with its confirm, or away from it.
LEMMA ClickGoesOn ==
  ASSUME ImportInv, NEW k \in Clicks, NEW c \in ClickStates, clicks' = [clicks EXCEPT ![k] = c],
         UNCHANGED <<stages, temp, lib, book, nextBook, published, answers>>,
         parts' \in [Names -> Clicks \cup {Free, Left}], PartsOK',
         clicks[k].pc \in Before \cup {"index"},
         \/ c.pc = "idle"
         \/ clicks[k].pc \in Before /\ c.pc \in Before /\ c.id = clicks[k].id
  PROVE  ImportInv'
<1>1. clicks[k].pc \in Inside /\ clicks[k].pc \notin {"idle", "take"}
  BY DEF Before, Inside
<1>2. c.pc # "idle" => stages[c.id].pc \in Landed /\ Confirmable(c.id)
  BY <1>1 DEF ImportInv, ClickOK, Confirmable
<1>3. c.pc \in Before => clicks[k].pc \in Before /\ c.id = clicks[k].id
  BY DEF Before
<1>4. c.pc \in Before => /\ ~stages[c.id].done /\ published[c.id] = 0
                         /\ \A l \in Clicks \ {k} : clicks[l].pc \in Inside => clicks[l].id # c.id
  BY <1>1, <1>3 DEF ImportInv, ClickOK, OneInside
<1>5. c.pc \in {"idle", "lock"} \cup Before
  OBVIOUS
<1>6. QED
  BY <1>1, <1>2, <1>4, <1>5, ClickMoves

\* What the moves leave of the .part files.
LEMMA PartsStay ==
  ASSUME ImportInv, NEW k \in Clicks, NEW c \in ClickStates, clicks' = [clicks EXCEPT ![k] = c],
         UNCHANGED parts,
         clicks[k].pc \in Writing => c.pc \in Writing /\ c.part = clicks[k].part
  PROVE  parts' \in [Names -> Clicks \cup {Free, Left}] /\ PartsOK'
<1>1. \A l \in Clicks \ {k} : clicks'[l] = clicks[l]
  BY DEF ImportInv, ShapeOK
<1>2. clicks'[k] = c
  BY DEF ImportInv, ShapeOK
<1>3. QED
  BY <1>1, <1>2 DEF ImportInv, ShapeOK, PartsOK

LEMMA PartDropped ==
  ASSUME ImportInv, NEW k \in Clicks, NEW c \in ClickStates, clicks' = [clicks EXCEPT ![k] = c],
         clicks[k].pc \in Writing, DropPart(k)
  PROVE  parts' \in [Names -> Clicks \cup {Free, Left}] /\ PartsOK'
<1>1. \A l \in Clicks \ {k} : clicks'[l] = clicks[l]
  BY DEF ImportInv, ShapeOK
<1>2. clicks[k].part \in Names
  BY ClickShape DEF ImportInv, ShapeOK, Writing
<1>3. parts' \in [Names -> Clicks \cup {Free, Left}]
  BY <1>2 DEF ImportInv, ShapeOK, DropPart
<1>4. PartsOK'
  <2> SUFFICES ASSUME NEW n \in Names, parts'[n] \in Clicks
               PROVE  clicks'[parts'[n]].pc \in Writing /\ clicks'[parts'[n]].part = n
    BY DEF PartsOK
  <2>1. n # clicks[k].part /\ parts'[n] = parts[n]
    BY <1>2, NameAssumption DEF ImportInv, ShapeOK, DropPart
  <2>2. clicks[parts[n]].pc \in Writing /\ clicks[parts[n]].part = n
    BY <2>1 DEF ImportInv, PartsOK
  <2>3. parts[n] # k
    BY <2>1, <2>2
  <2>4. QED
    BY <1>1, <2>1, <2>2, <2>3
<1>5. QED
  BY <1>3, <1>4
-----------------------------------------------------------------------------
\* The steps of a confirm, up to the publishing.
LEMMA PressStep ==
  ASSUME ImportInv, NEW k \in Clicks, NEW i \in Ids, Press(k, i)
  PROVE  ImportInv'
<1>1. clicks[k].pc = "idle" /\ stages[i].pc = "live"
  BY DEF Press, NoClick
<1>2. CASE stages[i].expired
  BY <1>1, <1>2, RemoveKeeps DEF Press
<1>3. CASE ~stages[i].expired
  <2> DEFINE c == [pc |-> "lock", id |-> i]
  <2>1. c \in ClickStates /\ c.pc = "lock" /\ c.id = i
    BY DEF ClickStates
  <2>2. clicks' = [clicks EXCEPT ![k] = c] /\ UNCHANGED <<stages, temp, library, history>>
    BY <1>3 DEF Press, Goes, OnlyClick
  <2> HIDE DEF c
  <2>3. parts' \in [Names -> Clicks \cup {Free, Left}] /\ PartsOK'
    BY <1>1, <2>1, <2>2, PartsStay DEF Writing, library
  <2>4. stages[i].pc \in Landed /\ Confirmable(i) /\ "lock" \notin Before
    BY <1>1 DEF Landed, Confirmable, Before
  <2>5. QED
    BY <1>1, <2>1, <2>2, <2>3, <2>4, ClickMoves DEF library, history
<1>4. QED
  BY <1>2, <1>3

LEMMA LockStep ==
  ASSUME ImportInv, NEW k \in Clicks, Lock(k)
  PROVE  ImportInv'
<1> DEFINE c == [clicks[k] EXCEPT !.pc = "open"]
<1>1. clicks[k] \in ClickStates /\ clicks[k].pc = "lock" /\ clicks[k].id \in Ids
  BY ClickShape DEF ImportInv, ShapeOK, Lock
<1>2. c \in [pc : {"lock", "open"}, id : Ids] /\ c.pc = "open" /\ c.id = clicks[k].id
  BY <1>1, ClickShape
<1>3. c \in ClickStates
  BY <1>2 DEF ClickStates
<1>4. clicks' = [clicks EXCEPT ![k] = c] /\ UNCHANGED <<stages, temp, library, history>>
  BY DEF Lock, Goes, OnlyClick
<1> HIDE DEF c
<1>5. parts' \in [Names -> Clicks \cup {Free, Left}] /\ PartsOK'
  BY <1>1, <1>3, <1>4, PartsStay DEF Writing, library
<1>6. stages[c.id].pc \in Landed /\ Confirmable(c.id)
  BY <1>1, <1>2 DEF ImportInv, ClickOK, Confirmable
<1>7. \A l \in Clicks : clicks[l].pc \in Inside => clicks[l].id # c.id
  BY <1>2 DEF Lock, Confirming, Inside, Before
<1>8. ~stages[c.id].done /\ published[c.id] = 0
  <2>1. ~Taking(c.id)
    BY <1>7 DEF Taking, Inside
  <2>2. ~stages[c.id].done
    BY <1>2 DEF Lock
  <2>3. QED
    BY <1>1, <1>2, <1>6, <2>1, <2>2 DEF ImportInv, Unpublished
<1>9. c.pc \in {"idle", "lock"} \cup Before /\ clicks[k].pc # "take"
  BY <1>1, <1>2 DEF Before
<1>10. QED
  BY <1>3, <1>4, <1>5, <1>6, <1>7, <1>8, <1>9, ClickMoves DEF library, history

LEMMA CopyingStep ==
  ASSUME ImportInv, NEW k \in Clicks,
         Open(k) \/ ClaimPart(k) \/ CopyPart(k) \/ LinkFails(k) \/ IndexFails(k)
  PROVE  ImportInv'
<1>a. /\ clicks[k] \in ClickStates /\ clicks \in [Clicks -> ClickStates]
      /\ NoClick \in ClickStates /\ NoClick.pc = "idle" /\ 1 \in Names
      /\ parts \in [Names -> Clicks \cup {Free, Left}]
  BY NameAssumption DEF ImportInv, ShapeOK, ClickStates, NoClick, Names
<1>1. CASE Open(k)
  <2> DEFINE c == IF clicks[k].id \in temp THEN [pc |-> "claim", id |-> clicks[k].id, n |-> 1] ELSE NoClick
  <2>1. clicks[k].pc = "open" /\ clicks[k].id \in Ids
    BY <1>1, <1>a, ClickShape DEF Open
  <2>2. c \in ClickStates /\ (c.pc = "idle" \/ (c.pc = "claim" /\ c.id = clicks[k].id))
    BY <1>a, <2>1 DEF ClickStates
  <2>3. clicks' = [clicks EXCEPT ![k] = c] /\ UNCHANGED <<stages, temp, library, history>>
    BY <1>1 DEF Open, Goes, OnlyClick
  <2> HIDE DEF c
  <2>4. parts' \in [Names -> Clicks \cup {Free, Left}] /\ PartsOK'
    BY <2>1, <2>2, <2>3, PartsStay DEF Writing, library
  <2>5. QED
    BY <2>1, <2>2, <2>3, <2>4, ClickGoesOn DEF library, history, Before
<1>2. CASE ClaimPart(k)
  <2> DEFINE n == clicks[k].n
  <2>1. /\ clicks[k].pc = "claim" /\ clicks[k].id \in Ids /\ n \in Names
        /\ clicks[k] \in [pc : {"claim"}, id : Ids, n : Names]
    BY <1>2, <1>a, ClickShape DEF ClaimPart
  <2>2. CASE parts[n] = Free
    <3> DEFINE c == [pc |-> "copy", id |-> clicks[k].id, part |-> n]
    <3>1. c \in ClickStates /\ c.pc = "copy" /\ c.id = clicks[k].id /\ c.part = n
      BY <2>1 DEF ClickStates
    <3>2. clicks' = [clicks EXCEPT ![k] = c] /\ parts' = [parts EXCEPT ![n] = k]
      BY <1>2, <2>2 DEF ClaimPart, Goes
    <3> HIDE DEF c, n
    <3>3. parts' \in [Names -> Clicks \cup {Free, Left}]
      BY <1>a, <2>1, <3>2
    <3>4. PartsOK'
      <4> SUFFICES ASSUME NEW m \in Names, parts'[m] \in Clicks
                   PROVE  clicks'[parts'[m]].pc \in Writing /\ clicks'[parts'[m]].part = m
        BY DEF PartsOK
      <4>1. CASE m = n
        <5>1. parts'[m] = k /\ clicks'[k] = c
          BY <1>a, <2>1, <3>2, <4>1
        <5>2. QED
          BY <3>1, <4>1, <5>1 DEF Writing
      <4>2. CASE m # n
        <5>1. parts'[m] = parts[m]
          BY <1>a, <3>2, <4>2
        <5>2. clicks[parts[m]].pc \in Writing /\ clicks[parts[m]].part = m
          BY <5>1 DEF ImportInv, PartsOK
        <5>3. parts[m] # k
          BY <2>1, <5>2 DEF Writing
        <5>4. QED
          BY <1>a, <3>2, <5>1, <5>2, <5>3
      <4>3. QED
        BY <4>1, <4>2
    <3>5. QED
      BY <1>2, <2>1, <3>1, <3>2, <3>3, <3>4, ClickGoesOn DEF ClaimPart, history, Before
  <2>3. CASE parts[n] # Free
    <3> DEFINE c == IF n < MaxName THEN [clicks[k] EXCEPT !.n = n + 1] ELSE NoClick
    <3>1. n < MaxName => n + 1 \in Names
      BY <2>1, NameAssumption DEF Names
    <3>2. n < MaxName => c \in [pc : {"claim"}, id : Ids, n : Names] /\ c.id = clicks[k].id
      BY <2>1, <3>1
    <3>3. c \in ClickStates /\ (c.pc = "idle" \/ (c.pc = "claim" /\ c.id = clicks[k].id))
      BY <1>a, <3>2 DEF ClickStates
    <3>4. clicks' = [clicks EXCEPT ![k] = c] /\ UNCHANGED parts
      BY <1>2, <2>3 DEF ClaimPart, Goes
    <3> HIDE DEF c
    <3>5. parts' \in [Names -> Clicks \cup {Free, Left}] /\ PartsOK'
      BY <2>1, <3>3, <3>4, PartsStay DEF Writing
    <3>6. QED
      BY <1>2, <2>1, <3>3, <3>4, <3>5, ClickGoesOn DEF ClaimPart, history, Before
  <2>4. QED
    BY <2>2, <2>3
<1>3. CASE CopyPart(k)
  <2>1. /\ clicks[k].pc = "copy" /\ clicks[k].id \in Ids /\ clicks[k].part \in Names
    BY <1>3, <1>a, ClickShape DEF CopyPart
  <2>2. CASE Goes(k, NoClick) /\ DropPart(k)
    <3>1. parts' \in [Names -> Clicks \cup {Free, Left}] /\ PartsOK'
      BY <1>a, <2>1, <2>2, PartDropped DEF Goes, Writing
    <3>2. QED
      BY <1>3, <1>a, <2>1, <2>2, <3>1, ClickGoesOn DEF Goes, CopyPart, history, Before
  <2> DEFINE c == [pc |-> "link", id |-> clicks[k].id, part |-> clicks[k].part, n |-> 1]
  <2>3. CASE Goes(k, c) /\ UNCHANGED parts
    <3>1. c \in ClickStates /\ c.pc = "link" /\ c.id = clicks[k].id /\ c.part = clicks[k].part
      BY <1>a, <2>1 DEF ClickStates
    <3>2. clicks' = [clicks EXCEPT ![k] = c]
      BY <2>3 DEF Goes
    <3> HIDE DEF c
    <3>3. parts' \in [Names -> Clicks \cup {Free, Left}] /\ PartsOK'
      BY <2>3, <3>1, <3>2, PartsStay DEF Writing
    <3>4. QED
      BY <1>3, <2>1, <2>3, <3>1, <3>2, <3>3, ClickGoesOn DEF CopyPart, history, Before
  <2>4. QED
    BY <1>3, <2>2, <2>3 DEF CopyPart
<1>4. CASE LinkFails(k)
  <2> DEFINE c == [clicks[k] EXCEPT !.pc = "lstat", !.n = 1]
             L == [pc : {"link", "lstat", "rename"}, id : Ids, part : Names, n : Names]
  <2>1. clicks[k].pc = "link" /\ clicks[k] \in L
    BY <1>4, <1>a, ClickShape DEF LinkFails
  <2>2. c \in L /\ c.pc = "lstat" /\ c.id = clicks[k].id /\ c.part = clicks[k].part
    BY <1>a, <2>1
  <2>3. c \in ClickStates
    BY <2>2 DEF ClickStates
  <2>4. clicks' = [clicks EXCEPT ![k] = c] /\ UNCHANGED <<stages, temp, library, history>>
    BY <1>4 DEF LinkFails, Goes, OnlyClick
  <2> HIDE DEF c, L
  <2>5. parts' \in [Names -> Clicks \cup {Free, Left}] /\ PartsOK'
    BY <2>2, <2>3, <2>4, PartsStay DEF Writing, library
  <2>6. QED
    BY <2>1, <2>2, <2>3, <2>4, <2>5, ClickGoesOn DEF library, history, Before
<1>5. CASE IndexFails(k)
  <2>1. clicks[k].pc = "index" /\ clicks' = [clicks EXCEPT ![k] = NoClick]
    BY <1>5 DEF IndexFails, Goes
  <2>2. UNCHANGED <<stages, temp, library, history>>
    BY <1>5 DEF IndexFails, OnlyClick
  <2>3. parts' \in [Names -> Clicks \cup {Free, Left}] /\ PartsOK'
    BY <1>a, <2>1, <2>2, PartsStay DEF Writing, library
  <2>4. QED
    BY <1>a, <2>1, <2>2, <2>3, ClickGoesOn DEF library, history
<1>6. QED
  BY <1>1, <1>2, <1>3, <1>4, <1>5
-----------------------------------------------------------------------------
\* The publishing and what follows it.
LinkRecords == [pc : {"link", "lstat", "rename"}, id : Ids, part : Names, n : Names]

LEMMA LinkShape ==
  ASSUME ImportInv, NEW k \in Clicks, clicks[k].pc \in {"link", "lstat", "rename"}
  PROVE  /\ clicks[k] \in LinkRecords
         /\ clicks[k].id \in Ids /\ clicks[k].part \in Names /\ clicks[k].n \in Names
         /\ clicks[k].pc \in Writing /\ clicks[k].pc \in Before
         /\ \A c \in LinkRecords : c \in ClickStates
         /\ NoClick \in ClickStates /\ NoClick.pc = "idle"
<1>1. clicks[k] \in LinkRecords
  BY ClickShape DEF ImportInv, ShapeOK, LinkRecords
<1>2. \A c \in LinkRecords : c \in ClickStates
  BY DEF LinkRecords, ClickStates
<1>3. clicks[k].id \in Ids /\ clicks[k].part \in Names /\ clicks[k].n \in Names
  BY <1>1 DEF LinkRecords
<1>4. NoClick \in ClickStates /\ NoClick.pc = "idle"
  BY DEF NoClick, ClickStates
<1>5. QED
  BY <1>1, <1>2, <1>3, <1>4 DEF Writing, Before

LEMMA NextNameKeeps ==
  ASSUME ImportInv, NEW k \in Clicks, clicks[k].pc \in {"link", "lstat"}, NextName(k),
         UNCHANGED <<stages, temp, book, nextBook, answers>>
  PROVE  ImportInv'
<1>1. /\ clicks[k] \in LinkRecords /\ clicks[k].n \in Names
      /\ clicks[k].pc \in Writing /\ clicks[k].pc \in Before
      /\ \A c \in LinkRecords : c \in ClickStates
      /\ NoClick \in ClickStates /\ NoClick.pc = "idle"
  BY LinkShape
<1>2. CASE clicks[k].n < MaxName
  <2> DEFINE c == [clicks[k] EXCEPT !.n = clicks[k].n + 1]
  <2>1. clicks[k].n + 1 \in Names
    BY <1>1, <1>2, NameAssumption DEF Names
  <2>2. /\ c \in LinkRecords /\ c.pc = clicks[k].pc /\ c.id = clicks[k].id
        /\ c.part = clicks[k].part
    BY <1>1, <2>1 DEF LinkRecords
  <2>3. clicks' = [clicks EXCEPT ![k] = c] /\ UNCHANGED parts
    BY <1>2 DEF NextName, Goes
  <2> HIDE DEF c
  <2>4. c \in ClickStates
    BY <1>1, <2>2
  <2>5. parts' \in [Names -> Clicks \cup {Free, Left}] /\ PartsOK'
    BY <1>1, <2>2, <2>3, <2>4, PartsStay
  <2>6. QED
    BY <1>1, <2>2, <2>3, <2>4, <2>5, ClickGoesOn DEF NextName
<1>3. CASE ~(clicks[k].n < MaxName)
  <2>1. clicks' = [clicks EXCEPT ![k] = NoClick] /\ DropPart(k)
    BY <1>3 DEF NextName, Goes
  <2>2. parts' \in [Names -> Clicks \cup {Free, Left}] /\ PartsOK'
    BY <1>1, <2>1, PartDropped
  <2>3. QED
    BY <1>1, <2>1, <2>2, ClickGoesOn DEF NextName
<1>4. QED
  BY <1>2, <1>3

\* The one copy: the click was alone at its stage, which had none.
LEMMA PublishKeeps ==
  ASSUME ImportInv, NEW k \in Clicks, NEW n \in Names, clicks[k].pc \in {"link", "rename"},
         Publish(k, n), UNCHANGED <<stages, temp, book, nextBook, answers>>
  PROVE  ImportInv'
<1> DEFINE i == clicks[k].id
           c == [pc |-> "take", id |-> i, n |-> n]
<1>1. i \in Ids /\ clicks[k].pc \in Writing /\ clicks[k].pc \in Before /\ clicks[k].pc \in Inside
  BY LinkShape DEF Inside
<1>2. /\ clicks \in [Clicks -> ClickStates] /\ published \in [Ids -> Nat]
      /\ lib \in [Names -> Contents \cup {NoFile}] /\ stages \in [Ids -> Stages]
  BY DEF ImportInv, ShapeOK
<1>3. c \in ClickStates /\ c.pc = "take" /\ c.id = i
  BY <1>1 DEF ClickStates
<1>4. stages[i].pc \in Landed /\ ~stages[i].done /\ published[i] = 0
  BY <1>1 DEF ImportInv, ClickOK, Before
<1>5. \A l \in Clicks : clicks[l].pc \in Inside /\ clicks[l].id = i => l = k
  BY <1>1 DEF ImportInv, OneInside
<1>6. clicks' = [clicks EXCEPT ![k] = c] /\ published' = [published EXCEPT ![i] = @ + 1]
  BY DEF Publish, Goes
<1> HIDE DEF c
<1>7. clicks'[k] = c /\ \A l \in Clicks \ {k} : clicks'[l] = clicks[l]
  BY <1>2, <1>6
<1>8. published'[i] = 1 /\ \A j \in Ids \ {i} : published'[j] = published[j]
  BY <1>1, <1>2, <1>4, <1>6
<1>9. parts' \in [Names -> Clicks \cup {Free, Left}] /\ PartsOK'
  BY <1>1, <1>3, <1>6, PartDropped DEF Publish
<1>10. ShapeOK'
  <2>1. stages[i].content \in Contents
    BY <1>1, <1>2, <1>4, StageShape, BegunChanges DEF Landed
  <2>2. lib' \in [Names -> Contents \cup {NoFile}]
    BY <1>2, <2>1 DEF Publish
  <2>3. clicks' \in [Clicks -> ClickStates] /\ published' \in [Ids -> Nat]
    BY <1>1, <1>2, <1>3, <1>6
  <2>4. QED
    BY <1>9, <2>2, <2>3 DEF ImportInv, ShapeOK
<1>11. TempOK'
  BY DEF ImportInv, TempOK
<1>12. \A j \in Ids : StageOK(j)'
  BY <1>4, <1>8 DEF ImportInv, StageOK
<1>13. ASSUME NEW l \in Clicks PROVE ClickOK(l)'
  <2>1. CASE l = k
    BY <1>3, <1>4, <1>7, <2>1 DEF ClickOK, Before
  <2>2. CASE l # k
    <3>1. clicks'[l] = clicks[l] /\ ClickOK(l)
      BY <1>7, <2>2 DEF ImportInv
    <3>2. clicks[l].pc \in Before => clicks[l].id \in Ids \ {i}
      BY <1>2, <1>5, <2>2, ClickShape DEF Inside, Before
    <3>3. QED
      BY <1>8, <3>1, <3>2 DEF ClickOK
  <2>3. QED
    BY <2>1, <2>2
<1>14. OneInside'
  BY <1>3, <1>5, <1>7 DEF ImportInv, OneInside
<1>15. Unpublished'
  <2> SUFFICES ASSUME NEW j \in Ids, Confirmable(j)'
               PROVE  published'[j] = 0 \/ stages'[j].done \/ Taking(j)'
    BY DEF Unpublished
  <2>1. CASE j = i
    BY <1>3, <1>7, <2>1 DEF Taking
  <2>2. CASE j # i
    <3>1. Confirmable(j)
      BY <1>3, <1>7, <2>2 DEF Confirmable
    <3>2. published[j] = 0 \/ stages[j].done \/ Taking(j)
      BY <3>1 DEF ImportInv, Unpublished
    <3>3. Taking(j) => Taking(j)'
      BY <1>3, <1>7, <2>2 DEF Taking
    <3>4. QED
      BY <1>8, <2>2, <3>2, <3>3
  <2>3. QED
    BY <2>1, <2>2
<1>16. QED
  BY <1>9, <1>10, <1>11, <1>12, <1>13, <1>14, <1>15 DEF ImportInv

LEMMA PublishStep ==
  ASSUME ImportInv, NEW k \in Clicks, Link(k) \/ LstatName(k) \/ Rename(k)
  PROVE  ImportInv'
<1>1. CASE Link(k)
  <2>1. clicks[k].n \in Names /\ clicks[k].pc = "link"
    BY <1>1, LinkShape DEF Link
  <2>2. QED
    BY <1>1, <2>1, PublishKeeps, NextNameKeeps DEF Link
<1>2. CASE LstatName(k)
  <2>1. /\ clicks[k] \in LinkRecords /\ clicks[k].pc = "lstat" /\ clicks[k].pc \in Before
        /\ \A c \in LinkRecords : c \in ClickStates
    BY <1>2, LinkShape DEF LstatName
  <2>2. CASE lib[clicks[k].n] = NoFile
    <3> DEFINE c == [clicks[k] EXCEPT !.pc = "rename"]
    <3>1. c \in LinkRecords /\ c.pc = "rename" /\ c.id = clicks[k].id /\ c.part = clicks[k].part
      BY <2>1 DEF LinkRecords
    <3>2. clicks' = [clicks EXCEPT ![k] = c] /\ UNCHANGED <<lib, parts, published>>
      BY <1>2, <2>2 DEF LstatName, Goes
    <3> HIDE DEF c
    <3>3. c \in ClickStates
      BY <2>1, <3>1
    <3>4. parts' \in [Names -> Clicks \cup {Free, Left}] /\ PartsOK'
      BY <3>1, <3>2, <3>3, PartsStay DEF Writing
    <3>5. QED
      BY <1>2, <2>1, <3>1, <3>2, <3>3, <3>4, ClickGoesOn DEF LstatName, Before
  <2>3. CASE lib[clicks[k].n] # NoFile
    BY <1>2, <2>1, <2>3, NextNameKeeps DEF LstatName
  <2>4. QED
    BY <2>2, <2>3
<1>3. CASE Rename(k)
  <2>1. clicks[k].n \in Names /\ clicks[k].pc = "rename"
    BY <1>3, LinkShape DEF Rename
  <2>2. QED
    BY <1>3, <2>1, PublishKeeps DEF Rename
<1>4. QED
  BY <1>1, <1>2, <1>3
-----------------------------------------------------------------------------
\* A click of stage i changes what i has answered, and the stage with it:
\* done and with one book at the end.
LEMMA StageAnswers ==
  ASSUME ImportInv, NEW k \in Clicks, NEW c \in ClickStates, NEW i \in Ids, NEW s \in Begun,
         clicks[k].pc \in {"lock", "take", "index"}, clicks[k].id = i,
         \A l \in Clicks \ {k} : clicks[l].pc \in Inside => clicks[l].id # i,
         clicks' = [clicks EXCEPT ![k] = c], stages' = [stages EXCEPT ![i] = s],
         c.pc = "idle" \/ (c.pc = "index" /\ c.id = i /\ answers'[i] = {}),
         s.pc = stages[i].pc, s.done, temp' \subseteq temp, i \notin temp',
         NEW a \in SUBSET Nat, answers' = [answers EXCEPT ![i] = a], a \subseteq {s.book},
         UNCHANGED <<lib, parts, published>>,
         book' \in [Contents -> Nat], nextBook' \in Nat
  PROVE  ImportInv'
<1>1. /\ clicks \in [Clicks -> ClickStates] /\ stages \in [Ids -> Stages]
      /\ answers \in [Ids -> SUBSET Nat] /\ temp \subseteq Ids /\ s \in Stages
  BY BegunChanges DEF ImportInv, ShapeOK
<1>2. clicks'[k] = c /\ \A l \in Clicks \ {k} : clicks'[l] = clicks[l]
  BY <1>1
<1>3. /\ stages'[i] = s /\ \A j \in Ids \ {i} : stages'[j] = stages[j]
      /\ answers'[i] = a /\ \A j \in Ids \ {i} : answers'[j] = answers[j]
  BY <1>1
<1>4. PartsOK' /\ ShapeOK'
  <2>1. parts' \in [Names -> Clicks \cup {Free, Left}] /\ PartsOK'
    BY PartsStay DEF Writing
  <2>2. stages' \in [Ids -> Stages] /\ clicks' \in [Clicks -> ClickStates] /\ answers' \in [Ids -> SUBSET Nat]
    BY <1>1
  <2>3. QED
    BY <1>1, <2>1, <2>2 DEF ImportInv, ShapeOK
<1>5. TempOK'
  BY <1>1, <1>3 DEF ImportInv, TempOK
<1>6. stages[i].pc \in Landed
  BY DEF ImportInv, ClickOK
<1>7. ASSUME NEW j \in Ids PROVE StageOK(j)'
  <2>1. StageOK(j) /\ published' = published
    BY DEF ImportInv
  <2>2. CASE j = i
    <3>0. stages'[j] = s /\ answers'[j] = a
      BY <1>3, <2>2, Zenon
    <3>1. stages'[j].pc \in Landed /\ stages'[j].done /\ answers'[j] \subseteq {stages'[j].book}
      <4>1. s.pc \in Landed
        BY <1>6
      <4>2. QED
        BY <3>0, <4>1, Zenon
    <3>2. published'[j] <= 1
      BY <2>1 DEF StageOK
    <3>3. QED
      BY <3>1, <3>2, Zenon DEF StageOK
  <2>3. CASE j # i
    BY <1>3, <2>1, <2>3 DEF StageOK
  <2>4. QED
    BY <2>2, <2>3
<1>8. ASSUME NEW l \in Clicks PROVE ClickOK(l)'
  <2>1. CASE l = k
    BY <1>2, <1>3, <1>6, <2>1 DEF ClickOK, Before
  <2>2. CASE l # k
    <3>1. clicks'[l] = clicks[l] /\ ClickOK(l) /\ (clicks[l].pc # "idle" => clicks[l].id \in Ids)
      BY <1>1, <1>2, <2>2, ClickShape DEF ImportInv
    <3>2. CASE clicks[l].pc # "idle" /\ clicks[l].id = i
      <4>1. clicks[l].pc \notin Inside
        BY <2>2, <3>2
      <4>2. QED
        BY <1>3, <1>6, <3>1, <3>2, <4>1 DEF ClickOK, Inside, Before
    <3>3. CASE clicks[l].pc # "idle" /\ clicks[l].id # i
      BY <1>3, <3>1, <3>3 DEF ClickOK
    <3>4. CASE clicks[l].pc = "idle"
      BY <3>1, <3>4 DEF ClickOK, Before
    <3>5. QED
      BY <3>2, <3>3, <3>4
  <2>3. QED
    BY <2>1, <2>2
<1>9. OneInside'
  BY <1>2 DEF ImportInv, OneInside, Inside, Before
<1>10. Unpublished'
  <2> SUFFICES ASSUME NEW j \in Ids, Confirmable(j)'
               PROVE  published'[j] = 0 \/ stages'[j].done \/ Taking(j)'
    BY DEF Unpublished
  <2>1. CASE j = i
    BY <1>3, <2>1
  <2>2. CASE j # i
    <3>1. Confirmable(j)
      BY <1>2, <1>3, <2>2 DEF Confirmable
    <3>2. published[j] = 0 \/ stages[j].done \/ Taking(j)
      BY <3>1 DEF ImportInv, Unpublished
    <3>3. Taking(j) => Taking(j)'
      BY <1>2, <2>2 DEF Taking
    <3>4. QED
      BY <1>3, <2>2, <3>2, <3>3
  <2>3. QED
    BY <2>1, <2>2
<1>11. QED
  BY <1>4, <1>5, <1>7, <1>8, <1>9, <1>10 DEF ImportInv

LEMMA AnswerStep ==
  ASSUME ImportInv, NEW k \in Clicks, AnswerAgain(k) \/ Take(k) \/ Index(k)
  PROVE  ImportInv'
<1> DEFINE i == clicks[k].id
<1>a. clicks[k].pc \in {"lock", "take", "index"}
  BY DEF AnswerAgain, Take, Index
<1>b. /\ clicks[k] \in ClickStates /\ i \in Ids /\ stages \in [Ids -> Stages]
      /\ answers \in [Ids -> SUBSET Nat] /\ temp \subseteq Ids
      /\ book \in [Contents -> Nat] /\ nextBook \in Nat
      /\ lib \in [Names -> Contents \cup {NoFile}]
  BY <1>a, ClickShape DEF ImportInv, ShapeOK
<1>c. stages[i].pc \in Landed /\ stages[i] \in Begun /\ stages[i].book \in Nat
  BY <1>a, <1>b, StageShape DEF ImportInv, ClickOK, Landed
<1>d. NoClick \in ClickStates /\ NoClick.pc = "idle"
  BY DEF NoClick, ClickStates
<1>1. CASE AnswerAgain(k)
  <2> DEFINE a == answers[i] \cup ({stages[i].book} \ {0})
  <2>1. stages[i].done /\ Confirming(i) = {} /\ clicks[k].pc = "lock"
    BY <1>1 DEF AnswerAgain
  <2>2. a \in SUBSET Nat /\ a \subseteq {stages[i].book}
    BY <1>b, <1>c DEF ImportInv, StageOK
  <2>3. \A l \in Clicks \ {k} : clicks[l].pc \in Inside => clicks[l].id # i
    BY <2>1 DEF Confirming, Inside, Before
  <2>4. i \notin temp
    BY <1>c, <2>1 DEF ImportInv, TempOK, Keeps, Landed
  <2>5. stages' = [stages EXCEPT ![i] = stages[i]] /\ answers' = [answers EXCEPT ![i] = a]
    BY <1>1, <1>b DEF AnswerAgain
  <2>6. /\ clicks' = [clicks EXCEPT ![k] = NoClick]
        /\ UNCHANGED <<temp, lib, parts, published, book, nextBook>>
    BY <1>1 DEF AnswerAgain, Goes, library
  <2> HIDE DEF a
  <2>7. QED
    BY <1>a, <1>b, <1>c, <1>d, <2>1, <2>2, <2>3, <2>4, <2>5, <2>6, StageAnswers
<1>2. CASE Take(k)
  <2> DEFINE c == [clicks[k] EXCEPT !.pc = "index"]
             s == [[stages[i] EXCEPT !.reserved = 0] EXCEPT !.done = TRUE]
             a == answers[i]
  <2>1. clicks[k].pc = "take" /\ clicks[k] \in [pc : {"take", "index"}, id : Ids, n : Names]
    BY <1>2, <1>b, ClickShape DEF Take
  <2>2. c \in [pc : {"take", "index"}, id : Ids, n : Names] /\ c.pc = "index" /\ c.id = i
    BY <2>1
  <2>3. c \in ClickStates
    BY <2>2 DEF ClickStates
  <2>4. s \in Begun
    BY <1>c, BegunChanges
  <2>5. s.pc = stages[i].pc /\ s.done /\ s.book = stages[i].book
    BY <1>c DEF Begun
  <2>6. clicks' = [clicks EXCEPT ![k] = c] /\ stages' = [stages EXCEPT ![i] = s] /\ temp' = temp \ {i}
    BY <1>2, <1>b DEF Take, Goes, Taken
  <2>7. a = {} /\ answers' = [answers EXCEPT ![i] = a]
    <3>1. a = {}
      BY <1>b, <2>1 DEF ImportInv, ClickOK, StageOK
    <3>2. QED
      BY <1>2, <1>b, <3>1 DEF Take, history
  <2>8. \A l \in Clicks \ {k} : clicks[l].pc \in Inside => clicks[l].id # i
    BY <2>1 DEF ImportInv, OneInside, Inside
  <2>9. UNCHANGED <<lib, parts, published, book, nextBook>> /\ answers' = answers
    BY <1>2 DEF Take, library, history
  <2> HIDE DEF c, s, a
  <2>10. /\ answers'[i] = {} /\ a \in SUBSET Nat /\ a \subseteq {s.book}
         /\ temp' \subseteq temp /\ i \notin temp'
         /\ book' \in [Contents -> Nat] /\ nextBook' \in Nat
    BY <1>b, <2>6, <2>7, <2>9
  <2>11. c.pc = "index" /\ c.id = i /\ s.pc = stages[i].pc /\ s.done
    BY <2>2, <2>5
  <2>12. /\ clicks' = [clicks EXCEPT ![k] = c] /\ stages' = [stages EXCEPT ![i] = s]
         /\ answers' = [answers EXCEPT ![i] = a] /\ i \in Ids /\ clicks[k].id = i
         /\ UNCHANGED <<lib, parts, published>>
    BY <1>b, <2>6, <2>7, <2>9
  <2> HIDE DEF i
  <2>13. QED
    BY <1>a, <2>3, <2>4, <2>8, <2>10, <2>11, <2>12, StageAnswers
<1>3. CASE Index(k)
  <2> DEFINE h == lib[clicks[k].n]
             s == [stages[i] EXCEPT !.book = book'[h]]
             a == answers[i] \cup {book'[h]}
  <2>1. clicks[k].pc = "index" /\ clicks[k].n \in Names
    BY <1>3, <1>b, ClickShape DEF Index
  <2>2. h \in Contents /\ Indexed(h)
    BY <1>3, <1>b, <2>1 DEF Index
  <2>3. book' \in [Contents -> Nat] /\ nextBook' \in Nat
    BY <1>b, <2>2 DEF Indexed
  <2>4. book'[h] \in Nat
    BY <2>2, <2>3
  <2>5. stages[i].done /\ answers[i] = {}
    BY <2>1 DEF ImportInv, ClickOK
  <2>6. s \in Begun
    BY <1>c, <2>4, BegunChanges
  <2>7. s.pc = stages[i].pc /\ s.done /\ s.book = book'[h]
    BY <1>c, <2>5 DEF Begun
  <2>8. stages' = [stages EXCEPT ![i] = s] /\ answers' = [answers EXCEPT ![i] = a]
    BY <1>3 DEF Index
  <2>9. a \in SUBSET Nat /\ a \subseteq {s.book}
    BY <2>4, <2>5, <2>7
  <2>10. i \notin temp
    BY <1>c, <2>5 DEF ImportInv, TempOK, Keeps, Landed
  <2>11. \A l \in Clicks \ {k} : clicks[l].pc \in Inside => clicks[l].id # i
    BY <2>1 DEF ImportInv, OneInside, Inside
  <2>12. clicks' = [clicks EXCEPT ![k] = NoClick] /\ UNCHANGED <<temp, lib, parts, published>>
    BY <1>3 DEF Index, Goes
  <2> HIDE DEF s, a, h
  <2>13. QED
    BY <1>a, <1>b, <1>c, <1>d, <2>3, <2>6, <2>7, <2>8, <2>9, <2>10, <2>11, <2>12, StageAnswers
<1>4. QED
  BY <1>1, <1>2, <1>3
-----------------------------------------------------------------------------
\* The restart and the outside world.
LEMMA RestartStep ==
  ASSUME ImportInv, Restart
  PROVE  ImportInv'
<1> DEFINE ids == {i \in Ids : stages[i].pc # "new"}
<1>1. /\ stages \in [Ids -> Stages] /\ stages' = Removed(ids) /\ temp' = {}
      /\ clicks' = [k \in Clicks |-> NoClick] /\ UNCHANGED <<lib, book, nextBook, history>>
      /\ parts' = [n \in Names |-> IF parts[n] \in Clicks THEN Left ELSE parts[n]]
      /\ parts \in [Names -> Clicks \cup {Free, Left}]
  BY DEF Restart, ImportInv, ShapeOK
<1>2. \A i \in ids : stages[i] \in Begun
  BY <1>1, StageShape
<1>3. \A s \in Begun : /\ [s EXCEPT !.pc = "gone", !.reserved = 0] \in Begun
                       /\ [s EXCEPT !.pc = "gone", !.reserved = 0].pc = "gone"
                       /\ [s EXCEPT !.pc = "gone", !.reserved = 0].done = s.done
                       /\ [s EXCEPT !.pc = "gone", !.reserved = 0].book = s.book
  BY DEF Begun
<1>4. \A i \in ids : /\ stages'[i] \in Stages /\ stages'[i].pc = "gone"
                     /\ stages'[i].done = stages[i].done /\ stages'[i].book = stages[i].book
  BY <1>1, <1>2, <1>3, BegunChanges DEF Removed
<1>5. \A i \in Ids \ ids : stages'[i] = stages[i] /\ stages[i].pc = "new"
  BY <1>1 DEF Removed
<1>6. NoClick \in ClickStates /\ NoClick.pc = "idle"
  BY DEF NoClick, ClickStates
<1>7. ShapeOK'
  <2>1. stages' \in [Ids -> Stages]
    <3>1. \A i \in Ids : stages'[i] \in Stages
      BY <1>1, <1>4, <1>5
    <3>2. QED
      BY <1>1, <3>1 DEF Removed
  <2>2. parts' \in [Names -> Clicks \cup {Free, Left}]
    BY <1>1
  <2>3. QED
    BY <1>1, <1>6, <2>1, <2>2 DEF ImportInv, ShapeOK, history
<1>8. TempOK' /\ PartsOK'
  BY <1>1, NameAssumption DEF TempOK, PartsOK
<1>9. ASSUME NEW i \in Ids PROVE StageOK(i)'
  <2>1. StageOK(i) /\ published' = published /\ answers' = answers
    BY <1>1 DEF ImportInv, history
  <2>2. CASE i \in ids
    BY <1>4, <2>1, <2>2 DEF StageOK, Landed
  <2>3. CASE i \notin ids
    BY <1>5, <2>1, <2>3 DEF StageOK
  <2>4. QED
    BY <2>2, <2>3
<1>10. (\A k \in Clicks : ClickOK(k)') /\ OneInside'
  BY <1>1, <1>6 DEF ClickOK, OneInside, Inside, Before
<1>11. Unpublished'
  <2> SUFFICES ASSUME NEW i \in Ids PROVE ~Confirmable(i)'
    BY DEF Unpublished
  <2>1. stages'[i].pc # "live"
    BY <1>4, <1>5
  <2>2. QED
    BY <1>1, <1>6, <2>1 DEF Confirmable
<1>12. QED
  BY <1>7, <1>8, <1>9, <1>10, <1>11 DEF ImportInv

LEMMA OutsideStep ==
  ASSUME ImportInv,
         \/ \E n \in Names : TakeFile(n) \/ SweepIndexes(n) \/ \E c \in Contents : PutFile(n, c)
         \/ \E c \in Contents : SweepPrunes(c)
  PROVE  ImportInv'
<1>1. UNCHANGED <<stages, temp, clicks, parts, history>>
  BY DEF TakeFile, SweepIndexes, PutFile, SweepPrunes
<1>2. lib' \in [Names -> Contents \cup {NoFile}] /\ book' \in [Contents -> Nat] /\ nextBook' \in Nat
  BY DEF ImportInv, ShapeOK, TakeFile, SweepIndexes, PutFile, SweepPrunes, Indexed
<1>3. ShapeOK' /\ TempOK' /\ PartsOK' /\ OneInside'
  BY <1>1, <1>2 DEF ImportInv, ShapeOK, TempOK, PartsOK, OneInside, history
<1>4. (\A i \in Ids : StageOK(i)') /\ (\A k \in Clicks : ClickOK(k)')
  BY <1>1 DEF ImportInv, StageOK, ClickOK, history
<1>5. Unpublished'
  BY <1>1 DEF ImportInv, Unpublished, Confirmable, Taking, history
<1>6. QED
  BY <1>3, <1>4, <1>5 DEF ImportInv

LEMMA ImportStep == ImportInv /\ [Next]_vars => ImportInv'
<1> SUFFICES ASSUME ImportInv, [Next]_vars PROVE ImportInv'
  OBVIOUS
<1>1. CASE UNCHANGED vars
  <2>1. ShapeOK' /\ TempOK' /\ PartsOK' /\ OneInside'
    BY <1>1 DEF vars, ImportInv, ShapeOK, TempOK, PartsOK, OneInside
  <2>2. (\A i \in Ids : StageOK(i)') /\ (\A k \in Clicks : ClickOK(k)')
    BY <1>1 DEF vars, ImportInv, StageOK, ClickOK
  <2>3. Unpublished'
    BY <1>1 DEF vars, ImportInv, Unpublished, Confirmable, Taking
  <2>4. QED
    BY <2>1, <2>2, <2>3 DEF ImportInv
<1>2. CASE Janitor
  BY <1>2, RemoveKeeps DEF Janitor, Expired
<1>3. ASSUME NEW i \in Ids, Discard(i) PROVE ImportInv'
  BY <1>3, RemoveKeeps DEF Discard
<1>4. ASSUME NEW i \in Ids, Reserve(i) \/ Staging(i) \/ Expire(i) PROVE ImportInv'
  BY <1>4, UploadStep
<1>5. ASSUME NEW k \in Clicks, Confirm(k) PROVE ImportInv'
  BY <1>5, LockStep, CopyingStep, PublishStep, AnswerStep DEF Confirm
<1>6. ASSUME NEW k \in Clicks, NEW i \in Ids, Press(k, i) PROVE ImportInv'
  BY <1>6, PressStep
<1>7. QED
  BY <1>1, <1>2, <1>3, <1>4, <1>5, <1>6, RestartStep, OutsideStep DEF Next

LEMMA ImportAlways == Spec => []ImportInv
<1>1. Init => ImportInv
  BY InitImport
<1>2. ImportInv /\ [Next]_vars => ImportInv'
  BY ImportStep
<1>3. QED
  BY <1>1, <1>2, PTL DEF Spec

\* Every file in the temp directory and every .part in the library has an
\* upload, a stage or a confirm it belongs to.
THEOREM NoLeak == Spec => []NothingLeaks
<1>1. ImportInv => NothingLeaks
  BY DEF ImportInv, TempOK, Keeps, PartsOK, Writing, NothingLeaks, Uploading
<1>2. QED
  BY <1>1, ImportAlways, PTL

\* A stage reaches the library once at most.
THEOREM CopiedOnce == Spec => []OneCopy
<1>1. ImportInv => OneCopy
  BY DEF ImportInv, StageOK, OneCopy
<1>2. QED
  BY <1>1, ImportAlways, PTL

\* All confirms of a stage answer one book.
THEOREM OneAnswer == Spec => []SameAnswer
<1>1. ASSUME ImportInv, NEW i \in Ids PROVE Cardinality(answers[i]) <= 1
  <2>1. answers[i] \subseteq {stages[i].book}
    BY <1>1 DEF ImportInv, StageOK
  <2>2. answers[i] = {} \/ answers[i] = {stages[i].book}
    BY <2>1
  <2>3. CASE answers[i] = {}
    BY <2>3, FS_EmptySet
  <2>4. CASE answers[i] = {stages[i].book}
    <3>1. Cardinality(answers[i]) = 1
      BY <2>4, FS_Singleton
    <3>2. QED
      BY <3>1
  <2>5. QED
    BY <2>2, <2>3, <2>4
<1>2. ImportInv => SameAnswer
  BY <1>1 DEF SameAnswer
<1>3. QED
  BY <1>2, ImportAlways, PTL

-----------------------------------------------------------------------------
(***************************************************************************)
(* The budget.  A byte of it is a pair of an upload and a number, so that  *)
(* what is charged is a set and what staged counts is its size.  An upload *)
(* whose record is not in the registry yet, or no longer, retains nothing: *)
(* that is why what a removal and taken give back was charged.             *)
(***************************************************************************)
Within == {e \in Charged : e[2] <= MaxSize}

BudgetInv ==
  /\ IsFiniteSet(Charged) /\ staged = Cardinality(Charged)
  /\ Cardinality(Within) <= MaxSize * Factor
  /\ \A i \in Ids : stages[i].pc \in {"new", "copy", "verdict", "gone"} => stages[i].reserved = 0

\* The bytes of one upload.
LEMMA BytesOfOne ==
  ASSUME NEW i, NEW n \in Nat
  PROVE  IsFiniteSet({i} \X (1 .. n)) /\ Cardinality({i} \X (1 .. n)) = n
<1>1. IsFiniteSet({i}) /\ Cardinality({i}) = 1
  BY FS_Singleton
<1>2. IsFiniteSet(1 .. n) /\ Cardinality(1 .. n) = n
  BY FS_Interval
<1> DEFINE S == {i}
           T == 1 .. n
<1> HIDE DEF S, T
<1>3. IsFiniteSet(S \X T) /\ Cardinality(S \X T) = Cardinality(S) * Cardinality(T)
  BY <1>1, <1>2, FS_Product DEF S, T
<1>4. Cardinality(S) * Cardinality(T) = n
  BY <1>1, <1>2 DEF S, T
<1>5. QED
  BY <1>3, <1>4 DEF S, T

LEMMA ChargeIsNat == ASSUME ImportInv, NEW i \in Ids PROVE Charge(i) \in Nat
BY SizeAssumption, StageShape DEF ImportInv, ShapeOK, Charge

\* A finite set that loses a part of itself and gains what it did not have.
LEMMA PartReplaced ==
  ASSUME NEW S, IsFiniteSet(S), NEW A \in SUBSET S, NEW B, IsFiniteSet(B), B \cap (S \ A) = {}
  PROVE  /\ IsFiniteSet((S \ A) \cup B)
         /\ Cardinality((S \ A) \cup B) = Cardinality(S) - Cardinality(A) + Cardinality(B)
<1>1. IsFiniteSet(S \ A) /\ Cardinality(S \ A) = Cardinality(S) - Cardinality(S \cap A)
  BY FS_Difference
<1>2. S \cap A = A /\ (S \ A) \cap B = {}
  OBVIOUS
<1>3. Cardinality((S \ A) \cap B) = 0
  BY <1>2, FS_EmptySet
<1>4. /\ IsFiniteSet((S \ A) \cup B)
      /\ Cardinality((S \ A) \cup B) = Cardinality(S \ A) + Cardinality(B) - Cardinality((S \ A) \cap B)
  BY <1>1, FS_Union
<1>5. Cardinality(S) \in Nat /\ Cardinality(A) \in Nat /\ Cardinality(B) \in Nat
  BY FS_CardinalityType, FS_Subset
<1>6. Cardinality(S \ A) = Cardinality(S) - Cardinality(A)
  BY <1>1, <1>2
<1>7. QED
  BY <1>3, <1>4, <1>5, <1>6

\* One upload is charged otherwise.
LEMMA ChargeBecomes ==
  ASSUME IsFiniteSet(Charged), NEW i \in Ids, Charge(i) \in Nat, Charge(i)' \in Nat,
         \A j \in Ids \ {i} : Charge(j)' = Charge(j)
  PROVE  /\ IsFiniteSet(Charged')
         /\ Cardinality(Charged') = Cardinality(Charged) - Charge(i) + Charge(i)'
<1> DEFINE A == {i} \X (1 .. Charge(i))
           B == {i} \X (1 .. Charge(i)')
<1>1. Charged' = (Charged \ A) \cup B
  BY DEF Charged
<1>2. A \in SUBSET Charged /\ B \cap (Charged \ A) = {}
  BY DEF Charged
<1>3. /\ IsFiniteSet(A) /\ Cardinality(A) = Charge(i)
      /\ IsFiniteSet(B) /\ Cardinality(B) = Charge(i)'
  BY BytesOfOne
<1> HIDE DEF A, B
<1>4. QED
  BY <1>1, <1>2, <1>3, PartReplaced

\* Nothing up to the cap is charged that was not.
LEMMA WithinShrinks ==
  ASSUME IsFiniteSet(Charged), Cardinality(Within) <= MaxSize * Factor,
         \A i \in Ids : Charge(i) \in Nat /\ Charge(i)' \in Nat,
         \A i \in Ids : Charge(i)' <= Charge(i) \/ MaxSize <= Charge(i)
  PROVE  Cardinality(Within') <= MaxSize * Factor
<1>1. Within' \subseteq Within
  BY SizeAssumption DEF Within, Charged
<1>2. IsFiniteSet(Within)
  BY FS_Subset DEF Within
<1>3. Cardinality(Within') <= Cardinality(Within) /\ IsFiniteSet(Within')
  BY <1>1, <1>2, FS_Subset
<1>4. Cardinality(Within') \in Nat /\ Cardinality(Within) \in Nat
  BY <1>2, <1>3, FS_CardinalityType
<1>5. MaxSize * Factor \in Nat
  BY SizeAssumption
<1>6. QED
  BY <1>3, <1>4, <1>5

\* Stage i gets the record s, and staged what that changes.
LEMMA BudgetBecomes ==
  ASSUME ImportInv, ImportInv', BudgetInv, NEW i \in Ids, NEW s, stages' = [stages EXCEPT ![i] = s],
         s.pc \in {"new", "copy", "verdict", "gone"} => s.reserved = 0,
         staged' = staged - Charge(i) + Charge(i)',
         Charge(i)' <= Charge(i) \/ MaxSize <= Charge(i) \/ staged' <= MaxSize * Factor
  PROVE  BudgetInv'
<1>1. stages'[i] = s /\ \A j \in Ids \ {i} : stages'[j] = stages[j]
  BY DEF ImportInv, ShapeOK
<1>2. \A j \in Ids : Charge(j) \in Nat /\ Charge(j)' \in Nat
  <2>1. \A j \in Ids : Charge(j)' \in Nat
    BY SizeAssumption, StageShape DEF ImportInv, ShapeOK, Charge
  <2>2. QED
    BY <2>1, ChargeIsNat
<1>3. \A j \in Ids \ {i} : Charge(j)' = Charge(j)
  BY <1>1 DEF Charge
<1>4. IsFiniteSet(Charged') /\ staged' = Cardinality(Charged')
  BY <1>2, <1>3, ChargeBecomes DEF BudgetInv
<1>5. Cardinality(Within') <= MaxSize * Factor
  <2>1. CASE staged' <= MaxSize * Factor
    <3>1. Within' \subseteq Charged'
      BY DEF Within
    <3>2. /\ IsFiniteSet(Within') /\ Cardinality(Within') <= Cardinality(Charged')
      BY <1>4, <3>1, FS_Subset
    <3>3. Cardinality(Within') \in Nat /\ Cardinality(Charged') \in Nat /\ MaxSize * Factor \in Nat
      BY <1>4, <3>2, FS_CardinalityType, SizeAssumption
    <3>4. QED
      BY <1>4, <2>1, <3>2, <3>3
  <2>2. CASE Charge(i)' <= Charge(i) \/ MaxSize <= Charge(i)
    <3>1. \A j \in Ids : Charge(j)' <= Charge(j) \/ MaxSize <= Charge(j)
      BY <1>2, <1>3, <2>2
    <3>2. QED
      BY <1>2, <3>1, WithinShrinks DEF BudgetInv
  <2>3. QED
    BY <2>1, <2>2
<1>6. QED
  BY <1>1, <1>4, <1>5 DEF BudgetInv

\* Stages in the registry leave it.
LEMMA BudgetRemoves ==
  ASSUME ImportInv, ImportInv', BudgetInv, NEW ids \in SUBSET Ids,
         \A i \in ids : stages[i].pc = "live", Remove(ids)
  PROVE  BudgetInv'
<1>1. stages' = Removed(ids) /\ staged' = staged - Cardinality(Retained(ids))
  BY DEF Remove
<1>2. \A i \in ids : stages[i] \in Begun
  BY StageShape DEF ImportInv, ShapeOK
<1>3. /\ \A i \in ids : stages'[i].pc = "gone" /\ stages'[i].reserved = 0
      /\ \A i \in Ids \ ids : stages'[i] = stages[i]
  BY <1>1, <1>2 DEF Removed, Begun
<1>4. /\ \A i \in ids : Charge(i) = stages[i].reserved /\ Charge(i)' = 0
      /\ \A i \in Ids \ ids : Charge(i)' = Charge(i)
  BY <1>3 DEF Charge, Uploading
<1>5. \A i \in Ids : Charge(i) \in Nat /\ Charge(i)' \in Nat
  BY <1>4, ChargeIsNat
<1>6. Retained(ids) \in SUBSET Charged
  BY <1>4 DEF Retained, Charged
<1>7. Charged' = (Charged \ Retained(ids)) \cup {}
  BY <1>4 DEF Retained, Charged
<1>8. IsFiniteSet({}) /\ Cardinality({}) = 0
  BY FS_EmptySet
<1>9. /\ IsFiniteSet(Charged')
      /\ Cardinality(Charged') = Cardinality(Charged) - Cardinality(Retained(ids)) + Cardinality({})
  BY <1>6, <1>7, <1>8, PartReplaced DEF BudgetInv
<1>10. Cardinality(Charged') = Cardinality(Charged) - Cardinality(Retained(ids))
  <2>1. Cardinality(Charged) \in Nat /\ Cardinality(Retained(ids)) \in Nat
    BY <1>6, FS_Subset, FS_CardinalityType DEF BudgetInv
  <2>2. QED
    BY <1>8, <1>9, <2>1
<1>11. Cardinality(Within') <= MaxSize * Factor
  BY <1>4, <1>5, WithinShrinks DEF BudgetInv
<1>12. QED
  BY <1>1, <1>3, <1>9, <1>10, <1>11 DEF BudgetInv

\* Nothing staged moves.
LEMMA BudgetStays ==
  ASSUME BudgetInv, UNCHANGED <<stages, staged>>
  PROVE  BudgetInv'
BY DEF BudgetInv, Charged, Charge, Within

LEMMA BudgetUploads ==
  ASSUME ImportInv, ImportInv', BudgetInv, NEW i \in Ids, Reserve(i) \/ Staging(i) \/ Expire(i)
  PROVE  BudgetInv'
<1>a. /\ stages \in [Ids -> Stages] /\ staged \in Nat
      /\ stages[i].pc # "new" => stages[i] \in Begun
      /\ stages[i].reserved \in Nat
  BY StageShape, FS_CardinalityType DEF ImportInv, ShapeOK, BudgetInv
<1>1. CASE Reserve(i)
  <2>1. PICK c \in Contents, z \in Sizes, e \in Extras :
          stages' = [stages EXCEPT ![i] =
            [pc |-> "copy", reserved |-> 0, done |-> FALSE, book |-> 0, expired |-> FALSE,
             content |-> c, size |-> z, extra |-> e]]
    BY <1>1 DEF Reserve
  <2> DEFINE s == [pc |-> "copy", reserved |-> 0, done |-> FALSE, book |-> 0, expired |-> FALSE,
                   content |-> c, size |-> z, extra |-> e]
  <2>2. s.pc = "copy" /\ s.reserved = 0 /\ stages' = [stages EXCEPT ![i] = s]
    BY <2>1
  <2> HIDE DEF s
  <2>3. Charge(i) = 0 /\ Charge(i)' = MaxSize
    BY <1>1, <1>a, <2>2 DEF Reserve, Charge, Uploading
  <2>4. staged' = staged - Charge(i) + Charge(i)' /\ staged' <= MaxSize * Factor
    BY <1>1, <1>a, <2>3, SizeAssumption DEF Reserve
  <2>5. QED
    BY <2>2, <2>4, BudgetBecomes
<1>2. CASE CopyIn(i)
  <2> DEFINE s == [stages[i] EXCEPT !.pc = "verdict"]
  <2>1. stages' = [stages EXCEPT ![i] = s] /\ stages[i].pc = "copy" /\ staged' = staged
    BY <1>2 DEF CopyIn
  <2>2. s.pc = "verdict" /\ s.reserved = 0
    BY <1>a, <2>1 DEF Begun, BudgetInv
  <2> HIDE DEF s
  <2>3. Charge(i) = MaxSize /\ Charge(i)' = MaxSize
    BY <1>a, <2>1, <2>2 DEF Charge, Uploading
  <2>4. /\ staged' = staged - Charge(i) + Charge(i)'
        /\ Charge(i)' <= Charge(i) \/ MaxSize <= Charge(i)
    BY <1>a, <2>1, <2>3, SizeAssumption
  <2>5. QED
    BY <2>1, <2>2, <2>4, BudgetBecomes
<1>3. CASE StageFails(i)
  <2> DEFINE s == [stages[i] EXCEPT !.pc = "gone"]
  <2>1. /\ stages' = [stages EXCEPT ![i] = s] /\ stages[i].pc \in {"copy", "verdict"}
        /\ staged' = staged - MaxSize
    BY <1>3 DEF StageFails
  <2>2. s.pc = "gone" /\ s.reserved = 0
    BY <1>a, <2>1 DEF Begun, BudgetInv
  <2> HIDE DEF s
  <2>3. Charge(i) = MaxSize /\ Charge(i)' = 0
    BY <1>a, <2>1, <2>2 DEF Charge, Uploading
  <2>4. /\ staged' = staged - Charge(i) + Charge(i)'
        /\ Charge(i)' <= Charge(i) \/ MaxSize <= Charge(i)
    BY <1>a, <2>1, <2>3, SizeAssumption
  <2>5. QED
    BY <2>1, <2>2, <2>4, BudgetBecomes
<1>4. CASE DecideVerdict(i)
  <2> DEFINE known == book[stages[i].content]
             s == [stages[i] EXCEPT !.pc = "register", !.done = known # 0, !.book = known,
                     !.reserved = stages[i].extra + IF known = 0 THEN stages[i].size ELSE 0]
  <2>1. stages' = [stages EXCEPT ![i] = s] /\ stages[i].pc = "verdict" /\ staged' = staged
    BY <1>4, <1>a DEF DecideVerdict
  <2>2. s.pc = "register"
    BY <1>a, <2>1 DEF Begun
  <2> HIDE DEF s
  <2>3. Charge(i) = MaxSize /\ Charge(i)' = MaxSize
    BY <1>a, <2>1, <2>2 DEF Charge, Uploading
  <2>4. /\ staged' = staged - Charge(i) + Charge(i)'
        /\ Charge(i)' <= Charge(i) \/ MaxSize <= Charge(i)
    BY <1>a, <2>1, <2>3, SizeAssumption
  <2>5. QED
    BY <2>1, <2>2, <2>4, BudgetBecomes
<1>5. CASE Register(i)
  <2> DEFINE s == [stages[i] EXCEPT !.pc = "live"]
  <2>1. /\ stages' = [stages EXCEPT ![i] = s] /\ stages[i].pc = "register"
        /\ staged' = staged - (MaxSize - stages[i].reserved)
    BY <1>5 DEF Register
  <2>2. s.pc = "live" /\ s.reserved = stages[i].reserved
    BY <1>a, <2>1 DEF Begun
  <2> HIDE DEF s
  <2>3. Charge(i) = MaxSize /\ Charge(i)' = stages[i].reserved
    BY <1>a, <2>1, <2>2 DEF Charge, Uploading
  <2>4. /\ staged' = staged - Charge(i) + Charge(i)'
        /\ Charge(i)' <= Charge(i) \/ MaxSize <= Charge(i)
    BY <1>a, <2>1, <2>3, SizeAssumption
  <2>5. QED
    BY <2>1, <2>2, <2>4, BudgetBecomes
<1>6. CASE Expire(i)
  <2> DEFINE s == [stages[i] EXCEPT !.expired = TRUE]
  <2>1. /\ stages' = [stages EXCEPT ![i] = s] /\ stages[i].pc \in {"register", "live"}
        /\ staged' = staged
    BY <1>6 DEF Expire
  <2>2. s.pc = stages[i].pc /\ s.reserved = stages[i].reserved
    BY <1>a, <2>1 DEF Begun
  <2> HIDE DEF s
  <2>3. Charge(i)' = Charge(i)
    BY <1>a, <2>1, <2>2 DEF Charge
  <2>4. /\ staged' = staged - Charge(i) + Charge(i)'
        /\ Charge(i)' <= Charge(i) \/ MaxSize <= Charge(i)
    BY <1>a, <2>1, <2>3, ChargeIsNat
  <2>5. QED
    BY <2>1, <2>2, <2>4, BudgetBecomes
<1>7. QED
  BY <1>1, <1>2, <1>3, <1>4, <1>5, <1>6 DEF Staging

LEMMA BudgetConfirms ==
  ASSUME ImportInv, ImportInv', BudgetInv, NEW k \in Clicks, Confirm(k)
  PROVE  BudgetInv'
<1>1. CASE UNCHANGED <<stages, staged>>
  BY <1>1, BudgetStays
<1>2. CASE Take(k) \/ Index(k)
  <2>0. clicks[k].id \in Ids
    BY <1>2, ClickShape DEF ImportInv, ShapeOK, Take, Index
  <2> PICK i \in Ids : i = clicks[k].id
    BY <2>0
  <2>1. /\ stages[i].pc \in Landed /\ stages \in [Ids -> Stages]
        /\ staged \in Nat
    BY <1>2, ClickShape, FS_CardinalityType
    DEF ImportInv, ShapeOK, ClickOK, Take, Index, BudgetInv
  <2>2. stages[i] \in Begun /\ stages[i].reserved \in Nat
    BY <2>1, StageShape DEF Landed
  <2>3. CASE Take(k)
    <3> DEFINE s == [stages[i] EXCEPT !.reserved = 0, !.done = TRUE]
    <3>1. /\ stages' = [stages EXCEPT ![i] = s] /\ staged' = staged - stages[i].reserved
      BY <2>1, <2>3 DEF Take, Taken
    <3>2. s.pc = stages[i].pc /\ s.reserved = 0
      BY <2>2 DEF Begun
    <3> HIDE DEF s
    <3>3. Charge(i) = stages[i].reserved /\ Charge(i)' = 0
      BY <2>1, <3>1, <3>2 DEF Charge, Uploading, Landed, BudgetInv
    <3>4. staged' = staged - Charge(i) + Charge(i)' /\ Charge(i)' <= Charge(i)
      BY <2>1, <2>2, <3>1, <3>3
    <3>5. QED
      BY <2>1, <3>1, <3>2, <3>4, BudgetBecomes
  <2>4. CASE Index(k)
    <3> DEFINE s == [stages[i] EXCEPT !.book = book'[lib[clicks[k].n]]]
    <3>1. stages' = [stages EXCEPT ![i] = s] /\ staged' = staged
      BY <2>4 DEF Index
    <3>2. s.pc = stages[i].pc /\ s.reserved = stages[i].reserved
      BY <2>2 DEF Begun
    <3> HIDE DEF s
    <3>3. Charge(i)' = Charge(i) /\ Charge(i) \in Nat
      BY <2>1, <3>1, <3>2, ChargeIsNat DEF Charge
    <3>4. s.pc \in {"new", "copy", "verdict", "gone"} => s.reserved = 0
      BY <2>1, <3>2 DEF BudgetInv
    <3>5. staged' = staged - Charge(i) + Charge(i)' /\ Charge(i)' <= Charge(i)
      BY <2>1, <3>1, <3>3
    <3>6. QED
      BY <2>1, <3>1, <3>4, <3>5, BudgetBecomes
  <2>5. QED
    BY <1>2, <2>3, <2>4
<1>3. QED
  BY <1>1, <1>2 DEF Confirm, Lock, AnswerAgain, Open, ClaimPart, CopyPart, Link, LinkFails,
     LstatName, Rename, IndexFails, OnlyClick

LEMMA BudgetRestarts ==
  ASSUME ImportInv, BudgetInv, Restart
  PROVE  BudgetInv'
<1> DEFINE ids == {i \in Ids : stages[i].pc # "new"}
<1>1. stages' = Removed(ids) /\ staged' = 0 /\ stages \in [Ids -> Stages]
  BY DEF Restart, ImportInv, ShapeOK
<1>2. \A i \in ids : stages[i] \in Begun
  BY <1>1, StageShape
<1>3. /\ \A i \in ids : stages'[i].pc = "gone" /\ stages'[i].reserved = 0
      /\ \A i \in Ids \ ids : stages'[i] = stages[i] /\ stages[i].pc = "new"
  BY <1>1, <1>2 DEF Removed, Begun
<1>4. \A i \in Ids : Charge(i)' = 0
  BY <1>3 DEF Charge, Uploading
<1>5. Charged' = {} /\ Within' = {}
  BY <1>4 DEF Charged, Within
<1>6. MaxSize * Factor \in Nat
  BY SizeAssumption
<1>7. QED
  BY <1>1, <1>3, <1>5, <1>6, FS_EmptySet DEF BudgetInv

LEMMA BudgetStep == ImportInv /\ ImportInv' /\ BudgetInv /\ [Next]_vars => BudgetInv'
<1> SUFFICES ASSUME ImportInv, ImportInv', BudgetInv, [Next]_vars PROVE BudgetInv'
  OBVIOUS
<1>1. CASE UNCHANGED <<stages, staged>>
  BY <1>1, BudgetStays
<1>2. CASE Janitor
  BY <1>2, BudgetRemoves DEF Janitor, Expired
<1>3. ASSUME NEW i \in Ids, Reserve(i) \/ Staging(i) \/ Expire(i) \/ Discard(i) PROVE BudgetInv'
  BY <1>3, BudgetUploads, BudgetRemoves DEF Discard
<1>4. ASSUME NEW k \in Clicks, Confirm(k) PROVE BudgetInv'
  BY <1>4, BudgetConfirms
<1>5. ASSUME NEW k \in Clicks, NEW i \in Ids, Press(k, i) PROVE BudgetInv'
  BY <1>5, BudgetRemoves, BudgetStays DEF Press, OnlyClick
<1>6. CASE Restart
  BY <1>6, BudgetRestarts
<1>7. CASE \/ \E n \in Names : TakeFile(n) \/ SweepIndexes(n) \/ \E c \in Contents : PutFile(n, c)
           \/ \E c \in Contents : SweepPrunes(c)
  BY <1>1, <1>7 DEF TakeFile, SweepIndexes, PutFile, SweepPrunes
<1>8. QED
  BY <1>1, <1>2, <1>3, <1>4, <1>5, <1>6, <1>7 DEF Next, vars

LEMMA BudgetAlways == Spec => [](ImportInv /\ BudgetInv)
<1>1. Init => BudgetInv
  <2> SUFFICES ASSUME Init PROVE BudgetInv
    OBVIOUS
  <2>1. \A i \in Ids : stages[i].pc = "new" /\ stages[i].reserved = 0
    BY DEF Init, NoStage
  <2>2. \A i \in Ids : Charge(i) = 0
    BY <2>1 DEF Charge, Uploading
  <2>3. Charged = {} /\ Within = {}
    BY <2>2 DEF Charged, Within
  <2>4. MaxSize * Factor \in Nat
    BY SizeAssumption
  <2>5. QED
    BY <2>1, <2>3, <2>4, FS_EmptySet DEF Init, BudgetInv
<1>2. QED
  BY <1>1, BudgetStep, ImportAlways, PTL DEF Spec

\* staged counts every byte held, and no other.
THEOREM BudgetExact == Spec => []BudgetIsExact
<1>1. BudgetInv => BudgetIsExact
  BY DEF BudgetInv, BudgetIsExact
<1>2. QED
  BY <1>1, BudgetAlways, PTL

\* Beyond the budget there is only what covers and metadata add to stages of
\* nearly the cap.
THEOREM BudgetButExtras == Spec => []OnlyExtrasExceed
<1>1. BudgetInv => OnlyExtrasExceed
  BY DEF BudgetInv, Within, OnlyExtrasExceed
<1>2. QED
  BY <1>1, BudgetAlways, PTL

\* The bound on what the outside does is kept.
Counted == events \in 0 .. MaxEvents

LEMMA EventsCounted == Counted /\ [Next]_vars => Counted'
<1> SUFFICES ASSUME Counted, [Next]_vars PROVE Counted'
  OBVIOUS
<1>1. events' = events \/ Event
  BY DEF Next, vars, history, Remove, Reserve, Staging, CopyIn, StageFails, DecideVerdict,
     Register, Expire, Discard, Janitor, Press, Confirm, Lock, AnswerAgain, Open, ClaimPart,
     CopyPart, Link, LinkFails, LstatName, Rename, Take, Index, IndexFails, Restart, TakeFile,
     PutFile, SweepIndexes, SweepPrunes
<1>2. QED
  BY <1>1, NameAssumption DEF Event, Counted

\* Every variable keeps its shape; that staged never falls below zero is
\* what the budget's exactness says.
THEOREM TypeCorrect == Spec => []TypeOK
<1>1. ImportInv /\ BudgetInv /\ Counted => TypeOK
  BY FS_CardinalityType DEF ImportInv, ShapeOK, BudgetInv, Counted, TypeOK
<1>2. Init => Counted
  BY NameAssumption DEF Init, Counted
<1>3. QED
  BY <1>1, <1>2, EventsCounted, BudgetAlways, PTL DEF Spec

-----------------------------------------------------------------------------
\* The steps that change a file of the library.
LEMMA ReplacingStep ==
  ASSUME ImportInv, [Next]_vars, NEW n \in Names,
         lib[n] # NoFile, lib'[n] \notin {lib[n], NoFile}
  PROVE  \E k \in Clicks : clicks[k].pc = "rename" /\ clicks[k].n = n
<1>1. /\ lib' # lib /\ lib \in [Names -> Contents \cup {NoFile}]
  BY DEF ImportInv, ShapeOK
<1>2. \/ \E k \in Clicks : Link(k) \/ Rename(k)
      \/ \E m \in Names : TakeFile(m) \/ \E c \in Contents : PutFile(m, c)
  BY <1>1 DEF Next, vars, library, OnlyClick, Remove, Reserve, Staging, CopyIn, StageFails,
     DecideVerdict, Register, Expire, Discard, Janitor, Press, Confirm, Lock, AnswerAgain, Open,
     ClaimPart, CopyPart, LinkFails, LstatName, NextName, Take, Index, IndexFails, Restart,
     SweepIndexes, SweepPrunes
<1>3. ASSUME NEW k \in Clicks, Link(k) PROVE FALSE
  <2>1. lib[clicks[k].n] = NoFile /\ Publish(k, clicks[k].n)
    BY <1>1, <1>3 DEF Link, NextName
  <2>2. QED
    BY <1>1, <2>1 DEF Publish
<1>4. ASSUME NEW k \in Clicks, Rename(k)
      PROVE  clicks[k].pc = "rename" /\ clicks[k].n = n
  BY <1>1, <1>4 DEF Rename, Publish
<1>5. ASSUME NEW m \in Names, TakeFile(m) \/ \E c \in Contents : PutFile(m, c) PROVE FALSE
  BY <1>1, <1>5 DEF TakeFile, PutFile
<1>6. QED
  BY <1>2, <1>3, <1>4, <1>5

\* Publishing takes no name over, but by a rename after its os.Lstat.
THEOREM NoneReplaced == Spec => NothingReplaced
<1>1. ImportInv /\ [Next]_vars =>
        [\A n \in Names : lib[n] # NoFile /\ lib'[n] \notin {lib[n], NoFile} =>
           \E k \in Clicks : clicks[k].pc = "rename" /\ clicks[k].n = n]_vars
  BY ReplacingStep
<1>2. QED
  BY <1>1, ImportAlways, PTL DEF Spec, NothingReplaced
=============================================================================
