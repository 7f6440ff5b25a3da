---------------------------- MODULE RoundsProofs ----------------------------
(***************************************************************************)
(* Proofs about Rounds, for every set of documents, every cadence and      *)
(* every number of rounds, and for every window that a search fits in.     *)
(***************************************************************************)
EXTENDS Rounds, SequenceTheorems, FiniteSetTheorems, TLAPS

-----------------------------------------------------------------------------
(* The inductive invariant. *)

\* The clock is ahead of every time that was observed.
Times ==
  /\ clock >= 1
  /\ \A d \in Docs : edited[d] <= clock
  /\ \A d \in visible : edited[d] >= 1
  /\ \A i \in 1..Len(runs) : runs[i].checkpoint <= clock

\* Among the dated runs there is a newest one.
NewestDated == Dated = {} \/ \E i \in Dated : \A j \in Dated : i <= j

\* What a round knows of a document its search has passed.
Passed(d) ==
  \/ listing[d] # 0 /\ (listing[d] = edited[d] \/ edited[d] >= started)
  \/ /\ listing[d] = 0
     /\ d \in visible =>
          \/ edited[d] >= started \/ d \in late
          \/ plan.mode = "incremental" /\ (d \in failed \/ row[d] = edited[d])

Covered(d) == d \in Behind => edited[d] >= started \/ d \in failed \cup late

InRound ==
  /\ pc # "idle" => plan.prev = Checkpoint
  /\ pc \in {"search", "walk", "done", "aborted"} =>
       started <= clock /\ Checkpoint <= started
  /\ pc = "search" =>
       clock <= started + SearchTime /\ \A d \in unread : listing[d] = 0
  /\ pc \in {"search", "walk"} =>
       /\ \A d \in Docs : listing[d] <= clock /\ listing[d] <= started + SearchTime
       /\ \A d \in Docs \ unread : Passed(d)
  /\ pc \in {"idle", "decided"} => \A d \in Docs : listing[d] = 0
  /\ pc = "walk" =>
       /\ unread = {} /\ todo \subseteq Listed
       /\ \A d \in Listed \ todo : row[d] = listing[d] \/ d \in failed
  /\ pc \in {"walk", "done"} => mark <= clock /\ mark <= started + SearchTime
  /\ pc = "done" => \A d \in Docs : Covered(d)
  /\ pc = "aborted" => mark = Checkpoint

Safe(d) == d \in Behind => edited[d] + Window >= Checkpoint \/ d \in failed \cup late

Inv == TypeOK /\ Times /\ NewestDated /\ InRound /\ \A d \in Docs : Safe(d)

-----------------------------------------------------------------------------
(* Type correctness. *)

LEMMA RunsGrow ==
  ASSUME TypeOK, NEW r \in Run, runs' = <<r>> \o runs
  PROVE  /\ runs' \in Seq(Run)
         /\ Len(runs) \in Nat /\ Len(runs') = Len(runs) + 1
         /\ runs'[1] = r
         /\ \A i \in 1..Len(runs) : runs'[i + 1] = runs[i] /\ runs[i] \in Run
<1>1. <<r>> \in Seq(Run) /\ runs \in Seq(Run) /\ Len(<<r>>) = 1 /\ <<r>>[1] = r
  BY DEF TypeOK
<1>2. Len(runs) \in Nat /\ \A i \in 1..Len(runs) : runs[i] \in Run
  BY <1>1, ElementOfSeq, LenProperties
<1>3. /\ runs' \in Seq(Run) /\ Len(runs') = 1 + Len(runs)
      /\ \A i \in 1..(1 + Len(runs)) : runs'[i] = IF i <= 1 THEN <<r>>[i] ELSE runs[i - 1]
  BY <1>1, ConcatProperties
<1>4. \A i \in 1..Len(runs) : runs'[i + 1] = runs[i]
  BY <1>2, <1>3
<1>. QED
  BY <1>1, <1>2, <1>3, <1>4

LEMMA CheckpointIsNat ==
  ASSUME TypeOK, NewestDated
  PROVE  Checkpoint \in Nat
<1>1. \A i \in Dated : runs[i] \in Run
  BY ElementOfSeq DEF Dated, TypeOK
<1>2. Dated # {} => (CHOOSE i \in Dated : \A j \in Dated : i <= j) \in Dated
  BY DEF NewestDated
<1>. QED
  BY <1>1, <1>2 DEF Checkpoint, Run

LEMMA InitType == Init => TypeOK
<1>. SUFFICES ASSUME Init PROVE TypeOK
  OBVIOUS
<1>1. runs \in Seq(Run)
  BY EmptySeq DEF Init
<1>. QED
  BY <1>1 DEF Init, TypeOK, NoPlan, Plan, Mode

LEMMA RestType ==
  ASSUME TypeOK, Rest
  PROVE  /\ pc' \in {"idle", "decided", "search", "walk", "done", "aborted"}
         /\ plan' \in Plan /\ started' \in Nat /\ mark' \in Nat
         /\ unread' \subseteq Docs /\ todo' \subseteq Docs /\ listing' \in [Docs -> Nat]
  BY DEF Rest, NoPlan, Plan, Mode

LEMMA RemoteType ==
  ASSUME TypeOK, Tick \/ Remote
  PROVE  TypeOK'
<1>1. CASE Tick
  BY <1>1 DEF Tick, TypeOK, remote, round
<1>2. ASSUME NEW d \in Docs, Edit(d)
      PROVE TypeOK'
  BY <1>2 DEF Edit, TypeOK, remote, round
<1>3. ASSUME NEW d \in Docs, Share(d)
      PROVE TypeOK'
  <2>1. edited' \in [Docs -> Nat] /\ late' \subseteq Docs /\ visible' \subseteq Docs
    BY <1>3 DEF Share, TypeOK
  <2>. QED
    BY <1>3, <2>1 DEF Share, TypeOK, round
<1>4. ASSUME NEW d \in Docs, Unshare(d)
      PROVE TypeOK'
  BY <1>4 DEF Unshare, TypeOK, round
<1>. QED
  BY <1>1, <1>2, <1>3, <1>4 DEF Remote

LEMMA SearchType ==
  ASSUME TypeOK, NewestDated,
         Decide \/ StartPlatform \/ EndSearch \/ \E d \in Docs : Read(d)
  PROVE  TypeOK'
<1>1. CASE Decide
  <2>1. PICK full \in Forced : plan' = [mode |-> DecideMode(clock, full), prev |-> Checkpoint]
    BY <1>1 DEF Decide
  <2>2. DecideMode(clock, full) \in Mode
    BY DEF DecideMode, Mode
  <2>3. plan' \in Plan
    BY <2>1, <2>2, CheckpointIsNat DEF Plan
  <2>. QED
    BY <1>1, <2>3 DEF Decide, TypeOK, remote
<1>2. CASE StartPlatform
  BY <1>2 DEF StartPlatform, TypeOK, remote
<1>3. CASE EndSearch
  <2>1. EditTimes \subseteq Nat
    BY DEF EditTimes, TypeOK, Plan
  <2>2. mark' \in Nat
    BY <1>3, <2>1 DEF EndSearch, Greatest
  <2>. QED
    BY <1>3, <2>2 DEF EndSearch, TypeOK, remote, Listed
<1>4. ASSUME NEW d \in Docs, Read(d)
      PROVE TypeOK'
  <2>1. listing' \in [Docs -> Nat] /\ unread' \subseteq Docs
    BY <1>4 DEF Read, TypeOK
  <2>. QED
    BY <1>4, <2>1 DEF Read, TypeOK, remote
<1>. QED
  BY <1>1, <1>2, <1>3, <1>4

LEMMA WalkType ==
  ASSUME TypeOK, EndWalk \/ Abort \/ \E d \in Docs : Process(d) \/ Trash(d)
  PROVE  TypeOK'
<1>1. ASSUME NEW d \in Docs, Process(d)
      PROVE TypeOK'
  <2>1. row' \in [Docs -> Nat] /\ failed' \subseteq Docs /\ late' \subseteq Docs /\ todo' \subseteq Docs
    BY <1>1 DEF Process, TypeOK
  <2>. QED
    BY <1>1, <2>1 DEF Process, TypeOK, remote
<1>2. ASSUME NEW d \in Docs, Trash(d)
      PROVE TypeOK'
  BY <1>2 DEF Trash, TypeOK, remote, round
<1>3. CASE EndWalk
  BY <1>3 DEF EndWalk, Return, TypeOK, remote
<1>4. CASE Abort
  BY <1>4 DEF Abort, Return, TypeOK, remote, Plan
<1>. QED
  BY <1>1, <1>2, <1>3, <1>4

LEMMA RecordedRun ==
  ASSUME TypeOK
  PROVE  [started |-> started, mode |-> plan.mode, checkpoint |-> mark] \in Run
  BY DEF TypeOK, Plan, Run

LEMMA RecordType ==
  ASSUME TypeOK, Record \/ Crash
  PROVE  TypeOK'
<1>1. runs' \in Seq(Run)
  BY RecordedRun, RunsGrow DEF Record, Crash, TypeOK
<1>2. Rest /\ UNCHANGED <<clock, remote, row, failed, late>>
  BY DEF Record, Crash
<1>. QED
  BY <1>1, <1>2, RestType DEF TypeOK, remote

LEMMA StutterType ==
  ASSUME TypeOK, UNCHANGED vars
  PROVE  TypeOK'
  BY DEF TypeOK, vars, remote, round

LEMMA NextType ==
  ASSUME TypeOK, NewestDated, [Next]_vars
  PROVE  TypeOK'
  BY RemoteType, SearchType, WalkType, RecordType, StutterType DEF Next

-----------------------------------------------------------------------------
(* The checkpoint. *)

LEMMA SameRuns ==
  ASSUME UNCHANGED runs
  PROVE  Dated' = Dated /\ Checkpoint' = Checkpoint /\ NewestDated' = NewestDated
  BY DEF Dated, Checkpoint, NewestDated

LEMMA CheckpointBehindClock ==
  ASSUME TypeOK, Times, NewestDated
  PROVE  Checkpoint \in Nat /\ Checkpoint <= clock
<1>1. Dated # {} => (CHOOSE i \in Dated : \A j \in Dated : i <= j) \in Dated
  BY DEF NewestDated
<1>2. Dated \subseteq 1..Len(runs)
  BY DEF Dated
<1>3. Dated # {} => Checkpoint <= clock
  <2>. DEFINE newest == CHOOSE i \in Dated : \A j \in Dated : i <= j
  <2>1. Dated # {} => newest \in 1..Len(runs) /\ Checkpoint = runs[newest].checkpoint
    BY <1>1, <1>2 DEF Checkpoint
  <2>. HIDE DEF newest
  <2>. QED
    BY <2>1 DEF Times
<1>4. Dated = {} => Checkpoint = 0
  BY DEF Checkpoint
<1>. QED
  BY <1>3, <1>4, CheckpointIsNat DEF Times, TypeOK

LEMMA NewCheckpoint ==
  ASSUME TypeOK, NewestDated, NEW r \in Run, runs' = <<r>> \o runs
  PROVE  /\ NewestDated'
         /\ Checkpoint' = IF r.checkpoint # 0 THEN r.checkpoint ELSE Checkpoint
<1>1. /\ Len(runs) \in Nat /\ Len(runs') = Len(runs) + 1 /\ runs'[1] = r
      /\ \A i \in 1..Len(runs) : runs'[i + 1] = runs[i]
  BY RunsGrow
<1>2. \A i \in Dated : i \in Nat /\ i >= 1 /\ i + 1 \in Dated' /\ runs'[i + 1] = runs[i]
  BY <1>1 DEF Dated
<1>3. \A i \in Dated' : i \in Nat /\ (i = 1 \/ (i - 1 \in Dated /\ i - 1 + 1 = i))
  BY <1>1 DEF Dated
<1>4. 1 \in Dated' <=> r.checkpoint # 0
  BY <1>1 DEF Dated
<1>5. CASE r.checkpoint # 0
  <2>1. 1 \in Dated' /\ \A j \in Dated' : 1 <= j
    BY <1>3, <1>4, <1>5, <1>1 DEF Dated
  <2>2. \A i \in Dated' : (\A j \in Dated' : i <= j) => i = 1
    BY <2>1, <1>3
  <2>3. (CHOOSE i \in Dated' : \A j \in Dated' : i <= j) = 1
    BY <2>1, <2>2
  <2>4. NewestDated'
    BY <2>1 DEF NewestDated
  <2>5. Checkpoint' = runs'[1].checkpoint
    BY <2>1, <2>3 DEF Checkpoint
  <2>. QED
    BY <2>4, <2>5, <1>1, <1>5
<1>6. CASE r.checkpoint = 0 /\ Dated = {}
  <2>1. Dated' = {}
    BY <1>3, <1>4, <1>6
  <2>. QED
    BY <2>1, <1>6 DEF NewestDated, Checkpoint
<1>7. CASE r.checkpoint = 0 /\ Dated # {}
  <2>1. PICK i \in Dated : \A j \in Dated : i <= j
    BY <1>7 DEF NewestDated
  <2>2. \A k \in Dated : (\A j \in Dated : k <= j) => k = i
    BY <2>1, <1>2
  <2>3. (CHOOSE k \in Dated : \A j \in Dated : k <= j) = i
    BY <2>1, <2>2
  <2>4. i + 1 \in Dated' /\ \A j \in Dated' : i + 1 <= j
    <3>1. i \in Nat /\ i + 1 \in Dated'
      BY <1>2
    <3>2. ASSUME NEW j \in Dated'
          PROVE i + 1 <= j
      <4>1. j \in Nat /\ j - 1 \in Dated
        BY <1>3, <1>4, <1>7
      <4>2. i <= j - 1
        BY <4>1, <2>1
      <4>. QED
        BY <3>1, <4>1, <4>2
    <3>. QED
      BY <3>1, <3>2
  <2>5. \A k \in Dated' : (\A j \in Dated' : k <= j) => k = i + 1
    BY <2>4, <1>2, <1>3
  <2>6. (CHOOSE k \in Dated' : \A j \in Dated' : k <= j) = i + 1
    BY <2>4, <2>5
  <2>7. NewestDated'
    BY <2>4 DEF NewestDated
  <2>8. Checkpoint' = runs'[i + 1].checkpoint
    BY <2>4, <2>6 DEF Checkpoint
  <2>9. Checkpoint = runs[i].checkpoint
    BY <2>3, <1>7 DEF Checkpoint
  <2>. QED
    BY <2>7, <2>8, <2>9, <1>2, <1>7
<1>. QED
  BY <1>5, <1>6, <1>7

-----------------------------------------------------------------------------
(* The steps of the remote keep the invariant. *)

LEMMA InvFacts ==
  ASSUME Inv
  PROVE  /\ TypeOK /\ Times /\ NewestDated /\ InRound /\ \A d \in Docs : Safe(d)
         /\ Checkpoint \in Nat /\ Checkpoint <= clock
         /\ clock \in Nat /\ started \in Nat /\ mark \in Nat /\ plan.prev \in Nat
         /\ Window \in Nat /\ SearchTime \in Nat
         /\ \A d \in Docs : edited[d] \in Nat /\ row[d] \in Nat /\ listing[d] \in Nat
         /\ \A i \in 1..Len(runs) : runs[i].checkpoint \in Nat
<1>1. \A i \in 1..Len(runs) : runs[i] \in Run
  BY ElementOfSeq DEF Inv, TypeOK
<1>. QED
  BY <1>1, CheckpointBehindClock, RoundsAssumption DEF Inv, TypeOK, Plan, Run

LEMMA InvTick ==
  ASSUME Inv, Tick
  PROVE  Inv'
<1>. USE InvFacts
<1>1. Checkpoint' = Checkpoint /\ NewestDated' = NewestDated
  BY SameRuns DEF Tick
<1>2. TypeOK'
  BY RemoteType
<1>3. Times'
  BY DEF Tick, Times, remote
<1>4. \A d \in Docs : (Passed(d)' <=> Passed(d)) /\ (Covered(d)' <=> Covered(d))
  BY DEF Tick, remote, round, Passed, Covered, Behind
<1>5. Listed' = Listed
  BY DEF Tick, round, Listed
<1>6. InRound'
  BY <1>1, <1>4, <1>5 DEF Tick, InRound, round
<1>7. \A d \in Docs : Safe(d)'
  BY <1>1 DEF Tick, Safe, Behind, remote
<1>. QED
  BY <1>1, <1>2, <1>3, <1>6, <1>7 DEF Inv

LEMMA InvEdit ==
  ASSUME Inv, NEW d \in Docs, Edit(d)
  PROVE  Inv'
<1>. USE InvFacts
<1>1. Checkpoint' = Checkpoint /\ NewestDated' = NewestDated
  BY SameRuns DEF Edit
<1>2. TypeOK'
  BY RemoteType DEF Remote
<1>3. edited'[d] = clock /\ \A e \in Docs \ {d} : edited'[e] = edited[e]
  BY DEF Edit, TypeOK
<1>4. Times'
  BY <1>3 DEF Edit, Times, TypeOK
<1>5. \A e \in Docs : started <= clock =>
        (Passed(e) => Passed(e)') /\ (Covered(e) => Covered(e)')
  BY <1>3 DEF Edit, round, Passed, Covered, Behind
<1>6. InRound'
  BY <1>1, <1>5 DEF Edit, InRound, round, Listed
<1>7. \A e \in Docs : Safe(e)'
  BY <1>1, <1>3 DEF Edit, Safe, Behind
<1>. QED
  BY <1>1, <1>2, <1>4, <1>6, <1>7 DEF Inv

LEMMA InvShare ==
  ASSUME Inv, NEW d \in Docs, Share(d)
  PROVE  Inv'
<1>. USE InvFacts
<1>1. Checkpoint' = Checkpoint /\ NewestDated' = NewestDated
  BY SameRuns DEF Share
<1>2. TypeOK'
  BY RemoteType DEF Remote
<1>3. \A e \in Docs \ {d} : edited'[e] = edited[e] /\ (e \in visible' <=> e \in visible)
  BY DEF Share, TypeOK
<1>4. late \subseteq late' /\ (edited'[d] = clock \/ (d \in late' /\ edited'[d] = edited[d] /\ edited[d] # 0))
  BY DEF Share, TypeOK
<1>5. Times'
  <2>1. edited'[d] <= clock /\ edited'[d] >= 1
    BY <1>4 DEF Times
  <2>2. \A e \in Docs : edited'[e] <= clock /\ (e \in visible' => edited'[e] >= 1)
    BY <2>1, <1>3 DEF Times
  <2>3. visible' \subseteq Docs
    BY <1>2 DEF TypeOK
  <2>. QED
    BY <2>2, <2>3 DEF Share, Times
<1>6. \A e \in Docs : started <= clock =>
        (Passed(e) => Passed(e)') /\ (Covered(e) => Covered(e)')
  BY <1>3, <1>4 DEF Share, round, Passed, Covered, Behind
<1>7. InRound'
  BY <1>1, <1>6 DEF Share, InRound, round, Listed
<1>8. \A e \in Docs : Safe(e)'
  BY <1>1, <1>3, <1>4 DEF Share, Safe, Behind
<1>. QED
  BY <1>1, <1>2, <1>5, <1>7, <1>8 DEF Inv

LEMMA InvUnshare ==
  ASSUME Inv, NEW d \in Docs, Unshare(d)
  PROVE  Inv'
<1>. USE InvFacts
<1>1. Checkpoint' = Checkpoint /\ NewestDated' = NewestDated
  BY SameRuns DEF Unshare
<1>2. TypeOK'
  BY RemoteType DEF Remote
<1>3. Times'
  BY DEF Unshare, Times
<1>4. \A e \in Docs : (Passed(e) => Passed(e)') /\ (Covered(e) => Covered(e)')
  BY DEF Unshare, round, Passed, Covered, Behind
<1>5. InRound'
  BY <1>1, <1>4 DEF Unshare, InRound, round, Listed
<1>6. \A e \in Docs : Safe(e)'
  BY <1>1 DEF Unshare, Safe, Behind
<1>. QED
  BY <1>1, <1>2, <1>3, <1>5, <1>6 DEF Inv

-----------------------------------------------------------------------------
(* The steps of a round keep it. *)

LEMMA InvDecide ==
  ASSUME Inv, Decide
  PROVE  Inv'
<1>. USE InvFacts
<1>1. Checkpoint' = Checkpoint /\ NewestDated' = NewestDated
  BY SameRuns DEF Decide
<1>2. TypeOK'
  BY SearchType
<1>3. plan'.prev = Checkpoint
  BY DEF Decide
<1>4. Times'
  BY DEF Decide, Times, remote
<1>5. InRound'
  BY <1>1, <1>3 DEF Decide, InRound
<1>6. \A d \in Docs : Safe(d)'
  BY <1>1 DEF Decide, Safe, Behind, remote
<1>. QED
  BY <1>1, <1>2, <1>4, <1>5, <1>6 DEF Inv

LEMMA InvStartPlatform ==
  ASSUME Inv, StartPlatform
  PROVE  Inv'
<1>. USE InvFacts
<1>1. Checkpoint' = Checkpoint /\ NewestDated' = NewestDated
  BY SameRuns DEF StartPlatform
<1>2. TypeOK'
  BY SearchType
<1>3. Times'
  BY DEF StartPlatform, Times, remote
<1>4. InRound'
  BY <1>1 DEF StartPlatform, InRound
<1>5. \A d \in Docs : Safe(d)'
  BY <1>1 DEF StartPlatform, Safe, Behind, remote
<1>. QED
  BY <1>1, <1>2, <1>3, <1>4, <1>5 DEF Inv

LEMMA InvRead ==
  ASSUME Inv, NEW d \in Docs, Read(d)
  PROVE  Inv'
<1>. USE InvFacts
<1>1. Checkpoint' = Checkpoint /\ NewestDated' = NewestDated
  BY SameRuns DEF Read
<1>2. TypeOK'
  BY SearchType
<1>3. Times'
  BY DEF Read, Times, remote
<1>4. /\ pc = "search" /\ d \in unread /\ listing[d] = 0
      /\ plan.prev = Checkpoint /\ started <= clock
  BY DEF Read, InRound
<1>5. \A e \in Docs \ {d} : listing'[e] = listing[e]
  BY DEF Read, TypeOK
<1>6. listing'[d] <= clock /\ listing'[d] <= started + SearchTime /\ Passed(d)'
  <2>1. CASE d \in visible /\ listing' = [listing EXCEPT ![d] = edited[d]]
    <3>1. listing'[d] = edited[d] /\ edited[d] # 0 /\ edited[d] <= clock
      BY <2>1 DEF TypeOK, Times
    <3>. QED
      BY <3>1, <1>4 DEF Read, Passed, InRound, remote
  <2>2. CASE /\ listing' = listing
             /\ \/ d \notin visible
                \/ edited[d] >= started
                \/ plan.mode = "incremental" /\ edited[d] + Window < plan.prev
    BY <2>2, <1>4 DEF Read, Passed, Safe, Behind, remote
  <2>. QED
    BY <2>1, <2>2 DEF Read
<1>7. \A e \in Docs \ {d} : Passed(e) => Passed(e)'
  BY <1>5 DEF Read, Passed, remote
<1>8. InRound'
  <2>1. \A e \in Docs : listing'[e] <= clock /\ listing'[e] <= started + SearchTime
    BY <1>4, <1>5, <1>6 DEF InRound
  <2>2. \A e \in unread' : listing'[e] = 0
    BY <1>4, <1>5 DEF Read, InRound, TypeOK
  <2>3. \A e \in Docs \ unread' : Passed(e)'
    BY <1>4, <1>6, <1>7 DEF Read, InRound
  <2>. QED
    BY <1>1, <1>4, <2>1, <2>2, <2>3 DEF Read, InRound
<1>9. \A e \in Docs : Safe(e)'
  BY <1>1 DEF Read, Safe, Behind, remote
<1>. QED
  BY <1>1, <1>2, <1>3, <1>8, <1>9 DEF Inv

LEMMA InvEndSearch ==
  ASSUME Inv, EndSearch
  PROVE  Inv'
<1>. USE InvFacts
<1>1. Checkpoint' = Checkpoint /\ NewestDated' = NewestDated
  BY SameRuns DEF EndSearch
<1>2. TypeOK'
  BY SearchType
<1>3. Times'
  BY DEF EndSearch, Times, remote
<1>4. pc = "search" /\ unread = {} /\ plan.prev = Checkpoint /\ Checkpoint <= started
      /\ started <= clock /\ clock <= started + SearchTime
  BY DEF EndSearch, InRound
<1>5. \A t \in EditTimes : t <= clock /\ t <= started + SearchTime
  BY <1>4 DEF EditTimes, InRound
<1>6. mark' <= clock /\ mark' <= started + SearchTime
  BY <1>5 DEF EndSearch, Greatest
<1>7. \A d \in Docs : Passed(d) => Passed(d)'
  BY DEF EndSearch, Passed, remote
<1>8. InRound'
  BY <1>1, <1>4, <1>6, <1>7 DEF EndSearch, InRound, Listed
<1>9. \A d \in Docs : Safe(d)'
  BY <1>1 DEF EndSearch, Safe, Behind, remote
<1>. QED
  BY <1>1, <1>2, <1>3, <1>8, <1>9 DEF Inv

LEMMA InvProcess ==
  ASSUME Inv, NEW d \in Docs, Process(d)
  PROVE  Inv'
<1>. USE InvFacts
<1>1. Checkpoint' = Checkpoint /\ NewestDated' = NewestDated
  BY SameRuns DEF Process
<1>2. TypeOK'
  BY WalkType
<1>3. Times'
  BY DEF Process, Times, remote
<1>4. /\ pc = "walk" /\ d \in Docs \ unread /\ listing[d] # 0 /\ Passed(d)
      /\ Checkpoint <= started
  BY DEF Process, InRound, Listed
<1>5. (row'[d] = listing[d] /\ d \notin failed') \/ (d \in failed' /\ row' = row /\ late' = late)
  BY DEF Process, TypeOK
<1>6. \A e \in Docs \ {d} :
        /\ row'[e] = row[e] /\ (e \in failed' <=> e \in failed) /\ (e \in late' <=> e \in late)
  BY DEF Process, TypeOK
<1>7. \A e \in Docs : Passed(e) => Passed(e)'
  BY <1>4, <1>6 DEF Process, Passed, remote
<1>8. \A e \in Listed' \ todo' : row'[e] = listing'[e] \/ e \in failed'
  BY <1>4, <1>5, <1>6 DEF Process, InRound, Listed
<1>9. InRound'
  BY <1>1, <1>4, <1>7, <1>8 DEF Process, InRound, Listed
<1>10. \A e \in Docs : Safe(e)'
  BY <1>1, <1>4, <1>5, <1>6 DEF Process, Safe, Passed, Behind, remote
<1>. QED
  BY <1>1, <1>2, <1>3, <1>9, <1>10 DEF Inv

LEMMA InvTrash ==
  ASSUME Inv, NEW d \in Docs, Trash(d)
  PROVE  Inv'
<1>. USE InvFacts
<1>1. Checkpoint' = Checkpoint /\ NewestDated' = NewestDated
  BY SameRuns DEF Trash
<1>2. TypeOK'
  BY WalkType
<1>3. Times'
  BY DEF Trash, Times, remote
<1>4. /\ pc = "walk" /\ plan.mode = "full" /\ listing[d] = 0 /\ Passed(d)
      /\ Checkpoint <= started /\ d \notin Listed
  BY DEF Trash, InRound, Listed
<1>5. \A e \in Docs \ {d} : row'[e] = row[e]
  BY DEF Trash, TypeOK
<1>6. \A e \in Docs : Passed(e) => Passed(e)'
  BY <1>4, <1>5 DEF Trash, Passed, remote, round
<1>7. InRound'
  BY <1>1, <1>4, <1>5, <1>6 DEF Trash, InRound, Listed, round
<1>8. \A e \in Docs : Safe(e)'
  BY <1>1, <1>4, <1>5 DEF Trash, Safe, Passed, Behind, remote
<1>. QED
  BY <1>1, <1>2, <1>3, <1>7, <1>8 DEF Inv

LEMMA InvEndWalk ==
  ASSUME Inv, EndWalk
  PROVE  Inv'
<1>. USE InvFacts
<1>1. Checkpoint' = Checkpoint /\ NewestDated' = NewestDated
  BY SameRuns DEF EndWalk, Return
<1>2. TypeOK'
  BY WalkType
<1>3. Times'
  BY DEF EndWalk, Return, Times, remote
<1>4. pc = "walk" /\ unread = {} /\ todo = {}
  BY DEF EndWalk, InRound
<1>5. \A d \in Docs : Covered(d)
  BY <1>4 DEF InRound, Passed, Covered, Behind, Listed
<1>6. \A d \in Docs : Covered(d)'
  BY <1>5 DEF EndWalk, Return, Covered, Behind, remote
<1>7. InRound'
  BY <1>1, <1>4, <1>6 DEF EndWalk, Return, InRound
<1>8. \A d \in Docs : Safe(d)'
  BY <1>1 DEF EndWalk, Return, Safe, Behind, remote
<1>. QED
  BY <1>1, <1>2, <1>3, <1>7, <1>8 DEF Inv

LEMMA InvAbort ==
  ASSUME Inv, Abort
  PROVE  Inv'
<1>. USE InvFacts
<1>1. Checkpoint' = Checkpoint /\ NewestDated' = NewestDated
  BY SameRuns DEF Abort, Return
<1>2. TypeOK'
  BY WalkType
<1>3. Times'
  BY DEF Abort, Return, Times, remote
<1>4. InRound'
  BY <1>1 DEF Abort, Return, InRound
<1>5. \A d \in Docs : Safe(d)'
  BY <1>1 DEF Abort, Return, Safe, Behind, remote
<1>. QED
  BY <1>1, <1>2, <1>3, <1>4, <1>5 DEF Inv

LEMMA InvRecord ==
  ASSUME Inv, Record, SearchTime <= Window
  PROVE  Inv'
<1>. USE InvFacts
<1>. DEFINE r == [started |-> started, mode |-> plan.mode, checkpoint |-> mark]
<1>1. r \in Run /\ runs' = <<r>> \o runs /\ r.checkpoint = mark
  BY RecordedRun DEF Record
<1>2. NewestDated' /\ Checkpoint' = IF mark # 0 THEN mark ELSE Checkpoint
  BY <1>1, NewCheckpoint
<1>3. TypeOK'
  BY RecordType
<1>4. mark <= clock
  BY DEF Record, InRound
<1>5. Times'
  <2>1. /\ Len(runs) \in Nat /\ Len(runs') = Len(runs) + 1 /\ runs'[1] = r
        /\ \A i \in 1..Len(runs) : runs'[i + 1] = runs[i]
    BY <1>1, RunsGrow
  <2>2. ASSUME NEW i \in 1..Len(runs')
        PROVE runs'[i].checkpoint <= clock
    <3>1. CASE i = 1
      BY <3>1, <2>1, <1>1, <1>4
    <3>2. CASE i # 1
      <4>1. i - 1 \in 1..Len(runs) /\ (i - 1) + 1 = i
        BY <3>2, <2>1
      <4>. QED
        BY <4>1, <2>1 DEF Times
    <3>. QED
      BY <3>1, <3>2
  <2>. QED
    BY <2>2 DEF Record, Times, remote
<1>6. InRound'
  BY DEF Record, Rest, InRound
<1>7. \A d \in Docs : Safe(d)'
  <2>1. CASE pc = "aborted"
    BY <2>1, <1>2 DEF Record, InRound, Safe, Behind, remote
  <2>2. CASE pc = "done"
    <3>1. mark <= started + Window
      BY <2>2 DEF InRound
    <3>. QED
      BY <2>2, <3>1, <1>2 DEF Record, InRound, Covered, Safe, Behind, remote
  <2>. QED
    BY <2>1, <2>2 DEF Record
<1>. QED
  BY <1>2, <1>3, <1>5, <1>6, <1>7 DEF Inv

LEMMA InvCrash ==
  ASSUME Inv, Crash
  PROVE  Inv'
<1>. USE InvFacts
<1>1. Checkpoint' = Checkpoint /\ NewestDated' = NewestDated
  BY SameRuns DEF Crash
<1>2. TypeOK'
  BY RecordType
<1>3. Times'
  BY DEF Crash, Times, remote
<1>4. InRound'
  BY <1>1 DEF Crash, Rest, InRound
<1>5. \A d \in Docs : Safe(d)'
  BY <1>1 DEF Crash, Safe, Behind, remote
<1>. QED
  BY <1>1, <1>2, <1>3, <1>4, <1>5 DEF Inv

-----------------------------------------------------------------------------
(* What holds in every reachable state. *)

LEMMA InvInit == Init => Inv
<1>. SUFFICES ASSUME Init PROVE Inv
  OBVIOUS
<1>1. Len(runs) = 0 /\ Dated = {} /\ Checkpoint = 0
  BY DEF Init, Dated, Checkpoint
<1>2. TypeOK
  BY InitType
<1>3. Times /\ NewestDated
  BY <1>1 DEF Init, Times, NewestDated
<1>4. InRound
  BY <1>1 DEF Init, InRound
<1>5. \A d \in Docs : Safe(d)
  BY DEF Init, Safe, Behind
<1>. QED
  BY <1>2, <1>3, <1>4, <1>5 DEF Inv

LEMMA InvStutter ==
  ASSUME Inv, UNCHANGED vars
  PROVE  Inv'
<1>. USE InvFacts
<1>1. Checkpoint' = Checkpoint /\ NewestDated' = NewestDated
  BY SameRuns DEF vars
<1>2. TypeOK' /\ Times'
  BY StutterType DEF Times, vars, remote
<1>3. \A d \in Docs : (Passed(d)' <=> Passed(d)) /\ (Covered(d)' <=> Covered(d)) /\ (Safe(d)' <=> Safe(d))
  BY <1>1 DEF vars, remote, round, Passed, Covered, Behind, Safe
<1>4. Listed' = Listed
  BY DEF vars, round, Listed
<1>5. InRound'
  BY <1>1, <1>3, <1>4 DEF vars, round, InRound
<1>. QED
  BY <1>1, <1>2, <1>3, <1>5 DEF Inv

LEMMA InvNext ==
  ASSUME Inv, [Next]_vars, SearchTime <= Window
  PROVE  Inv'
<1>1. CASE Tick
  BY <1>1, InvTick
<1>2. CASE Remote
  BY <1>2, InvEdit, InvShare, InvUnshare DEF Remote
<1>3. CASE Decide \/ StartPlatform \/ EndSearch
  BY <1>3, InvDecide, InvStartPlatform, InvEndSearch
<1>4. CASE EndWalk \/ Abort \/ Record \/ Crash
  BY <1>4, InvEndWalk, InvAbort, InvRecord, InvCrash
<1>5. CASE \E d \in Docs : Read(d) \/ Process(d) \/ Trash(d)
  BY <1>5, InvRead, InvProcess, InvTrash
<1>6. CASE UNCHANGED vars
  BY <1>6, InvStutter
<1>. QED
  BY <1>1, <1>2, <1>3, <1>4, <1>5, <1>6 DEF Next

(* The invariant holds in every state, whenever a search fits in the safety
   window (incremental.go's maxEditedSince and pipeline.go's checkpointFor set the
   checkpoint, the window is what an incremental search re-reads behind it). *)
THEOREM Correct ==
  ASSUME SearchTime <= Window
  PROVE  Spec => []Inv
<1>1. Inv /\ [Next]_vars => Inv'
  BY InvNext
<1>. QED
  BY <1>1, InvInit, PTL DEF Spec

(* No edit is lost in silence: when a search takes no longer than SafetyWindow,
   what the mirror is behind on between two rounds will be enumerated again, or
   was reported, or was shared without being edited. *)
THEOREM NoSilentLoss ==
  ASSUME SearchTime <= Window
  PROVE  Spec => []NothingSlips
<1>1. Inv => NothingSlips
  BY DEF Inv, TypeOK, NothingSlips, Safe, Behind
<1>. QED
  BY <1>1, Correct, PTL

(* A round that runFull or runIncremental finished leaves the mirror behind only on
   what was edited while it ran and on what it reported. *)
THEOREM FinishedRoundCatchesUp ==
  ASSUME SearchTime <= Window
  PROVE  Spec => []RoundCatchesUp
<1>1. Inv => RoundCatchesUp
  BY DEF Inv, InRound, TypeOK, RoundCatchesUp, Covered, Behind
<1>. QED
  BY <1>1, Correct, PTL

-----------------------------------------------------------------------------
(* Types and the cadence of full rounds: these need no assumption on searches. *)

LEMMA NewestKept ==
  ASSUME TypeOK, NewestDated, [Next]_vars
  PROVE  NewestDated'
<1>1. CASE Record
  BY <1>1, RecordedRun, NewCheckpoint DEF Record
<1>2. CASE UNCHANGED runs
  BY <1>2, SameRuns
<1>. QED
  BY <1>1, <1>2 DEF Next, Tick, Remote, Edit, Share, Unshare, Decide, StartPlatform, Read,
     EndSearch, Process, Trash, EndWalk, Return, Abort, Crash, vars

(* Every state of the rounds and of what the manifest keeps of them is well typed:
   the mode, the previous checkpoint and the rows that Engine.Sync hands on. *)
THEOREM RoundsTypeCorrect == Spec => []TypeOK
<1>1. Init => NewestDated
  BY DEF Init, NewestDated, Dated
<1>2. TypeOK /\ NewestDated /\ [Next]_vars => (TypeOK /\ NewestDated)'
  BY NextType, NewestKept
<1>. QED
  BY <1>1, <1>2, InitType, PTL DEF Spec

\* A round that was decided to be incremental has seen the full one of its streak.
Counted ==
  /\ pc # "idle" /\ plan.mode = "incremental"
  /\ EveryRuns > 0 /\ EveryRuns <= RecentRunLimit + 1 /\ EveryRuns - 1 <= Len(runs)
  => \E j \in 1..(EveryRuns - 1) : runs[j].mode = "full"

LEMMA NotDue ==
  ASSUME TypeOK, ~Due, EveryRuns > 0,
         EveryRuns <= RecentRunLimit + 1, EveryRuns - 1 <= Len(runs)
  PROVE  \E j \in 1..(EveryRuns - 1) : runs[j].mode = "full"
<1>. DEFINE counted == {n \in 1..Len(Recent) : \A i \in 1..n : Recent[i].mode = "incremental"}
<1>1. Len(runs) \in Nat /\ runs \in Seq(Run) /\ \A j \in 1..Len(runs) : runs[j] \in Run
  BY ElementOfSeq, LenProperties DEF TypeOK
<1>2. EveryRuns \in Nat /\ RecentRunLimit \in Nat
  BY RoundsAssumption
<1>3. /\ Len(Recent) = IF Len(runs) <= RecentRunLimit THEN Len(runs) ELSE RecentRunLimit
      /\ \A i \in 1..Len(Recent) : Recent[i] = runs[i]
  <2>. DEFINE n == IF Len(runs) <= RecentRunLimit THEN Len(runs) ELSE RecentRunLimit
  <2>1. n \in 0..Len(runs)
    BY <1>1, <1>2
  <2>2. Recent = SubSeq(runs, 1, n)
    BY DEF Recent
  <2>. HIDE DEF n
  <2>3. Len(Recent) = n /\ \A i \in 1..n : Recent[i] = runs[i]
    BY <1>1, <2>1, <2>2
  <2>. QED
    BY <2>3 DEF n
<1>4. EveryRuns - 1 <= Len(Recent) /\ Len(Recent) \in Nat
  BY <1>1, <1>2, <1>3
<1>5. SUFFICES ASSUME \A j \in 1..(EveryRuns - 1) : runs[j].mode = "incremental"
               PROVE  FALSE
  <2>1. \A j \in 1..(EveryRuns - 1) : runs[j] \in Run
    BY <1>1, <1>2
  <2>2. \A j \in 1..(EveryRuns - 1) : runs[j].mode = "incremental" \/ runs[j].mode = "full"
    BY <2>1 DEF Run, Mode
  <2>. HIDE DEF counted
  <2>. QED
    BY <2>2
<1>6. 1..(EveryRuns - 1) \subseteq counted
  <2>1. ASSUME NEW n \in 1..(EveryRuns - 1)
        PROVE  n \in 1..Len(Recent) /\ \A i \in 1..n : Recent[i].mode = "incremental"
    BY <1>2, <1>3, <1>4, <1>5
  <2>. QED
    BY <2>1
<1>7. IsFiniteSet(counted)
  <2>1. counted \in SUBSET (1..Len(Recent))
    OBVIOUS
  <2>2. IsFiniteSet(1..Len(Recent))
    BY <1>4, FS_Interval
  <2>. HIDE DEF counted
  <2>. QED
    BY <2>1, <2>2, FS_Subset
<1>8. Cardinality(1..(EveryRuns - 1)) = EveryRuns - 1
  BY <1>2, FS_Interval
<1>9. Cardinality(counted) \in Nat /\ EveryRuns - 1 <= Cardinality(counted)
  <2>. HIDE DEF counted
  <2>1. Cardinality(counted) \in Nat
    BY <1>7, FS_CardinalityType
  <2>2. Cardinality(1..(EveryRuns - 1)) <= Cardinality(counted)
    BY <1>6, <1>7, FS_Subset
  <2>. QED
    BY <2>1, <2>2, <1>8
<1>10. Cardinality(counted) + 1 < EveryRuns
  <2>1. Streak(Recent) = Cardinality(counted)
    BY DEF Streak
  <2>. HIDE DEF counted
  <2>. QED
    BY <2>1, <1>2, <1>9 DEF Due
<1>. HIDE DEF counted
<1>. QED
  BY <1>2, <1>9, <1>10

LEMMA CountedKept ==
  ASSUME TypeOK, Counted, [Next]_vars
  PROVE  Counted'
<1>1. CASE Decide
  <2>1. PICK full \in Forced : plan' = [mode |-> DecideMode(clock, full), prev |-> Checkpoint]
    BY <1>1 DEF Decide
  <2>2. plan'.mode = "incremental" => ~Due
    BY <2>1 DEF DecideMode
  <2>. QED
    BY <1>1, <2>2, NotDue DEF Decide, Counted
<1>2. CASE Record \/ Crash
  BY <1>2 DEF Record, Crash, Rest, Counted
<1>3. CASE UNCHANGED <<runs, pc, plan>>
  BY <1>3 DEF Counted
<1>4. CASE pc # "idle" /\ UNCHANGED <<runs, plan>>
  BY <1>4 DEF Counted
<1>. QED
  BY <1>1, <1>2, <1>3, <1>4 DEF Next, Tick, Remote, Edit, Share, Unshare, StartPlatform, Read,
     EndSearch, Process, Trash, EndWalk, Return, Abort, vars, round

LEMMA CadenceStep ==
  ASSUME TypeOK, Counted, CadenceKept, [Next]_vars
  PROVE  CadenceKept'
<1>1. CASE Record
  <2>. DEFINE r == [started |-> started, mode |-> plan.mode, checkpoint |-> mark]
  <2>1. r \in Run /\ runs' = <<r>> \o runs /\ r.mode = plan.mode /\ r.mode \in Mode
    BY <1>1, RecordedRun DEF Record, Run
  <2>2. /\ Len(runs) \in Nat /\ Len(runs') = Len(runs) + 1 /\ runs'[1] = r
        /\ \A i \in 1..Len(runs) : runs'[i + 1] = runs[i]
    BY <2>1, RunsGrow
  <2>. HIDE DEF r
  <2>3. SUFFICES ASSUME EveryRuns > 0, EveryRuns <= RecentRunLimit + 1,
                        NEW i \in 1..Len(runs'), i + EveryRuns - 1 <= Len(runs')
                 PROVE  \E j \in i..(i + EveryRuns - 1) : runs'[j].mode = "full"
    BY DEF CadenceKept
  <2>4. EveryRuns \in Nat
    BY RoundsAssumption
  <2>5. CASE i = 1 /\ r.mode = "full"
    <3>1. 1 \in i..(i + EveryRuns - 1)
      BY <2>3, <2>4, <2>5
    <3>. QED
      BY <2>2, <2>5, <3>1
  <2>6. CASE i = 1 /\ r.mode = "incremental"
    <3>1. PICK j \in 1..(EveryRuns - 1) : runs[j].mode = "full"
      BY <1>1, <2>1, <2>2, <2>3, <2>4, <2>6 DEF Record, Counted
    <3>2. j + 1 \in i..(i + EveryRuns - 1) /\ runs'[j + 1] = runs[j]
      BY <2>2, <2>3, <2>4, <2>6
    <3>. QED
      BY <3>1, <3>2
  <2>7. CASE i > 1
    <3>1. i - 1 \in 1..Len(runs) /\ (i - 1) + EveryRuns - 1 <= Len(runs)
      BY <2>2, <2>3, <2>4, <2>7
    <3>2. PICK j \in (i - 1)..((i - 1) + EveryRuns - 1) : runs[j].mode = "full"
      BY <2>3, <3>1 DEF CadenceKept
    <3>3. j + 1 \in i..(i + EveryRuns - 1) /\ runs'[j + 1] = runs[j]
      BY <2>2, <2>4, <3>1
    <3>. QED
      BY <3>2, <3>3
  <2>8. i = 1 \/ i > 1
    BY <2>2, <2>3
  <2>9. r.mode = "full" \/ r.mode = "incremental"
    BY <2>1 DEF Mode
  <2>. QED
    BY <2>5, <2>6, <2>7, <2>8, <2>9
<1>2. CASE UNCHANGED runs
  BY <1>2 DEF CadenceKept
<1>. QED
  BY <1>1, <1>2 DEF Next, Tick, Remote, Edit, Share, Unshare, Decide, StartPlatform, Read,
     EndSearch, Process, Trash, EndWalk, Return, Abort, Crash, vars

(* decideNotionMode keeps its cadence: among any notion_reconcile_every_runs
   consecutive recorded rounds one is full, as long as that number is at most one
   more than recentRunLimit. *)
THEOREM CadenceHolds == Spec => []CadenceKept
<1>1. Init => CadenceKept /\ Counted
  BY DEF Init, CadenceKept, Counted
<1>2. TypeOK /\ Counted /\ CadenceKept /\ [Next]_vars => (Counted /\ CadenceKept)'
  BY CountedKept, CadenceStep
<1>. QED
  BY <1>1, <1>2, RoundsTypeCorrect, PTL DEF Spec
=============================================================================
