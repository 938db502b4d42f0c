---------------------------- MODULE RalphLoopProofs ----------------------------
(***************************************************************************)
(* The ratchet, for any persona files, sessions, registry, runs, mutations *)
(* and edits: nothing unverified stays in a file, and an accepted change   *)
(* is lost to an accepted one only.                                        *)
(***************************************************************************)
EXTENDS RalphLoop, TLAPS

LEMMA TailFacts ==
  ASSUME NEW s \in Seq(Mutation), s # <<>>
  PROVE  /\ Tail(s) \in Seq(Mutation) /\ Head(s) \in Mutation
         /\ Head(s) = s[1] /\ 1 \in DOMAIN s
  OBVIOUS

\* The mutation at the head, and what it would be written into.
LEMMA PresentTyped ==
  ASSUME TypeOK, todo # <<>>
  PROVE  Present \in Mutation /\ File \in Target /\ Tail(todo) \in Seq(Mutation)
  BY TailFacts DEF TypeOK, Present, File, Mutation, Shape

-----------------------------------------------------------------------------
(* Types.                                                                  *)

LEMMA InitTyped == Init => TypeOK
<1> SUFFICES ASSUME Init PROVE TypeOK
  OBVIOUS
<1>1. <<>> \in Seq(Mutation) /\ {} \subseteq Sessions /\ {} \subseteq Entry
  OBVIOUS
<1>2. [f \in Files |-> {}] \in [Files -> SUBSET (Mutation \cup Edit)]
  OBVIOUS
<1>3. 0 \in 0 .. MaxRuns /\ 0 \in 0 .. MaxEdits /\ 0 \in 0 .. MaxPromoted
      /\ registry \in [Sessions -> Verdict]
  BY RalphAssumption DEF Init
<1> QED
  BY <1>1, <1>2, <1>3 DEF Init, TypeOK

\* Whatever traces it has seen, a run proposes at most so many changes.
LEMMA ProposalsTyped ==
  ASSUME NEW traces, NEW shapes \in Proposals(traces)
  PROVE  \E n \in 0 .. MaxProposed : shapes \in [1 .. n -> Shape]
<1>1. Investigation \in Shape
  BY DEF Investigation, Shape, Target
<1>2. PICK n \in Findings(traces) :
         shapes \in IF n = 0 THEN {<<>>} ELSE Evolved \cup [1 .. n -> {Investigation}]
  BY DEF Proposals
<1>3. n \in 0 .. MaxProposed
  BY <1>2, RalphAssumption DEF Findings
<1>4. CASE n = 0
  <2>1. shapes \in [1 .. 0 -> Shape]
    BY <1>2, <1>4
  <2> QED
    BY <1>3, <1>4, <2>1
<1>5. CASE n # 0 /\ shapes \in Evolved
  <2>1. PICK k \in 1 .. MaxProposed : shapes \in [1 .. k -> Shapes]
    BY <1>5 DEF Evolved
  <2>2. shapes \in [1 .. k -> Shape] /\ k \in 0 .. MaxProposed
    BY <2>1, RalphAssumption
  <2> QED
    BY <2>2
<1>6. CASE n # 0 /\ shapes \in [1 .. n -> {Investigation}]
  <2>1. shapes \in [1 .. n -> Shape]
    BY <1>1, <1>6
  <2> QED
    BY <1>3, <2>1
<1> QED
  BY <1>2, <1>4, <1>5, <1>6

LEMMA Proposed ==
  ASSUME TypeOK, Propose
  PROVE  todo' \in Seq(Mutation) /\ runs' \in 0 .. MaxRuns
<1>1. runs' \in 1 .. MaxRuns /\ runs' \in 0 .. MaxRuns
  BY RalphAssumption DEF TypeOK, Propose
<1>2. PICK shapes \in UNION {Proposals(traces) : traces \in AllTraces} :
         todo' = [i \in DOMAIN shapes |-> [run |-> runs', n |-> i, shape |-> shapes[i]]]
  BY DEF Propose
<1>3. PICK n \in 0 .. MaxProposed : shapes \in [1 .. n -> Shape]
  BY <1>2, ProposalsTyped
<1>4. n \in Nat /\ \A i \in 1 .. n : i \in 1 .. MaxProposed
  BY RalphAssumption
<1>5. \A i \in 1 .. n : [run |-> runs', n |-> i, shape |-> shapes[i]] \in Mutation
  BY <1>1, <1>3, <1>4 DEF Mutation
<1>6. todo' \in [1 .. n -> Mutation]
  BY <1>2, <1>3, <1>5
<1> QED
  BY <1>1, <1>4, <1>6

LEMMA JournalTyped ==
  ASSUME TypeOK, todo # <<>>, NEW v, Journals(v) \/ JournalThrows
  PROVE  journal' \subseteq Entry
  BY PresentTyped DEF TypeOK, Journals, JournalThrows, Entry

\* While a replay runs there is a mutation under test, of a persona's file.
Testing == pc = "replaying" => todo # <<>> /\ File \in Files

LEMMA ExitTyped ==
  ASSUME TypeOK, Exit, journal' \subseteq Entry, orphans' \subseteq Mutation,
         {disk', git'} \subseteq [Files -> SUBSET (Mutation \cup Edit)],
         UNCHANGED <<runs, others>>
  PROVE  TypeOK' /\ Testing'
  BY DEF TypeOK, Exit, Testing, others

LEMMA RestoredTyped ==
  ASSUME TypeOK
  PROVE  Restored \in [Files -> SUBSET (Mutation \cup Edit)]
  BY DEF TypeOK, Restored

LEMMA RejectTyped == TypeOK /\ Testing /\ Reject => TypeOK' /\ Testing'
<1> SUFFICES ASSUME TypeOK, Testing, Reject PROVE TypeOK' /\ Testing'
  OBVIOUS
<1>1. journal' \subseteq Entry /\ disk' \in [Files -> SUBSET (Mutation \cup Edit)]
  BY JournalTyped, RestoredTyped DEF Reject, Testing
<1>2. CASE Exit
  BY <1>1, <1>2, ExitTyped DEF Reject, TypeOK
<1>3. CASE Done /\ pc' = "next" /\ untested' = {} /\ tested' = {}
           /\ UNCHANGED <<mode, kept, before>>
  <2>1. todo' \in Seq(Mutation)
    BY <1>3, PresentTyped DEF Reject, Testing, Done
  <2> QED
    BY <1>1, <1>3, <2>1 DEF Reject, TypeOK, Testing, others
<1> QED
  BY <1>2, <1>3 DEF Reject

LEMMA NextTyped == TypeOK /\ Testing /\ [Next]_vars => (TypeOK /\ Testing)'
<1> SUFFICES ASSUME TypeOK, Testing, [Next]_vars PROVE TypeOK' /\ Testing'
  OBVIOUS
<1> USE DEF run, test, files, others
<1>1. CASE Propose
  <2>1. todo' \in Seq(Mutation) /\ runs' \in 0 .. MaxRuns
    BY <1>1, Proposed
  <2> QED
    BY <1>1, <2>1 DEF Propose, TypeOK, Testing
<1>2. CASE Suggest
  BY <1>2, PresentTyped DEF Suggest, Done, TypeOK, Testing
<1>3. CASE Refuse
  <2>1. journal' \subseteq Entry
    BY <1>3, JournalTyped DEF Refuse
  <2>2. CASE Exit
    BY <1>3, <2>1, <2>2, ExitTyped DEF Refuse, TypeOK
  <2>3. CASE Done /\ UNCHANGED <<mode, kept, pc, test>>
    BY <1>3, <2>1, <2>3, PresentTyped DEF Refuse, Done, TypeOK, Testing
  <2> QED
    BY <1>3, <2>2, <2>3 DEF Refuse
<1>4. CASE Try
  <2>1. Present \in Mutation /\ File \in Files /\ disk[File] \subseteq Mutation \cup Edit
    BY <1>4, PresentTyped DEF Try, TypeOK
  <2>2. Applied(disk[File]) \subseteq Mutation \cup Edit
    BY <2>1 DEF Applied
  <2>3. disk' \in [Files -> SUBSET (Mutation \cup Edit)] /\ before' \subseteq Mutation \cup Edit
    BY <1>4, <2>1, <2>2 DEF Try, TypeOK, Snapshot
  <2>4. untested' \subseteq Sessions
    BY <1>4 DEF Try, SelectRatchetGoldens
  <2>5. File' = File
    BY <1>4 DEF Try, File, Present
  <2> QED
    BY <1>4, <2>1, <2>3, <2>4, <2>5 DEF Try, TypeOK, Testing
<1>5. ASSUME NEW s \in Sessions, Replayed(s)
      PROVE  TypeOK' /\ Testing'
  <2>1. untested' \subseteq Sessions /\ tested' \subseteq Sessions
    BY <1>5 DEF Replayed, TypeOK
  <2> QED
    BY <1>5, <2>1 DEF Replayed, TypeOK, Testing, File, Present
<1>6. CASE Reject
  BY <1>6, RejectTyped
<1>7. CASE Accept
  <2>1. journal' \subseteq Entry
    BY <1>7, JournalTyped DEF Accept, Testing
  <2>2. todo' \in Seq(Mutation) /\ kept' \in Seq(Mutation)
    BY <1>7, PresentTyped DEF Accept, Done, TypeOK, Testing
  <2>3. disk' \in [Files -> SUBSET (Mutation \cup Edit)]
    BY <1>7, RestoredTyped DEF Accept, Kept, TypeOK
  <2> QED
    BY <1>7, <2>1, <2>2, <2>3 DEF Accept, TypeOK, Testing
<1>8. CASE Finish
  <2>1. CASE Exit
    BY <1>8, <2>1, ExitTyped DEF Finish, TypeOK
  <2>2. CASE pc' = "committing" /\ UNCHANGED <<mode, todo, kept, test>>
    BY <1>8, <2>2 DEF Finish, TypeOK, Testing
  <2> QED
    BY <1>8, <2>1, <2>2 DEF Finish
<1>9. CASE Commit
  <2>1. git' \in [Files -> SUBSET (Mutation \cup Edit)]
    BY <1>9 DEF Commit, Commits, TypeOK
  <2>2. CASE Exit
    BY <1>9, <2>1, <2>2, ExitTyped DEF Commit, TypeOK
  <2>3. CASE kept' = Tail(kept) /\ UNCHANGED <<mode, todo, pc, test>>
    <3>1. kept' \in Seq(Mutation)
      BY <1>9, <2>3, TailFacts DEF Commit, TypeOK
    <3> QED
      BY <1>9, <2>1, <2>3, <3>1 DEF Commit, TypeOK, Testing
  <2> QED
    BY <1>9, <2>2, <2>3 DEF Commit
<1>10. CASE Killed
  <2>1. orphans' \subseteq Mutation
    BY <1>10, PresentTyped DEF Killed, Testing, TypeOK
  <2> QED
    BY <1>10, <2>1, ExitTyped DEF Killed, TypeOK
<1>11. ASSUME NEW f \in Files, UserEdits(f)
       PROVE  TypeOK' /\ Testing'
  <2>1. edits' \in 1 .. MaxEdits /\ edits' \in 0 .. MaxEdits
    BY <1>11, RalphAssumption DEF UserEdits, TypeOK
  <2>2. disk' \in [Files -> SUBSET (Mutation \cup Edit)]
    BY <1>11, <2>1 DEF UserEdits, TypeOK, Edit
  <2> QED
    BY <1>11, <2>1, <2>2 DEF UserEdits, TypeOK, Testing, File, Present
<1>12. ASSUME NEW s \in Sessions, NEW v \in Verdict, AddGoldenTrace(s, v)
       PROVE  TypeOK' /\ Testing'
  <2>1. promoted' \in 0 .. MaxPromoted /\ registry' \in [Sessions -> Verdict]
    BY <1>12, RalphAssumption DEF AddGoldenTrace, TypeOK
  <2> QED
    BY <1>12, <2>1 DEF AddGoldenTrace, TypeOK, Testing, File, Present
<1>13. ASSUME NEW s \in Sessions, GoldenAdd(s) \/ GoldenGenerate(s)
       PROVE  TypeOK' /\ Testing'
  BY <1>12, <1>13 DEF GoldenAdd, GoldenGenerate, Verdict
<1>14. CASE UNCHANGED vars
  BY <1>14 DEF vars, TypeOK, Testing, File, Present
<1> QED
  BY <1>1, <1>2, <1>3, <1>4, <1>5, <1>6, <1>7, <1>8, <1>9, <1>10, <1>11, <1>13, <1>14
  DEF Next, Regresses, Fails

\* The types, whatever the constants; a mutation under test has a file.
THEOREM TypeCorrect == Spec => []TypeOK
<1>1. Init => TypeOK /\ Testing
  BY InitTyped DEF Init, Testing
<1> QED
  BY <1>1, NextTyped, PTL DEF Spec

-----------------------------------------------------------------------------
(* What the replays were.                                                  *)

\* A session in the registry whose trace is still there is fit to be a golden,
\* and those chosen for the mutation under test are enough, and fit.
Covering ==
  /\ \A s \in Sessions : registry[s] # "none" /\ Trace[s].loads => Fit(Trace[s])
  /\ pc = "replaying" =>
       /\ Cardinality(tested \cup untested) >= MinCoverage
       /\ \A s \in tested \cup untested : Fit(Trace[s])

LEMMA InitCovering == Init => Covering
  BY RalphAssumption DEF Init, Covering

LEMMA NextCovering == TypeOK /\ Covering /\ [Next]_vars => Covering'
<1> SUFFICES ASSUME TypeOK, Covering, [Next]_vars PROVE Covering'
  OBVIOUS
<1> USE DEF run, test, files, others
<1>1. ASSUME registry' = registry, pc' # "replaying"
      PROVE  Covering'
  BY <1>1 DEF Covering
<1>2. ASSUME UNCHANGED <<registry, pc, test>>
      PROVE  Covering'
  BY <1>2 DEF Covering
<1>3. CASE Propose
  BY <1>1, <1>3 DEF Propose
<1>4. CASE Suggest
  BY <1>2, <1>4 DEF Suggest
<1>5. CASE Refuse
  BY <1>1, <1>2, <1>5 DEF Refuse, Exit
<1>6. CASE Try
  <2>1. /\ tested' \cup untested' = SelectRatchetGoldens(File)
        /\ Cardinality(SelectRatchetGoldens(File)) >= MinCoverage
        /\ registry' = registry
    BY <1>6 DEF Try, Covered
  <2>2. \A s \in SelectRatchetGoldens(File) :
          s \in Sessions /\ registry[s] = "pass" /\ Trace[s].loads
    BY DEF SelectRatchetGoldens
  <2>3. \A s \in SelectRatchetGoldens(File) : Fit(Trace[s])
    BY <2>2 DEF Covering
  <2> QED
    BY <2>1, <2>3 DEF Covering
<1>7. ASSUME NEW s \in Sessions, Replayed(s)
      PROVE  Covering'
  <2>1. tested' \cup untested' = tested \cup untested
    BY <1>7 DEF Replayed
  <2> QED
    BY <1>7, <2>1 DEF Replayed, Covering
<1>8. CASE Reject
  BY <1>1, <1>8 DEF Reject, Exit
<1>9. CASE Accept
  BY <1>1, <1>9 DEF Accept
<1>10. CASE Finish
  BY <1>1, <1>10 DEF Finish, Exit
<1>11. CASE Commit
  BY <1>1, <1>11 DEF Commit, Exit
<1>12. CASE Killed
  BY <1>1, <1>12 DEF Killed, Exit
<1>13. ASSUME NEW f \in Files, UserEdits(f)
       PROVE  Covering'
  BY <1>2, <1>13 DEF UserEdits
<1>14. ASSUME NEW s \in Sessions, GoldenAdd(s) \/ GoldenGenerate(s)
       PROVE  Covering'
  <2>1. Fit(Trace[s]) /\ UNCHANGED <<pc, test>>
        /\ \A r \in Sessions \ {s} : registry'[r] = registry[r]
    BY <1>14 DEF GoldenAdd, GoldenGenerate, AddGoldenTrace, TypeOK
  <2> QED
    BY <2>1 DEF Covering
<1>15. CASE UNCHANGED vars
  BY <1>2, <1>15 DEF vars
<1> QED
  BY <1>3, <1>4, <1>5, <1>6, <1>7, <1>8, <1>9, <1>10, <1>11, <1>12, <1>13, <1>14, <1>15
  DEF Next, Regresses, Fails

-----------------------------------------------------------------------------
(* What is in the files.                                                   *)

Vouched == {m \in Mutation \cup Edit : Ratcheted(m) \/ m \in orphans \/ m \in Edit}

\* Only the file of the mutation under test holds anything that nothing
\* vouches for, and only that mutation; the snapshot holds nothing of the kind.
Vouching ==
  /\ \A f \in Files : git[f] \subseteq Vouched
  /\ \A f \in Files :
       disk[f] \subseteq IF pc = "replaying" /\ f = File THEN Vouched \cup {Present} ELSE Vouched
  /\ pc = "replaying" => before \subseteq Vouched

LEMMA InitVouching == Init => Vouching
  BY DEF Init, Vouching

LEMMA VouchedStays ==
  ASSUME journal \subseteq journal', orphans \subseteq orphans'
  PROVE  Vouched \subseteq Vouched'
  BY DEF Vouched, Ratcheted

\* The file of a mutation that is rejected, or accepted on trial, is what it
\* was before.
LEMMA RestoredVouched ==
  ASSUME TypeOK, Testing, Vouching, pc = "replaying", disk' = Restored,
         git' = git, journal \subseteq journal', orphans' = orphans, pc' # "replaying"
  PROVE  Vouching'
<1>1. Vouched \subseteq Vouched'
  BY VouchedStays
<1>2. disk'[File] = before /\ \A f \in Files \ {File} : disk'[f] = disk[f]
  BY DEF Restored, Testing, TypeOK
<1>3. \A f \in Files : disk'[f] \subseteq Vouched
  BY <1>2 DEF Vouching
<1> QED
  BY <1>1, <1>3 DEF Vouching

LEMMA NextVouching == TypeOK /\ Testing /\ Covering /\ Vouching /\ [Next]_vars => Vouching'
<1> SUFFICES ASSUME TypeOK, Testing, Covering, Vouching, [Next]_vars PROVE Vouching'
  OBVIOUS
<1> USE DEF run, test, files, others
<1>1. ASSUME UNCHANGED <<disk, git>>, pc # "replaying", pc' # "replaying",
             journal \subseteq journal', orphans \subseteq orphans'
      PROVE  Vouching'
  BY <1>1, VouchedStays DEF Vouching
<1>2. CASE Propose
  BY <1>1, <1>2 DEF Propose
<1>3. CASE Suggest
  BY <1>1, <1>3 DEF Suggest
<1>4. CASE Refuse
  <2>1. journal \subseteq journal' /\ pc' # "replaying"
    BY <1>4 DEF Refuse, Journals, JournalThrows, Exit
  <2> QED
    BY <1>1, <1>4, <2>1 DEF Refuse
<1>5. CASE Try
  <2>1. /\ File \in Files /\ before' = disk[File]
        /\ disk'[File] = Applied(disk[File])
        /\ \A f \in Files \ {File} : disk'[f] = disk[f]
        /\ pc = "next" /\ pc' = "replaying"
        /\ UNCHANGED <<todo, git, journal, orphans>>
    BY <1>5 DEF Try, Snapshot, TypeOK
  <2>2. Present' = Present /\ File' = File /\ Vouched' = Vouched
    BY <2>1 DEF Present, File, Vouched, Ratcheted
  <2>3. \A f \in Files : disk[f] \subseteq Vouched
    BY <2>1 DEF Vouching
  <2>4. Applied(disk[File]) \subseteq disk[File] \cup {Present}
    BY DEF Applied
  <2> QED
    BY <2>1, <2>2, <2>3, <2>4 DEF Vouching
<1>6. ASSUME UNCHANGED <<pc, todo, before, git, journal, orphans>>,
             \A f \in Files : disk'[f] \subseteq disk[f] \cup Edit
      PROVE  Vouching'
  <2>1. Present' = Present /\ File' = File /\ Vouched' = Vouched /\ Edit \subseteq Vouched
    BY <1>6 DEF Present, File, Vouched, Ratcheted
  <2> QED
    BY <1>6, <2>1 DEF Vouching
<1>7. ASSUME NEW s \in Sessions, Replayed(s)
      PROVE  Vouching'
  BY <1>6, <1>7 DEF Replayed
<1>8. CASE Reject
  <2>1. journal \subseteq journal' /\ pc' # "replaying"
    BY <1>8 DEF Reject, Journals, JournalThrows, Exit
  <2> QED
    BY <1>8, <2>1, RestoredVouched DEF Reject
<1>9. CASE Accept
  <2>1. journal \subseteq journal' /\ pc = "replaying" /\ pc' = "next"
    BY <1>9 DEF Accept, Journals
  <2>2. CASE mode = "try"
    BY <1>9, <2>1, <2>2, RestoredVouched DEF Accept, Kept
  <2>3. CASE mode # "try"
    <3>1. /\ UNCHANGED <<disk, git, orphans>> /\ untested = {}
          /\ [mutation |-> Present, tested |-> tested] \in journal'
      BY <1>9, <2>3 DEF Accept, Kept, Journals
    <3>2. Vouched \subseteq Vouched'
      BY <2>1, <3>1, VouchedStays
    <3>3. Present \in Vouched'
      <4>1. Present \in Mutation
        BY <2>1, PresentTyped DEF Testing
      <4>2. tested \cup untested = tested
        BY <3>1
      <4>3. Cardinality(tested) >= MinCoverage /\ \A s \in tested : Fit(Trace[s])
        BY <2>1, <4>2 DEF Covering
      <4> DEFINE entry == [mutation |-> Present, tested |-> tested]
      <4>4. entry.mutation = Present /\ entry.tested = tested
        OBVIOUS
      <4>5. (\E e \in journal' : /\ e.mutation = Present
                                 /\ Cardinality(e.tested) >= MinCoverage
                                 /\ \A s \in e.tested : Fit(Trace[s]))
        BY <3>1, <4>3, <4>4
      <4> QED
        BY <4>1, <4>5 DEF Vouched, Ratcheted
    <3> QED
      BY <2>1, <3>1, <3>2, <3>3 DEF Vouching
  <2> QED
    BY <2>2, <2>3
<1>10. CASE Finish
  <2>1. pc' # "replaying"
    BY <1>10 DEF Finish, Exit
  <2> QED
    BY <1>1, <1>10, <2>1 DEF Finish
<1>11. CASE Commit
  <2>1. /\ UNCHANGED <<disk, journal, orphans>>
        /\ pc # "replaying" /\ pc' # "replaying"
        /\ \A f \in Files : git'[f] = git[f] \/ git'[f] = disk[f]
    BY <1>11 DEF Commit, Commits, Exit, TypeOK
  <2>2. Vouched \subseteq Vouched'
    BY <2>1, VouchedStays
  <2> QED
    BY <2>1, <2>2 DEF Vouching
<1>12. CASE Killed
  <2>1. /\ UNCHANGED <<disk, git, journal>> /\ pc' = "idle"
        /\ orphans \subseteq orphans'
        /\ pc = "replaying" => Present \in orphans'
    BY <1>12 DEF Killed, Exit
  <2>2. Vouched \subseteq Vouched'
    BY <2>1, VouchedStays
  <2>3. pc = "replaying" => Present \in Vouched'
    <3>1. pc = "replaying" => Present \in Mutation
      BY PresentTyped DEF Testing
    <3> QED
      BY <2>1, <3>1 DEF Vouched
  <2>4. \A f \in Files : git'[f] \subseteq Vouched' /\ disk'[f] \subseteq Vouched'
    BY <2>1, <2>2, <2>3 DEF Vouching
  <2> QED
    BY <2>1, <2>4 DEF Vouching
<1>13. ASSUME NEW e \in Files, UserEdits(e)
       PROVE  Vouching'
  <2>1. [edit |-> edits'] \in Edit
    BY <1>13, RalphAssumption DEF UserEdits, TypeOK, Edit
  <2>2. \A f \in Files : disk'[f] \subseteq disk[f] \cup Edit
    BY <1>13, <2>1 DEF UserEdits, TypeOK
  <2> QED
    BY <1>6, <1>13, <2>2 DEF UserEdits
<1>14. ASSUME NEW s \in Sessions, GoldenAdd(s) \/ GoldenGenerate(s)
       PROVE  Vouching'
  BY <1>6, <1>14 DEF GoldenAdd, GoldenGenerate, AddGoldenTrace
<1>15. CASE UNCHANGED vars
  BY <1>6, <1>15 DEF vars
<1> QED
  BY <1>2, <1>3, <1>4, <1>5, <1>7, <1>8, <1>9, <1>10, <1>11, <1>12, <1>13, <1>14, <1>15
  DEF Next, Regresses, Fails

\* What a persona's file holds, on the disk or committed, is journalled as
\* accepted after as many replays as are required, of sessions that are fit to
\* be goldens, is under test, or was under test when a run was killed, with
\* the user editing the same files, other commands changing the registry and
\* the journal refusing entries (ralph-loop.ts's verifyMutation and its catch,
\* replay.ts's validateGoldenTrace).
THEOREM KeepsVerified == Spec => []FilesAreVerified
<1>1. Init => TypeOK /\ Testing /\ Covering /\ Vouching
  BY InitTyped, InitCovering, InitVouching DEF Init, Testing
<1>2. (TypeOK /\ Testing /\ Covering /\ Vouching) /\ [Next]_vars =>
        (TypeOK /\ Testing /\ Covering /\ Vouching)'
  BY NextTyped, NextCovering, NextVouching
<1>3. Vouching => FilesAreVerified
  BY DEF Vouching, Vouched, FilesAreVerified, UnderTest
<1> QED
  BY <1>1, <1>2, <1>3, PTL DEF Spec

-----------------------------------------------------------------------------
(* What becomes of an accepted change.                                     *)

\* A mutation that does not overwrite leaves what it found in the file.
Adding == pc = "replaying" /\ ~Overwrites(Present.shape) => before \subseteq disk[File]

LEMMA InitAdding == Init => Adding
  BY DEF Init, Adding

LEMMA NextAdding == TypeOK /\ Testing /\ Adding /\ [Next]_vars => Adding'
<1> SUFFICES ASSUME TypeOK, Testing, Adding, [Next]_vars PROVE Adding'
  OBVIOUS
<1> USE DEF run, test, files, others
<1>1. ASSUME pc' # "replaying" PROVE Adding'
  BY <1>1 DEF Adding
<1>2. ASSUME UNCHANGED <<pc, todo, before>>, \A f \in Files : disk[f] \subseteq disk'[f]
      PROVE  Adding'
  <2>1. Present' = Present /\ File' = File
    BY <1>2 DEF Present, File
  <2> QED
    BY <1>2, <2>1 DEF Adding, Testing
<1>3. CASE Try
  <2>1. /\ File \in Files /\ before' = disk[File] /\ disk'[File] = Applied(disk[File])
        /\ Present' = Present /\ File' = File
    BY <1>3 DEF Try, Snapshot, TypeOK, Present, File
  <2>2. ~Overwrites(Present.shape) => disk[File] \subseteq Applied(disk[File])
    BY DEF Applied
  <2> QED
    BY <2>1, <2>2 DEF Adding
<1>4. ASSUME NEW e \in Files, UserEdits(e)
      PROVE  Adding'
  BY <1>2, <1>4 DEF UserEdits, TypeOK
<1>5. ASSUME NEW s \in Sessions, Replayed(s) \/ GoldenAdd(s) \/ GoldenGenerate(s)
      PROVE  Adding'
  BY <1>2, <1>5 DEF Replayed, GoldenAdd, GoldenGenerate, AddGoldenTrace
<1>6. CASE UNCHANGED vars
  BY <1>2, <1>6 DEF vars
<1>7. ASSUME Propose \/ Suggest \/ Refuse \/ Reject \/ Accept \/ Finish \/ Commit \/ Killed
      PROVE  pc' # "replaying"
  BY <1>7 DEF Propose, Suggest, Refuse, Reject, Accept, Finish, Commit, Killed, Exit
<1> QED
  BY <1>1, <1>3, <1>4, <1>5, <1>6, <1>7 DEF Next, Regresses, Fails

\* Where a change that a file holds may go.
Goes(f) ==
  /\ pc = "replaying" /\ f = File /\ Overwrites(Present.shape)
  /\ Present \in orphans' \/ \E e \in journal' : e.mutation = Present

LEMMA StepKeeps ==
  ASSUME TypeOK, Testing, Adding, [Next]_vars, NEW f \in Files, NEW m \in Held(f)
  PROVE  m \in Held(f)' \/ Goes(f)
<1> USE DEF run, test, files, others
<1>1. ASSUME pc = "replaying", disk' = Restored, pc' # "replaying"
      PROVE  m \in Held(f)'
  BY <1>1 DEF Held, Restored, Testing, TypeOK
<1>2. ASSUME UNCHANGED <<pc, todo, before>>, \A g \in Files : disk[g] \subseteq disk'[g]
      PROVE  m \in Held(f)'
  <2>1. File' = File
    BY <1>2 DEF Present, File
  <2> QED
    BY <1>2, <2>1 DEF Held
<1>3. ASSUME disk' = disk, pc # "replaying", pc' # "replaying"
      PROVE  m \in Held(f)'
  BY <1>3 DEF Held
<1>4. ASSUME disk' = disk, pc' # "replaying",
             pc = "replaying" => Present \in orphans' \/ \E e \in journal' : e.mutation = Present
      PROVE  m \in Held(f)' \/ Goes(f)
  BY <1>4 DEF Held, Goes, Adding
<1>5. CASE Try
  <2>1. /\ File \in Files /\ before' = disk[File] /\ File' = File
        /\ pc = "next" /\ \A g \in Files \ {File} : disk'[g] = disk[g]
    BY <1>5 DEF Try, Snapshot, TypeOK, Present, File
  <2> QED
    BY <1>5, <2>1 DEF Held, Try
<1>6. CASE Reject
  <2>1. pc' # "replaying"
    BY <1>6 DEF Reject, Exit
  <2> QED
    BY <1>1, <1>6, <2>1 DEF Reject
<1>7. CASE Accept
  <2>1. CASE mode = "try"
    BY <1>1, <1>7, <2>1 DEF Accept, Kept
  <2>2. CASE mode # "try"
    <3>1. [mutation |-> Present, tested |-> tested] \in journal'
      BY <1>7, <2>2 DEF Accept, Journals
    <3> QED
      BY <1>4, <1>7, <2>2, <3>1 DEF Accept, Kept
  <2> QED
    BY <2>1, <2>2
<1>8. CASE Killed
  BY <1>4, <1>8 DEF Killed, Exit
<1>9. CASE Propose \/ Suggest \/ Refuse \/ Finish \/ Commit
  <2>1. disk' = disk /\ pc # "replaying" /\ pc' # "replaying"
    BY <1>9 DEF Propose, Suggest, Refuse, Finish, Commit, Exit
  <2> QED
    BY <1>3, <2>1
<1>10. ASSUME NEW s \in Sessions, Replayed(s) \/ GoldenAdd(s) \/ GoldenGenerate(s)
       PROVE  m \in Held(f)'
  BY <1>2, <1>10 DEF Replayed, GoldenAdd, GoldenGenerate, AddGoldenTrace
<1>11. ASSUME NEW e \in Files, UserEdits(e)
       PROVE  m \in Held(f)'
  BY <1>2, <1>11 DEF UserEdits, TypeOK
<1>12. CASE UNCHANGED vars
  BY <1>2, <1>12 DEF vars
<1> QED
  BY <1>5, <1>6, <1>7, <1>8, <1>9, <1>10, <1>11, <1>12 DEF Next, Regresses, Fails

\* An accepted change leaves its file only when a later mutation overwrites it
\* and is itself accepted, or was under test when the run was killed; never
\* with a rejection, a trial, a refused entry or an edit (the snapshot that
\* ralph-loop.ts takes of the file before each mutation).
THEOREM RatchetHolds == Spec => AcceptedStays
<1>1. Init => TypeOK /\ Testing /\ Adding
  BY InitTyped, InitAdding DEF Init, Testing
<1>2. (TypeOK /\ Testing /\ Adding) /\ [Next]_vars => (TypeOK /\ Testing /\ Adding)'
  BY NextTyped, NextAdding
<1>3. TypeOK /\ Testing /\ Adding /\ [Next]_vars =>
        [\A f \in Files : \A m \in Held(f) \ Edit : Accepted(m) =>
           \/ m \in Held(f)'
           \/ /\ pc = "replaying" /\ f = File /\ Overwrites(Present.shape)
              /\ Present \in orphans' \/ \E e \in journal' : e.mutation = Present]_vars
  BY StepKeeps DEF Goes
<1> QED
  BY <1>1, <1>2, <1>3, PTL DEF Spec, AcceptedStays
=============================================================================
