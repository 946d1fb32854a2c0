-------------------------- MODULE SharedBrokerProofs --------------------------
(***************************************************************************)
(* Proofs about SharedBroker for every set of operations and of sessions,  *)
(* parted into processes in any way; the last four theorems are about one  *)
(* process, with any number of calls.                                      *)
(***************************************************************************)
EXTENDS SharedBroker, TLAPS

\* A call that is under way has an operation, and what it saves is a status.
CallsInv ==
    /\ \A s \in Session : pc[s] # "idle" => op[s] \in Op
    /\ \A s \in Session : pc[s] \in Saving \cup {"torn"} => next[s] \in Status
    /\ \A s \in Session : pc[s] \in {"idle", "executing"} => next[s] = None

\* "committed" starts as the answer of MYOB, and wherever it is copied to, the
\* operation stays posted.
PostedInv ==
    /\ \A o \in Op : file[o] = "committed" => o \in posted
    /\ \A s \in Session, o \in Op : image[s][o] = "committed" => o \in posted
    /\ \A s \in Session : next[s] = "committed" => op[s] \in posted

\* Only an id that was minted is in the file, in an image or in a call.
MintedInv ==
    /\ \A o \in Op : file[o] # "absent" => o \in minted
    /\ \A s \in Session, o \in Op : image[s][o] # "absent" => o \in minted
    /\ \A s \in Session : pc[s] # "idle" => op[s] \in minted
    /\ settled \subseteq minted

BrokerInv == TypeOK /\ CallsInv /\ PostedInv /\ MintedInv

-----------------------------------------------------------------------------
Outcomes == {"committed", "failed"}

\* Whether a call that found an operation in one status may save it with another.
MayFollow(from, to) ==
    /\ to # "absent"
    /\ to = "pending" => from = "absent"
    /\ to = "approved" => from = "pending"
    /\ to \in {"denied", "expired"} => from \in {"pending", "approved"}

\* At most one call saves, at most one write was torn, and the file is unreadable
\* just while that write is under way or has been torn.
AloneInv ==
    /\ \A r, s \in Session : pc[r] \in Saving /\ pc[s] \in Saving => r = s
    /\ \A r, s \in Session : pc[r] \in {"writing", "torn"} /\ pc[s] \in {"writing", "torn"} => r = s
    /\ \A s \in Session : pc[s] = "writing" => form = "empty"
    /\ \A s \in Session : pc[s] = "torn" => form # "whole"
    /\ \A s \in Session : pc[s] \in {"truncating", "finishing"} => form = "whole"
    /\ form # "whole" => \E s \in Session : pc[s] \in {"writing", "torn"}

\* What the one call that saves has read is still so when it writes.
SavesInv ==
    /\ \A s \in Session : pc[s] \in {"saving", "truncating"} => MayFollow(file[op[s]], next[s])
    /\ \A s \in Session : pc[s] = "truncating" => image[s] = [file EXCEPT ![op[s]] = next[s]]
    /\ \A s \in Session : pc[s] = "writing" => image[s][op[s]] = next[s]
    /\ \A s \in Session : pc[s] = "finishing" => file[op[s]] = next[s]

\* An operation whose outcome was returned keeps an outcome.
SettledInv ==
    /\ form = "whole" => \A o \in settled : file[o] \in Outcomes
    /\ \A s \in Session : pc[s] = "writing" => \A o \in settled : image[s][o] \in Outcomes

OneProcessInv == OneProcess => AloneInv /\ SavesInv /\ SettledInv

-----------------------------------------------------------------------------
(* Any number of processes.                                                *)

\* Every step keeps the types, the operations under way known and committed
\* operations posted.
LEMMA BrokerStep == BrokerInv /\ [Next]_vars => BrokerInv'
<1> SUFFICES ASSUME BrokerInv, [Next]_vars PROVE BrokerInv'
  OBVIOUS
<1> USE DEF BrokerInv, TypeOK, CallsInv, PostedInv, MintedInv
<1>1. UNCHANGED processes
  BY DEF Next, vars
\* A call that has found what it needs goes on to save.
<1>2. ASSUME NEW s \in Session, NEW o \in Op, NEW status \in Status,
             Save(s, o, status), pc[s] \in {"idle", "executing"},
             status = "committed" => o \in posted, o \in minted',
             minted' \in {minted, minted \cup {o}},
             UNCHANGED <<file, form, lapsed, tokens, posted, settled, image>>
      PROVE  BrokerInv'
  BY <1>1, <1>2 DEF Save, Step, Saving
<1>3. ASSUME NEW s \in Session, NEW o \in Op,
             \/ Prepare(s, o) \/ Approve(s, o) \/ Deny(s, o) \/ CommitExpired(s, o)
      PROVE  BrokerInv'
  <2>1. /\ pc[s] = "idle" /\ o \in minted' /\ minted' \in {minted, minted \cup {o}}
        /\ UNCHANGED <<file, form, lapsed, tokens, posted, settled, image>>
    BY <1>3 DEF Prepare, Approve, Deny, CommitExpired, Starts
  <2>2. \E status \in Status \ {"committed"} : Save(s, o, status)
    BY <1>3 DEF Prepare, Approve, Deny, CommitExpired, Status
  <2> QED
    BY <1>2, <2>1, <2>2
<1>4. ASSUME NEW s \in Session, NEW o \in Op, CommitBegin(s, o) PROVE BrokerInv'
  BY <1>1, <1>4 DEF CommitBegin, Starts, Step, Saving, None
<1>5. ASSUME NEW s \in Session, NEW outcome \in {"committed", "failed"}, CommitReturns(s, outcome)
      PROVE  BrokerInv'
  <2>1. op[s] \in Op /\ op[s] \in minted /\ outcome \in Status
    BY <1>5 DEF CommitReturns, Status
  <2> QED
    BY <1>2, <1>5, <2>1 DEF CommitReturns
\* A call ends.
<1>6. ASSUME NEW s \in Session, Ends(s), UNCHANGED <<file, form, minted, lapsed, posted>>,
             tokens' \subseteq Op, settled' \subseteq settled \cup ({op[s]} \cap Op),
             pc[s] # "idle"
      PROVE  BrokerInv'
  <2>1. NoFile \in [Op -> Status] /\ \A o \in Op : NoFile[o] = "absent"
    BY DEF NoFile, Status
  <2> QED
    BY <1>1, <1>6, <2>1 DEF Ends, Step, Saving, None
<1>7. ASSUME NEW s \in Session, CommitAbandoned(s) \/ SaveRaises(s) \/ Mended(s)
      PROVE  BrokerInv'
  BY <1>6, <1>7 DEF CommitAbandoned, SaveRaises, Mended
<1>8. ASSUME NEW s \in Session, Finishes(s) PROVE BrokerInv'
  <2>1. op[s] \in Op
    BY <1>8 DEF Finishes
  <2> QED
    BY <1>6, <1>8, <2>1 DEF Finishes
<1>9. ASSUME NEW s \in Session, SaveReads(s) PROVE BrokerInv'
  <2>1. op[s] \in Op /\ next[s] \in Status /\ op[s] \in minted
    BY <1>9 DEF SaveReads, Saving
  <2>2. [file EXCEPT ![op[s]] = next[s]] \in [Op -> Status]
    BY <2>1
  <2>3. /\ pc' = [pc EXCEPT ![s] = "truncating"]
        /\ image' = [image EXCEPT ![s] = [file EXCEPT ![op[s]] = next[s]]]
        /\ UNCHANGED <<file, form, minted, lapsed, tokens, posted, settled, op, next>>
        /\ pc[s] = "saving"
    BY <1>9 DEF SaveReads
  <2>4. TypeOK' /\ CallsInv'
    BY <1>1, <2>2, <2>3 DEF Step, Saving
  <2>5. PostedInv' /\ MintedInv'
    BY <2>1, <2>2, <2>3
  <2> QED
    BY <2>4, <2>5
<1>10. ASSUME NEW s \in Session, Truncates(s) \/ Writes(s) \/ WriteFails(s) PROVE BrokerInv'
  <2>1. /\ file' \in {NoFile, file, image[s]}
        /\ form' \in Form
        /\ \E place \in {"writing", "finishing", "torn"} : pc' = [pc EXCEPT ![s] = place]
        /\ pc[s] \in {"truncating", "writing"}
        /\ UNCHANGED <<minted, lapsed, tokens, posted, settled, op, next, image>>
    BY <1>10 DEF Truncates, Writes, WriteFails, Form
  <2>2. /\ file' \in [Op -> Status]
        /\ \A o \in Op : file'[o] # "absent" => o \in minted
        /\ \A o \in Op : file'[o] = "committed" => o \in posted
    BY <2>1 DEF NoFile, Status
  <2> QED
    BY <1>1, <2>1, <2>2 DEF Step, Saving
<1>11. ASSUME NEW s \in Session, MyobPosts(s) PROVE BrokerInv'
  BY <1>1, <1>11 DEF MyobPosts
<1>12. ASSUME NEW o \in Op, Lapse(o) PROVE BrokerInv'
  BY <1>1, <1>12 DEF Lapse
<1>13. ASSUME NEW p \in processes, Crash(p) PROVE BrokerInv'
  <2> DEFINE ends == {s \in p : pc[s] \notin {"writing", "torn"}}
             tears == {s \in p : pc[s] = "writing"}
  <2>1. /\ pc' = [s \in Session |-> IF s \in tears THEN "torn"
                                    ELSE IF s \in ends THEN "idle" ELSE pc[s]]
        /\ op' = [s \in Session |-> IF s \in ends THEN None ELSE op[s]]
        /\ next' = [s \in Session |-> IF s \in ends THEN None ELSE next[s]]
        /\ image' = [s \in Session |-> IF s \in ends THEN NoFile ELSE image[s]]
        /\ UNCHANGED <<file, form, minted, lapsed, tokens, posted, settled>>
    BY <1>13 DEF Crash
  <2>2. NoFile \in [Op -> Status] /\ \A o \in Op : NoFile[o] = "absent"
    BY DEF NoFile, Status
  <2>3. \A s \in tears : s \notin ends
    OBVIOUS
  <2>4. \A s \in Session : pc[s] = "torn" => s \notin ends
    OBVIOUS
  <2> HIDE DEF ends
  <2>5. TypeOK'
    BY <1>1, <2>1, <2>2 DEF Step
  <2>6. CallsInv'
    BY <2>1, <2>3 DEF Saving
  <2>7. PostedInv'
    BY <2>1, <2>2 DEF None
  <2>8. MintedInv'
    BY <2>1, <2>2, <2>3
  <2> QED
    BY <2>5, <2>6, <2>7, <2>8
<1>14. ASSUME \/ \E s \in Session : CallRaises(s)
              \/ UNCHANGED vars
       PROVE  BrokerInv'
  BY <1>1, <1>14 DEF CallRaises, vars
<1> QED
  BY <1>3, <1>4, <1>5, <1>7, <1>8, <1>9, <1>10, <1>11, <1>12, <1>13, <1>14
    DEF Next, Begins, Completes

\* The invariant of any number of processes.
THEOREM BrokerInvariant == Spec => []BrokerInv
<1>1. Init => BrokerInv
  <2> SUFFICES ASSUME Init PROVE BrokerInv
    OBVIOUS
  <2>1. NoFile \in [Op -> Status] /\ \A o \in Op : NoFile[o] = "absent"
    BY DEF NoFile, Status
  <2>2. TypeOK
    BY <2>1, PartitionsOfSessions DEF Init, TypeOK, Form, Step
  <2>3. CallsInv /\ PostedInv /\ MintedInv
    BY <2>1 DEF Init, CallsInv, PostedInv, MintedInv, Saving, None
  <2> QED
    BY <2>2, <2>3 DEF BrokerInv
<1> QED
  BY <1>1, BrokerStep, PTL DEF Spec

\* Every variable stays in its range.
THEOREM TypeCorrect == Spec => []TypeOK
<1>1. BrokerInv => TypeOK
  BY DEF BrokerInv
<1> QED
  BY <1>1, BrokerInvariant, PTL

\* However many processes write back each other's old images, "committed" is
\* never in the file, nor about to be, before MYOB applied the operation.
THEOREM CommittedIsPosted == Spec => []CommittedMeansPosted
<1>1. BrokerInv => CommittedMeansPosted
  BY DEF BrokerInv, PostedInv, CommittedMeansPosted
<1> QED
  BY <1>1, BrokerInvariant, PTL

-----------------------------------------------------------------------------
(* One process.                                                            *)

\* One process starts to save only while none of its calls saves.
LEMMA FreeAlone ==
    ASSUME OneProcess, NEW s \in Session, Free(s)
    PROVE  \A r \in Session : pc[r] \notin Saving
BY DEF OneProcess, Free

\* No step changes the file under the one call of the process that saves.
LEMMA OneProcessStep == BrokerInv /\ OneProcessInv /\ [Next]_vars => OneProcessInv'
<1> SUFFICES ASSUME BrokerInv, OneProcessInv, [Next]_vars, OneProcess
             PROVE  (AloneInv /\ SavesInv /\ SettledInv)'
  BY DEF OneProcessInv, OneProcess, Next, vars
<1> USE DEF AloneInv, SavesInv, SettledInv
<1>0. TypeOK /\ CallsInv /\ MintedInv
  BY DEF BrokerInv
<1>1. AloneInv /\ SavesInv /\ SettledInv
  BY DEF OneProcessInv
\* A call that has found what it needs goes on to save.
<1>2. ASSUME NEW s \in Session, NEW o \in Op, NEW status \in Status,
             Save(s, o, status), Free(s), pc[s] \in {"idle", "executing"},
             MayFollow(file[o], status),
             UNCHANGED <<file, form, settled, image>>
      PROVE  (AloneInv /\ SavesInv /\ SettledInv)'
  <2>1. \A r \in Session : pc[r] \notin Saving
    BY <1>2, FreeAlone
  <2> QED
    BY <1>0, <1>1, <1>2, <2>1 DEF Save, Saving, TypeOK
<1>3. ASSUME NEW s \in Session, NEW o \in Op,
             \/ Prepare(s, o) \/ Approve(s, o) \/ Deny(s, o) \/ CommitExpired(s, o)
      PROVE  (AloneInv /\ SavesInv /\ SettledInv)'
  <2>1. /\ pc[s] = "idle" /\ Free(s)
        /\ UNCHANGED <<file, form, settled, image>>
    BY <1>3 DEF Prepare, Approve, Deny, CommitExpired, Starts
  <2>2. \E status \in Status : Save(s, o, status) /\ MayFollow(file[o], status)
    BY <1>0, <1>3 DEF Prepare, Approve, Deny, CommitExpired, Status, MayFollow, MintedInv
  <2> QED
    BY <1>2, <2>1, <2>2
<1>4. ASSUME NEW s \in Session, NEW o \in Op, CommitBegin(s, o)
      PROVE  (AloneInv /\ SavesInv /\ SettledInv)'
  BY <1>0, <1>1, <1>4 DEF CommitBegin, Starts, Saving, TypeOK
<1>5. ASSUME NEW s \in Session, NEW outcome \in Outcomes, CommitReturns(s, outcome)
      PROVE  (AloneInv /\ SavesInv /\ SettledInv)'
  <2>1. op[s] \in Op /\ outcome \in Status /\ MayFollow(file[op[s]], outcome)
    BY <1>0, <1>5 DEF CommitReturns, Status, CallsInv, Outcomes, MayFollow
  <2> QED
    BY <1>2, <1>5, <2>1 DEF CommitReturns
<1>6. ASSUME NEW s \in Session, Ends(s), pc[s] \in {"executing", "saving", "truncating"},
             UNCHANGED <<file, form, settled>>
      PROVE  (AloneInv /\ SavesInv /\ SettledInv)'
  BY <1>0, <1>1, <1>6 DEF Ends, Saving, TypeOK
<1>7. ASSUME NEW s \in Session, CommitAbandoned(s) \/ SaveRaises(s)
      PROVE  (AloneInv /\ SavesInv /\ SettledInv)'
  BY <1>6, <1>7 DEF CommitAbandoned, SaveRaises
<1>8. ASSUME NEW s \in Session, Finishes(s)
      PROVE  (AloneInv /\ SavesInv /\ SettledInv)'
  <2>1. /\ pc[s] = "finishing" /\ Ends(s) /\ UNCHANGED <<file, form>>
        /\ settled' = IF next[s] \in Outcomes THEN settled \cup {op[s]} ELSE settled
    BY <1>8 DEF Finishes, Outcomes
  <2>2. \A r \in Session : pc'[r] \notin Saving
    BY <1>0, <1>1, <2>1 DEF Ends, Saving, TypeOK
  <2>3. AloneInv' /\ SavesInv'
    BY <1>0, <1>1, <2>1, <2>2 DEF Ends, Saving, TypeOK
  <2>4. SettledInv'
    BY <1>1, <2>1, <2>2 DEF Saving
  <2> QED
    BY <2>3, <2>4
<1>9. ASSUME NEW s \in Session, SaveReads(s)
      PROVE  (AloneInv /\ SavesInv /\ SettledInv)'
  BY <1>0, <1>1, <1>9 DEF SaveReads, Readable, Saving, TypeOK
<1>10. ASSUME NEW s \in Session, Truncates(s)
       PROVE  (AloneInv /\ SavesInv /\ SettledInv)'
  <2>1. /\ pc[s] = "truncating" /\ pc' = [pc EXCEPT ![s] = "writing"]
        /\ form' = "empty" /\ UNCHANGED <<settled, op, next, image>>
    BY <1>10 DEF Truncates
  <2>2. form = "whole" /\ \A r \in Session : pc[r] \notin {"writing", "torn"}
    BY <1>1, <2>1
  <2>3. op[s] \in Op /\ MayFollow(file[op[s]], next[s]) /\ next[s] \in Status
    BY <1>0, <1>1, <2>1 DEF CallsInv, Saving
  <2>4. image[s] = [file EXCEPT ![op[s]] = next[s]]
    BY <1>1, <2>1
  <2>5. \A r \in Session : r # s => pc'[r] = pc[r] /\ pc[r] \notin Saving
    BY <1>0, <1>1, <2>1 DEF Saving, TypeOK
  <2>6. pc'[s] = "writing"
    BY <1>0, <2>1 DEF TypeOK
  <2>7. AloneInv'
    BY <2>1, <2>2, <2>5, <2>6 DEF Saving
  <2>8. SavesInv'
    BY <1>0, <2>1, <2>3, <2>4, <2>5, <2>6 DEF Saving, TypeOK
  <2>9. \A o \in settled : image[s][o] \in Outcomes
    BY <1>0, <1>1, <2>2, <2>3, <2>4 DEF TypeOK, MayFollow, Outcomes, Status
  <2>10. SettledInv'
    BY <2>1, <2>5, <2>6, <2>9 DEF Saving
  <2> QED
    BY <2>7, <2>8, <2>10
<1>11. ASSUME NEW s \in Session, Writes(s)
       PROVE  (AloneInv /\ SavesInv /\ SettledInv)'
  <2>1. pc[s] = "writing" /\ form = "empty"
    BY <1>1, <1>11 DEF Writes
  <2>2. /\ pc' = [pc EXCEPT ![s] = "finishing"]
        /\ file' = image[s] /\ form' = "whole"
        /\ UNCHANGED <<settled, op, next, image>>
    BY <1>11, <2>1 DEF Writes
  <2>3. /\ pc'[s] = "finishing"
        /\ \A r \in Session : r # s => pc'[r] = pc[r] /\ pc[r] \notin Saving \cup {"torn"}
    BY <1>0, <1>1, <2>1, <2>2 DEF Saving, TypeOK
  <2> QED
    BY <1>1, <2>1, <2>2, <2>3 DEF Saving
<1>12. ASSUME NEW p \in processes, Crash(p)
       PROVE  (AloneInv /\ SavesInv /\ SettledInv)'
  <2>1. p = Session
    BY DEF OneProcess
  <2>2. /\ UNCHANGED <<file, form, settled>>
        /\ \A r \in Session : pc'[r] = IF pc[r] \in {"writing", "torn"} THEN "torn" ELSE "idle"
    BY <1>12, <2>1 DEF Crash
  <2> QED
    BY <1>1, <2>2 DEF Saving
<1>13. ASSUME \/ \E s \in Session : MyobPosts(s) \/ CallRaises(s)
              \/ \E o \in Op : Lapse(o)
              \/ UNCHANGED vars
       PROVE  (AloneInv /\ SavesInv /\ SettledInv)'
  BY <1>1, <1>13 DEF MyobPosts, CallRaises, Lapse, vars
\* A write that fails is torn; nothing mends it while there is but one process.
<1>14. ASSUME NEW s \in Session, WriteFails(s)
       PROVE  (AloneInv /\ SavesInv /\ SettledInv)'
  <2>1. /\ pc[s] = "writing" /\ form = "empty" /\ form' \in {"empty", "garbled"}
        /\ pc' = [pc EXCEPT ![s] = "torn"]
        /\ UNCHANGED <<settled, op, next, image>>
    BY <1>1, <1>14 DEF WriteFails
  <2>2. /\ pc'[s] = "torn"
        /\ \A r \in Session : r # s => pc'[r] = pc[r] /\ pc[r] \notin Saving \cup {"torn"}
    BY <1>0, <1>1, <2>1 DEF Saving, TypeOK
  <2> QED
    BY <2>1, <2>2 DEF Saving
<1>15. ASSUME NEW s \in Session, Mended(s) PROVE FALSE
  BY <1>1, <1>15 DEF Mended, Readable
<1> QED
  BY <1>3, <1>4, <1>5, <1>7, <1>8, <1>9, <1>10, <1>11, <1>12, <1>13, <1>14, <1>15
    DEF Next, Begins, Completes, Outcomes

\* The invariant of one process, whatever its calls do and whenever it is killed.
THEOREM OneProcessInvariant == Spec => []OneProcessInv
<1>1. Init => OneProcessInv
  BY DEF Init, OneProcessInv, AloneInv, SavesInv, SettledInv, Saving
<1> QED
  BY <1>1, OneProcessStep, BrokerInvariant, PTL DEF Spec

\* One process alone meets an unparsable store only if a save was killed, or
\* failed, between emptying the file and filling it.
THEOREM UnreadableIfTorn == Spec => []UnreadableOnlyIfTorn
<1>1. OneProcessInv => UnreadableOnlyIfTorn
  <2> SUFFICES ASSUME OneProcessInv, OneProcess, ~Readable, NEW s \in Session,
                      pc[s] = "saving" \/ (pc[s] = "idle" /\ Free(s))
               PROVE  \E r \in Session : pc[r] = "torn"
    BY DEF UnreadableOnlyIfTorn
  <2>1. PICK r \in Session : pc[r] \in {"writing", "torn"}
    BY DEF OneProcessInv, AloneInv, Readable
  <2>2. pc[r] # "writing"
    BY FreeAlone DEF OneProcessInv, AloneInv, Saving
  <2> QED
    BY <2>1, <2>2
<1> QED
  BY <1>1, OneProcessInvariant, PTL

\* One process lets no commit through once a commit call has returned: what it
\* returned is still in the file, and it is an outcome.
THEOREM CommitsOnce == Spec => OneProcessCommitsOnce
<1>1. BrokerInv /\ OneProcessInv /\ [Next]_vars => [OneProcess => CommitOnlyIfUnsettled]_vars
  <2> SUFFICES ASSUME BrokerInv, OneProcessInv, Next, OneProcess,
                      NEW s \in Session, pc[s] # "executing", pc'[s] = "executing"
               PROVE  op'[s] \notin settled
    BY DEF CommitOnlyIfUnsettled
  <2>1. TypeOK /\ SettledInv
    BY DEF BrokerInv, OneProcessInv
  \* No other step makes a call wait for MYOB.
  <2>2. \E o \in Op : CommitBegin(s, o)
    <3> USE DEF TypeOK
    <3>1. ASSUME NEW r \in Session, Begins(r), \A o \in Op : ~CommitBegin(r, o)
          PROVE  pc'[s] # "executing"
      BY <2>1, <3>1 DEF Begins, Prepare, Approve, Deny, CommitExpired, CallRaises, Save
    <3>2. ASSUME NEW r \in Session, Completes(r) PROVE pc'[s] # "executing"
      BY <2>1, <3>2 DEF Completes, CommitReturns, CommitAbandoned, SaveReads, SaveRaises,
                        Truncates, Writes, WriteFails, Mended, Finishes, Save, Ends
    <3>3. ASSUME NEW p \in processes, Crash(p) PROVE pc'[s] # "executing"
      BY <3>3 DEF Crash
    <3>4. ASSUME \/ \E r \in Session : MyobPosts(r)
                 \/ \E o \in Op : Lapse(o)
          PROVE  pc'[s] # "executing"
      BY <3>4 DEF MyobPosts, Lapse
    <3>5. PICK r \in Session : \E o \in Op : CommitBegin(r, o)
      BY <3>1, <3>2, <3>3, <3>4 DEF Next
    <3>6. r = s
      BY <2>1, <3>5 DEF CommitBegin
    <3> QED
      BY <3>5, <3>6
  <2>3. PICK o \in Op : CommitBegin(s, o)
    BY <2>2
  <2>4. op'[s] = o /\ form = "whole" /\ file[o] = "approved"
    BY <2>1, <2>3 DEF CommitBegin, Starts, Readable, TypeOK
  <2> QED
    BY <2>1, <2>4 DEF SettledInv, Outcomes
<1> QED
  BY <1>1, BrokerInvariant, OneProcessInvariant, PTL DEF Spec, OneProcessCommitsOnce

-----------------------------------------------------------------------------
(* One process implements OperationLifecycle.                              *)

Writers == {s \in Session : pc[s] \in {"writing", "torn"}}

\* What a reader would find: the file, or the image that is being written.
LEMMA ViewOfFile ==
    ASSUME AloneInv
    PROVE  /\ form = "whole" => StatusView = [o \in Op |-> file[o]]
           /\ \A r \in Writers : StatusView = [o \in Op |-> image[r][o]]
<1>1. form = "whole" => StatusView = [o \in Op |-> file[o]]
  BY DEF StatusView
<1>2. ASSUME NEW s \in Writers PROVE StatusView = [o \in Op |-> image[s][o]]
  <2>1. form # "whole"
    BY <1>2 DEF AloneInv, Writers
  <2>2. \A r \in Writers : r = s
    BY <1>2 DEF AloneInv, Writers
  <2>3. (CHOOSE r \in Writers : TRUE) = s
    BY <1>2, <2>2
  <2> QED
    BY <2>1, <2>3 DEF StatusView, Writers
<1> QED
  BY <1>1, <1>2

\* A step that leaves the file alone, and whoever is writing it, shows nothing.
LEMMA ViewStays ==
    ASSUME UNCHANGED <<file, form>>, Writers' = Writers,
           \A s \in Writers : image'[s] = image[s]
    PROVE  StatusView' = StatusView
<1>1. Writers # {} => (CHOOSE s \in Writers : TRUE) \in Writers
  OBVIOUS
<1>2. StatusView = [o \in Op |-> IF form = "whole" \/ Writers = {} THEN file[o]
                                 ELSE image[CHOOSE s \in Writers : TRUE][o]]
  BY DEF StatusView, Writers
<1>3. StatusView' = [o \in Op |-> IF form' = "whole" \/ Writers' = {} THEN file'[o]
                                  ELSE image'[CHOOSE s \in Writers' : TRUE][o]]
  BY DEF StatusView, Writers
<1> HIDE DEF Writers
<1> QED
  BY <1>1, <1>2, <1>3

InFlight(s) ==
    \/ pc[s] = "executing"
    \/ pc[s] \in {"saving", "truncating"} /\ next[s] \in {"committed", "failed"}

\* The commit calls of an operation that are in flight, by name.
LEMMA InFlightOf == InFlightView = [o \in Op |-> {s \in Session : op[s] = o /\ InFlight(s)}]
BY DEF InFlightView, InFlight

\* A step after which fewer calls are in flight and nothing else has changed is
\* one the lifecycle allows.
LEMMA FewerInFlight ==
    ASSUME StatusView' = StatusView,
           \A s \in Session : InFlight(s)' => InFlight(s) /\ op'[s] = op[s]
    PROVE  Lifecycle!Abandon
<1>1. InFlightView' = [o \in Op |-> {s \in Session : op'[s] = o /\ InFlight(s)'}]
  BY DEF InFlightView, InFlight
<1>2. /\ InFlightView' \in [Op -> SUBSET Session]
      /\ \A o \in Op : InFlightView'[o] \subseteq InFlightView[o]
  BY <1>1, InFlightOf
<1> QED
  BY <1>2 DEF Lifecycle!Abandon, StatusView, InFlightView

\* The one step at which a save decides: the file is emptied.
LEMMA TruncatesMoves ==
    ASSUME BrokerInv, AloneInv, SavesInv, AloneInv', NEW s \in Session, Truncates(s)
    PROVE  Lifecycle!Next
<1>1. /\ pc[s] = "truncating" /\ pc' = [pc EXCEPT ![s] = "writing"]
      /\ UNCHANGED <<op, next, image>>
  BY DEF Truncates
<1>2. /\ op[s] \in Op /\ next[s] \in Status /\ MayFollow(file[op[s]], next[s])
      /\ form = "whole" /\ image[s] = [file EXCEPT ![op[s]] = next[s]]
      /\ file \in [Op -> Status] /\ pc \in [Session -> Step]
  BY <1>1 DEF BrokerInv, TypeOK, CallsInv, Saving, AloneInv, SavesInv
<1>3. StatusView = [o \in Op |-> file[o]]
  BY <1>2, ViewOfFile
<1>4. StatusView' = [o \in Op |-> image'[s][o]]
  <2>1. s \in Writers'
    BY <1>1, <1>2 DEF Writers
  <2>2. AloneInv'
    OBVIOUS
  <2>3. (\A r \in Writers : StatusView = [o \in Op |-> image[r][o]])'
    BY <2>2, ViewOfFile, PTL
  <2> QED
    BY <2>1, <2>3
<1>5. /\ StatusView' = [StatusView EXCEPT ![op[s]] = next[s]]
      /\ StatusView[op[s]] = file[op[s]]
  BY <1>1, <1>2, <1>3, <1>4
<1>6. InFlightView' = [o \in Op |-> {r \in Session : op'[r] = o /\ InFlight(r)'}]
  BY DEF InFlightView, InFlight
<1>7. /\ ~InFlight(s)' /\ (InFlight(s) <=> next[s] \in {"committed", "failed"})
      /\ \A r \in Session : r # s => (InFlight(r)' <=> InFlight(r))
  BY <1>1, <1>2 DEF InFlight
<1>8. CASE next[s] \in {"committed", "failed"}
  <2>1. InFlightView' = [InFlightView EXCEPT ![op[s]] = @ \ {s}] /\ s \in InFlightView[op[s]]
    <3>1. \A o \in Op : {r \in Session : op'[r] = o /\ InFlight(r)'} =
              IF o = op[s] THEN {r \in Session : op[r] = o /\ InFlight(r)} \ {s}
              ELSE {r \in Session : op[r] = o /\ InFlight(r)}
      BY <1>1, <1>7
    <3>2. \A o \in Op : InFlightView[o] = {r \in Session : op[r] = o /\ InFlight(r)}
      BY InFlightOf
    <3>3. InFlightView' = [o \in Op |-> IF o = op[s] THEN InFlightView[o] \ {s} ELSE InFlightView[o]]
      BY <1>6, <3>1, <3>2
    <3>4. InFlightView = [o \in Op |-> InFlightView[o]]
      BY InFlightOf
    <3>5. s \in InFlightView[op[s]]
      BY <1>2, <1>7, <1>8, <3>2
    <3> QED
      BY <1>2, <3>3, <3>4, <3>5
  <2>2. Lifecycle!Settle(op[s], s)
    BY <1>5, <1>8, <2>1 DEF Lifecycle!Settle, Lifecycle!Outcomes, StatusView, InFlightView
  <2> QED
    BY <1>2, <2>2 DEF Lifecycle!Next
<1>9. CASE next[s] \in {"pending", "approved", "denied", "expired"}
  <2>1. InFlightView' = InFlightView
    BY <1>1, <1>6, <1>7, <1>9, InFlightOf
  <2>2. \/ Lifecycle!Prepare(op[s]) \/ Lifecycle!Approve(op[s])
        \/ Lifecycle!Deny(op[s]) \/ Lifecycle!Expire(op[s])
    BY <1>2, <1>5, <1>9, <2>1
      DEF MayFollow, Lifecycle!Prepare, Lifecycle!Approve, Lifecycle!Deny, Lifecycle!Expire,
          Lifecycle!Move, StatusView, InFlightView
  <2> QED
    BY <1>2, <2>2 DEF Lifecycle!Next
<1> QED
  BY <1>2, <1>8, <1>9 DEF Status, MayFollow

\* Every step of one process is a step of the lifecycle, or shows nothing.
LEMMA LifecycleStep ==
    ASSUME BrokerInv, OneProcessInv, OneProcessInv', OneProcess, OneProcess', Next
    PROVE  Lifecycle!Next \/ UNCHANGED <<StatusView, InFlightView>>
<1>1. /\ AloneInv /\ SavesInv /\ AloneInv'
      /\ pc \in [Session -> Step] /\ op \in [Session -> Op \cup {None}]
      /\ next \in [Session -> Status \cup {None}]
      /\ image \in [Session -> [Op -> Status]]
  BY DEF OneProcessInv, BrokerInv, TypeOK
<1>2. InFlightView' = [o \in Op |-> {r \in Session : op'[r] = o /\ InFlight(r)'}]
  BY DEF InFlightView, InFlight
<1>3. ASSUME \A r \in Session : InFlight(r)' = InFlight(r) /\ (InFlight(r) => op'[r] = op[r])
      PROVE  InFlightView' = InFlightView
  BY <1>2, <1>3, InFlightOf
<1>4. ASSUME NEW s \in Session, NEW o \in Op,
             \/ Prepare(s, o) \/ Approve(s, o) \/ Deny(s, o) \/ CommitExpired(s, o)
      PROVE  UNCHANGED <<StatusView, InFlightView>>
  <2>1. PICK status \in {"pending", "approved", "expired", "denied"} : Save(s, o, status)
    BY <1>4 DEF Prepare, Approve, Deny, CommitExpired
  <2>2. pc[s] = "idle" /\ UNCHANGED <<file, form, image>>
    BY <1>4 DEF Prepare, Approve, Deny, CommitExpired, Starts
  <2>3. Writers' = Writers
    BY <1>1, <2>1, <2>2 DEF Save, Writers
  <2>4. \A r \in Session : InFlight(r)' = InFlight(r) /\ (InFlight(r) => op'[r] = op[r])
    BY <1>1, <2>1, <2>2 DEF Save, InFlight
  <2> QED
    BY <1>3, <2>2, <2>3, <2>4, ViewStays
<1>5. ASSUME NEW s \in Session, NEW o \in Op, CommitBegin(s, o)
      PROVE  Lifecycle!Begin(o, s)
  <2>1. /\ pc[s] = "idle" /\ form = "whole" /\ file[o] = "approved"
        /\ pc' = [pc EXCEPT ![s] = "executing"] /\ op' = [op EXCEPT ![s] = o]
        /\ UNCHANGED <<file, form, next, image>>
    BY <1>5 DEF CommitBegin, Starts, Readable
  <2>2. Writers' = Writers
    BY <1>1, <2>1 DEF Writers
  <2>3. StatusView' = StatusView /\ StatusView[o] = "approved"
    BY <1>1, <2>1, <2>2, ViewStays, ViewOfFile
  <2>4. InFlight(s)' /\ op'[s] = o /\ ~InFlight(s)
    BY <1>1, <2>1 DEF InFlight
  <2>5. \A r \in Session : r # s => InFlight(r)' = InFlight(r) /\ op'[r] = op[r]
    BY <1>1, <2>1 DEF InFlight
  <2>6. InFlightView' = [InFlightView EXCEPT ![o] = @ \cup {s}]
    BY <1>2, <2>4, <2>5, InFlightOf
  <2> QED
    BY <2>3, <2>6 DEF Lifecycle!Begin, StatusView, InFlightView
<1>6. ASSUME NEW s \in Session, NEW outcome \in {"committed", "failed"}, CommitReturns(s, outcome)
      PROVE  UNCHANGED <<StatusView, InFlightView>>
  <2>1. /\ pc[s] = "executing" /\ Save(s, op[s], outcome)
        /\ UNCHANGED <<file, form, image>>
    BY <1>6 DEF CommitReturns
  <2>2. Writers' = Writers
    BY <1>1, <2>1 DEF Save, Writers
  <2>3. \A r \in Session : InFlight(r)' = InFlight(r) /\ (InFlight(r) => op'[r] = op[r])
    BY <1>1, <2>1 DEF Save, InFlight
  <2> QED
    BY <1>3, <2>1, <2>2, <2>3, ViewStays
<1>7. ASSUME NEW s \in Session, CommitAbandoned(s) \/ SaveRaises(s) \/ Finishes(s)
      PROVE  Lifecycle!Abandon
  <2>1. /\ pc[s] \in {"executing", "saving", "truncating", "finishing"} /\ Ends(s)
        /\ UNCHANGED <<file, form>>
    BY <1>7 DEF CommitAbandoned, SaveRaises, Finishes
  <2>2. Writers' = Writers /\ \A r \in Writers : image'[r] = image[r]
    BY <1>1, <2>1 DEF Ends, Writers
  <2>3. \A r \in Session : InFlight(r)' => InFlight(r) /\ op'[r] = op[r]
    BY <1>1, <2>1 DEF Ends, InFlight
  <2> QED
    BY <2>1, <2>2, <2>3, ViewStays, FewerInFlight
<1>8. ASSUME NEW s \in Session, SaveReads(s)
      PROVE  UNCHANGED <<StatusView, InFlightView>>
  <2>1. /\ pc[s] = "saving" /\ pc' = [pc EXCEPT ![s] = "truncating"]
        /\ \A r \in Session : r # s => image'[r] = image[r]
        /\ UNCHANGED <<file, form, op, next>>
    BY <1>1, <1>8 DEF SaveReads
  <2>2. Writers' = Writers /\ \A r \in Writers : image'[r] = image[r]
    BY <1>1, <2>1 DEF Writers
  <2>3. \A r \in Session : InFlight(r)' = InFlight(r) /\ op'[r] = op[r]
    BY <1>1, <2>1 DEF InFlight
  <2> QED
    BY <1>3, <2>1, <2>2, <2>3, ViewStays
<1>9. ASSUME NEW s \in Session, Writes(s)
      PROVE  UNCHANGED <<StatusView, InFlightView>>
  <2>1. /\ pc[s] = "writing" /\ form = "empty" /\ s \in Writers
        /\ pc' = [pc EXCEPT ![s] = "finishing"]
        /\ file' = image[s] /\ form' = "whole"
        /\ UNCHANGED <<op, next, image>>
    BY <1>1, <1>9 DEF Writes, AloneInv, Writers
  <2>2. StatusView = [o \in Op |-> image[s][o]]
    BY <1>1, <2>1, ViewOfFile
  <2>3. (form = "whole" => StatusView = [o \in Op |-> file[o]])'
    BY <1>1, ViewOfFile, PTL
  <2>4. \A r \in Session : InFlight(r)' = InFlight(r) /\ op'[r] = op[r]
    BY <1>1, <2>1 DEF InFlight
  <2> QED
    BY <1>3, <2>1, <2>2, <2>3, <2>4
<1>10. ASSUME \/ \E s \in Session : MyobPosts(s) \/ CallRaises(s)
              \/ \E o \in Op : Lapse(o)
       PROVE  UNCHANGED <<StatusView, InFlightView>>
  <2>1. UNCHANGED <<file, form, pc, op, next, image>>
    BY <1>10 DEF MyobPosts, CallRaises, Lapse
  <2> QED
    BY <2>1 DEF StatusView, InFlightView
<1>11. ASSUME NEW p \in processes, Crash(p)
       PROVE  Lifecycle!Abandon
  <2>1. p = Session
    BY DEF OneProcess
  <2>2. /\ UNCHANGED <<file, form>>
        /\ \A r \in Session : pc'[r] = IF pc[r] \in {"writing", "torn"} THEN "torn" ELSE "idle"
        /\ \A r \in Session : pc[r] \in {"writing", "torn"} => image'[r] = image[r]
    BY <1>11, <2>1 DEF Crash
  <2>3. Writers' = Writers /\ \A r \in Writers : image'[r] = image[r]
    BY <2>2 DEF Writers
  <2>4. \A r \in Session : ~InFlight(r)'
    BY <2>2 DEF InFlight
  <2> QED
    BY <2>2, <2>3, <2>4, ViewStays, FewerInFlight
<1>12. ASSUME NEW s \in Session, Truncates(s) PROVE Lifecycle!Next
  BY <1>1, <1>12, TruncatesMoves
<1>13. ASSUME NEW s \in Session, WriteFails(s)
       PROVE  UNCHANGED <<StatusView, InFlightView>>
  <2>1. /\ pc[s] = "writing" /\ s \in Writers
        /\ pc' = [pc EXCEPT ![s] = "torn"]
        /\ UNCHANGED <<op, next, image>>
    BY <1>1, <1>13 DEF WriteFails, Writers
  <2>2. s \in Writers'
    BY <1>1, <2>1 DEF Writers
  <2>3. StatusView = [o \in Op |-> image[s][o]]
    BY <1>1, <2>1, ViewOfFile
  <2>4. (\A r \in Writers : StatusView = [o \in Op |-> image[r][o]])'
    BY <1>1, ViewOfFile, PTL
  <2>5. StatusView' = [o \in Op |-> image[s][o]]
    BY <2>1, <2>2, <2>4
  <2>6. \A r \in Session : InFlight(r)' = InFlight(r) /\ op'[r] = op[r]
    BY <1>1, <2>1 DEF InFlight
  <2> QED
    BY <1>3, <2>3, <2>5, <2>6
<1>14. ASSUME NEW s \in Session, Mended(s) PROVE FALSE
  BY <1>1, <1>14 DEF Mended, AloneInv, Readable
<1> QED
  BY <1>4, <1>5, <1>6, <1>7, <1>8, <1>9, <1>10, <1>11, <1>12, <1>13, <1>14
    DEF Next, Begins, Completes, Lifecycle!Next

\* One process, killed at any moment, or with saves that fail, implements the
\* lifecycle although it saves a record in four steps.
THEOREM OneProcessImplementsLifecycle == Spec => ImplementsLifecycle
<1>1. Init => (OneProcess => Lifecycle!Init)
  BY DEF Init, Lifecycle!Init, StatusView, InFlightView, NoFile
<1>2. /\ BrokerInv /\ OneProcessInv /\ OneProcessInv' /\ [Next]_vars
      => [OneProcess => Lifecycle!Next]_<<StatusView, InFlightView>>
  <2> SUFFICES ASSUME BrokerInv, OneProcessInv, OneProcessInv', [Next]_vars, OneProcess
               PROVE  Lifecycle!Next \/ UNCHANGED <<StatusView, InFlightView>>
    OBVIOUS
  <2>1. OneProcess'
    BY DEF OneProcess, Next, vars
  <2>2. CASE Next
    BY <2>1, <2>2, LifecycleStep
  <2>3. CASE UNCHANGED vars
    BY <2>3 DEF vars, StatusView, InFlightView
  <2> QED
    BY <2>2, <2>3
<1> QED
  BY <1>1, <1>2, BrokerInvariant, OneProcessInvariant, PTL DEF Spec, ImplementsLifecycle

=============================================================================
