---- MODULE ConsumerGroup ----
(***************************************************************************)
(* Consumers of several processes share the one partition of the topic.    *)
(* On assignment RebalanceCallback acquires the lock of the partition in   *)
(* the tuple store, and every tuple write names the lock token it got: a   *)
(* write with a replaced token is refused.  A consumer that is slow can    *)
(* lose the partition without knowing (a session timeout) and goes on      *)
(* until its next Poll.                                                    *)
(*                                                                         *)
(* A message is its offset and one write; what the writes are is the       *)
(* subject of Replication.  Kafka's coordinator and fetcher are external:  *)
(* only the owner may commit, but a fetch is answered to anybody.          *)
(***************************************************************************)
EXTENDS Integers, Sequences

CONSTANTS Consumers,
          None,                  \* the partition has no owner
          Messages,              \* messages in the log, at offsets 0 .. Messages - 1
          CommitModulo,          \* consumer.commit-modulo
          OperationMaxRetries,   \* attempts of one operation
          LockExists,            \* did an earlier process leave a lock behind?
          MaxFailures,           \* bound: failed calls
          MaxAssignments         \* bound: assignments of the partition

ASSUME GroupAssumption ==
  /\ None \notin Consumers
  /\ Messages \in Nat
  /\ CommitModulo \in Nat \ {0}
  /\ OperationMaxRetries \in Nat \ {0}
  /\ LockExists \in BOOLEAN
  /\ MaxFailures \in Nat

VARIABLES owner,         \* whom the coordinator has assigned the partition to
          assignments,   \* assignments so far
          locks,         \* valid tokens: the subjects of the lock's relationships
          tokens,        \* tokens generated so far
          gpc,           \* where each consumer is
          lockRead,      \* the token its AcquireLock found, NoToken for none
          lockToken,     \* InventoryConsumer.lockToken, NoToken for ""
          attempts,      \* failed attempts of its AcquireLock
          pos,           \* offset of its current or next message
          stored,        \* its OffsetStorage
          committed,     \* offset committed at the broker
          head,          \* history: offset written last, -1 for none
          applied,       \* history: offsets written
          late,          \* history: a consumer started without a token, or when no longer the owner
          kept,          \* history: a revoked consumer kept offsets it could not commit
          failures

brokerVars == <<owner, assignments, committed>>
lockVars == <<locks, tokens>>
callbackVars == <<lockRead, lockToken, attempts>>
writeVars == <<head, applied>>
vars == <<brokerVars, lockVars, callbackVars, writeVars, gpc, pos, stored, late, kept, failures>>

NoToken == 0
Offsets == 0 .. Messages - 1

TypeOK ==
  /\ owner \in Consumers \cup {None}
  /\ assignments \in 0 .. MaxAssignments
  /\ committed \in 0 .. Messages
  /\ tokens \in Nat
  /\ locks \in SUBSET (1 .. tokens)
  /\ gpc \in [Consumers -> {"out", "acquire", "swap", "poll", "write", "store", "commit", "stop"}]
  /\ lockRead \in [Consumers -> 0 .. tokens]
  /\ lockToken \in [Consumers -> 0 .. tokens]
  /\ attempts \in [Consumers -> 0 .. OperationMaxRetries]
  /\ pos \in [Consumers -> 0 .. Messages]
  /\ stored \in [Consumers -> Seq(Offsets)]
  /\ head \in Offsets \cup {-1}
  /\ applied \subseteq Offsets
  /\ late \in BOOLEAN /\ kept \in BOOLEAN
  /\ failures \in 0 .. MaxFailures

Init ==
  /\ owner = None
  /\ assignments = 0
  /\ committed = 0
  /\ tokens = (IF LockExists THEN 1 ELSE 0)
  /\ locks = 1 .. tokens
  /\ gpc = [c \in Consumers |-> "out"]
  /\ lockRead = [c \in Consumers |-> NoToken]
  /\ lockToken = [c \in Consumers |-> NoToken]
  /\ attempts = [c \in Consumers |-> 0]
  /\ pos = [c \in Consumers |-> 0]
  /\ stored = [c \in Consumers |-> <<>>]
  /\ head = -1
  /\ applied = {}
  /\ late = FALSE
  /\ kept = FALSE
  /\ failures = 0

Goto(c, where) == gpc' = [gpc EXCEPT ![c] = where]

Fail == failures < MaxFailures /\ failures' = failures + 1

----
(* The coordinator (external) *)

\* A new member, or one that lost the partition, gets it; its next Poll runs
\* RebalanceCallback.
Assign(c) ==
  /\ owner = None
  /\ gpc[c] = "out"
  /\ assignments < MaxAssignments
  /\ assignments' = assignments + 1
  /\ owner' = c
  /\ Goto(c, "acquire")
  /\ attempts' = [attempts EXCEPT ![c] = 0]
  /\ UNCHANGED <<lockVars, writeVars, lockRead, lockToken, committed, pos, stored, late, kept, failures>>

Expire ==
  /\ owner # None
  /\ assignments < MaxAssignments
  /\ owner' = None
  /\ UNCHANGED <<lockVars, callbackVars, writeVars, assignments, committed, gpc, pos, stored, late, kept, failures>>

----
(* RebalanceCallback, AssignedPartitions *)

\* AcquireLock reads one of the lock's relationships ...
ReadLock(c) ==
  /\ gpc[c] = "acquire"
  /\ \E t \in (IF locks = {} THEN {NoToken} ELSE locks) : lockRead' = [lockRead EXCEPT ![c] = t]
  /\ Goto(c, "swap")
  /\ UNCHANGED <<brokerVars, lockVars, writeVars, lockToken, attempts, pos, stored, late, kept, failures>>

\* A mistaken variant: replaced without the condition.
ReplaceLock_Unconditional(c) ==
  /\ tokens' = tokens + 1
  /\ locks' = (locks \ {lockRead[c]}) \cup {tokens + 1}

\* ... and replaces it by a new one, on condition that it is still there.
ReplaceLock(c) ==
  /\ lockRead[c] = NoToken \/ lockRead[c] \in locks
  /\ tokens' = tokens + 1
  /\ locks' = (locks \ {lockRead[c]}) \cup {tokens + 1}

\* Consumption starts at the committed offset.
LeaveCallback(c, token) ==
  /\ lockToken' = [lockToken EXCEPT ![c] = token]
  /\ pos' = [pos EXCEPT ![c] = committed]
  /\ late' = (late \/ owner # c \/ token = NoToken)
  /\ Goto(c, "poll")

WriteLock(c) ==
  /\ gpc[c] = "swap"
  /\ ReplaceLock(c)
  /\ LeaveCallback(c, tokens + 1)
  /\ UNCHANGED <<brokerVars, writeVars, lockRead, attempts, stored, kept, failures>>

\* The lock was replaced meanwhile, or a call failed, with or without effect.
\* After the last attempt the consumer goes on with the empty token.
AcquireFails(c) ==
  /\ \/ /\ gpc[c] = "swap" /\ lockRead[c] # NoToken /\ lockRead[c] \notin locks
        /\ UNCHANGED <<lockVars, failures>>
     \/ /\ gpc[c] \in {"acquire", "swap"}
        /\ Fail
        /\ UNCHANGED lockVars \/ (gpc[c] = "swap" /\ ReplaceLock(c))
  /\ attempts' = [attempts EXCEPT ![c] = @ + 1]
  /\ IF attempts[c] + 1 < OperationMaxRetries
     THEN Goto(c, "acquire") /\ UNCHANGED <<lockToken, pos, late>>
     ELSE LeaveCallback(c, NoToken)
  /\ UNCHANGED <<brokerVars, writeVars, lockRead, stored, kept>>
----
(* The consume loop *)

Poll(c) ==
  /\ gpc[c] = "poll"
  /\ pos[c] < Messages
  /\ Goto(c, "write")
  /\ UNCHANGED <<brokerVars, lockVars, callbackVars, writeVars, pos, stored, late, kept, failures>>

\* A mistaken variant: tuples are written without a fencing check.
Fenced_Unchecked(c) == TRUE

\* The precondition of a tuple write. The empty token is an empty
\* OptionalSubjectId, which matches any.
Fenced(c) == IF lockToken[c] = NoToken THEN locks # {} ELSE lockToken[c] \in locks

\* The message's tuples are written; a write may be reported as failed and
\* be tried again.
Write(c) ==
  /\ gpc[c] = "write"
  /\ Fenced(c)
  /\ head' = pos[c]
  /\ applied' = applied \cup {pos[c]}
  /\ \/ Goto(c, "store") /\ UNCHANGED failures
     \/ Fail /\ UNCHANGED gpc
  /\ UNCHANGED <<brokerVars, lockVars, callbackVars, pos, stored, late, kept>>

\* A mistaken variant: the message is passed over.
WriteFails_PassesOver(c) ==
  /\ gpc[c] = "write"
  /\ IF Fenced(c) THEN Fail ELSE UNCHANGED failures
  /\ Goto(c, "store")
  /\ UNCHANGED <<brokerVars, lockVars, callbackVars, writeVars, pos, stored, late, kept>>

\* Every attempt failed, or "invalid fencing token": the loop ends.
WriteFails(c) ==
  /\ gpc[c] = "write"
  /\ IF Fenced(c) THEN Fail ELSE UNCHANGED failures
  /\ Goto(c, "stop")
  /\ UNCHANGED <<brokerVars, lockVars, callbackVars, writeVars, pos, stored, late, kept>>

StoreOffset(c) ==
  /\ gpc[c] = "store"
  /\ stored' = [stored EXCEPT ![c] = Append(@, pos[c])]
  /\ pos' = [pos EXCEPT ![c] = @ + 1]
  /\ Goto(c, IF pos[c] % CommitModulo = 0 THEN "commit" ELSE "poll")
  /\ UNCHANGED <<brokerVars, lockVars, callbackVars, writeVars, late, kept, failures>>

\* commitStoredOffsets: the broker takes the last offset it is sent, from the
\* owner alone. Otherwise the offsets are put back.
CommitStoredOffsets(c) ==
  \/ /\ owner = c \/ stored[c] = <<>>
     /\ committed' = IF stored[c] = <<>> THEN committed ELSE stored[c][Len(stored[c])]
     /\ stored' = [stored EXCEPT ![c] = <<>>]
     /\ UNCHANGED failures
  \/ /\ stored[c] # <<>>
     /\ IF owner = c THEN Fail ELSE UNCHANGED failures
     /\ UNCHANGED <<committed, stored>>

Commit(c) ==
  /\ gpc[c] = "commit"
  /\ CommitStoredOffsets(c)
  /\ Goto(c, "poll")
  /\ UNCHANGED <<lockVars, callbackVars, writeVars, owner, assignments, pos, late, kept>>

\* RebalanceCallback, RevokedPartitions: asked for by the coordinator, or
\* noticed when the assignment is already lost. The offsets are committed
\* before the partition is given up.
Revoke(c) ==
  /\ gpc[c] = "poll"
  /\ CommitStoredOffsets(c)
  /\ kept' = (kept \/ stored'[c] # <<>>)
  /\ owner' = IF owner = c THEN None ELSE owner
  /\ lockToken' = [lockToken EXCEPT ![c] = NoToken]
  /\ Goto(c, "out")
  /\ UNCHANGED <<lockVars, writeVars, assignments, lockRead, attempts, pos, late>>

\* Shutdown: commit, then Close, whose callback does nothing more. The
\* restart loop makes a new InventoryConsumer.
Shutdown(c) ==
  /\ gpc[c] \in {"stop", "poll"}
  /\ \/ /\ owner = c /\ stored[c] # <<>>
        /\ committed' = stored[c][Len(stored[c])]
        /\ UNCHANGED failures
     \/ /\ IF owner = c /\ stored[c] # <<>> THEN Fail ELSE UNCHANGED failures
        /\ UNCHANGED committed
  /\ stored' = [stored EXCEPT ![c] = <<>>]
  /\ owner' = IF owner = c THEN None ELSE owner
  /\ lockToken' = [lockToken EXCEPT ![c] = NoToken]
  /\ Goto(c, "out")
  /\ UNCHANGED <<lockVars, writeVars, assignments, lockRead, attempts, pos, late, kept>>

Next ==
  \/ Expire
  \/ \E c \in Consumers :
       \/ Assign(c) \/ ReadLock(c) \/ WriteLock(c) \/ AcquireFails(c)
       \/ Poll(c) \/ Write(c) \/ WriteFails(c) \/ StoreOffset(c) \/ Commit(c)
       \/ Revoke(c) \/ Shutdown(c)

Spec == Init /\ [][Next]_vars

----
(* Properties *)

\* At most one token is valid: whoever acquires the lock invalidates the
\* token of everybody else, however acquisitions interleave and fail. It
\* takes a lock to replace: two first acquisitions both create one.
OneValidToken == LockExists => \E t \in locks : locks = {t}

\* Whoever commits, and whatever was lost, revoked or refused, every message
\* before the committed offset was written.
CommittedIsApplied == \A o \in 0 .. committed - 1 : o \in applied

\* A message that is written again, by a new owner or one that does not know
\* it was replaced, undoes what later messages did, so those must be read
\* again: the committed offset is never past the message after the last
\* write.
RewritesAreFollowed == committed <= head + 1

\* RewritesAreFollowed, but for two cases: a consumer started without a
\* token, or took the lock from the new owner after it had lost the
\* partition; or it kept offsets of an earlier assignment, which it commits
\* in a later one.
RewritesAreFollowedInTime == late \/ kept \/ RewritesAreFollowed
====
