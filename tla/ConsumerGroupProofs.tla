---- MODULE ConsumerGroupProofs ----
(***************************************************************************)
(* For any number of consumers, messages, failures and assignments: at     *)
(* most one lock token is valid, nothing is committed unwritten, and what  *)
(* a rewrite undoes is read again, but for two cases.                      *)
(***************************************************************************)
EXTENDS ConsumerGroup, TLAPS

\* Most leaves are first-order: Zenon is tried before the SMT solver.
USE ZenonT(5), SMTT(30)

Active == {"out", "acquire", "swap", "poll", "write", "store", "commit", "stop"}

----
(* The lock *)

\* One token is valid, and whoever is about to replace the lock read one.
LockInv ==
  /\ tokens \in Nat
  /\ locks \subseteq Nat
  /\ gpc \in [Consumers -> Active]
  /\ lockRead \in [Consumers -> Nat]
  /\ LockExists => /\ \E t \in 1 .. tokens : locks = {t}
                   /\ \A c \in Consumers : gpc[c] = "swap" => lockRead[c] # NoToken

\* Replacing the token that is still there leaves the new one alone.
LEMMA ReplaceKeepsOne ==
  ASSUME LockInv, NEW c \in Consumers, gpc[c] = "swap", ReplaceLock(c)
  PROVE  /\ tokens' \in Nat
         /\ locks' \subseteq Nat
         /\ LockExists => \E t \in 1 .. tokens' : locks' = {t}
  <1>1. tokens' = tokens + 1 /\ tokens' \in Nat
    BY DEF LockInv, ReplaceLock
  <1>3. locks' \subseteq Nat
    <2>1. tokens + 1 \in Nat
      BY <1>1
    <2> QED
      BY <2>1 DEF LockInv, ReplaceLock
  <1>2. ASSUME LockExists PROVE \E t \in 1 .. tokens' : locks' = {t}
    <2>1. lockRead[c] \in locks
      BY <1>2 DEF LockInv, ReplaceLock
    <2>2. locks = {lockRead[c]}
      BY <1>2, <2>1 DEF LockInv
    <2>3. locks' = {tokens + 1}
      BY <2>2 DEF ReplaceLock
    <2>4. tokens + 1 \in 1 .. tokens'
      BY <1>1 DEF LockInv
    <2> QED
      BY <2>3, <2>4
  <1> QED
    BY <1>1, <1>2, <1>3

\* A step that touches no lock and does not go to "swap" keeps LockInv.
LEMMA QuietStep ==
  ASSUME LockInv, NEW c \in Consumers, NEW w \in Active \ {"swap"},
         gpc' = [gpc EXCEPT ![c] = w], UNCHANGED <<tokens, locks, lockRead>>
  PROVE  LockInv'
  BY DEF LockInv, Active

\* A step that replaces the lock and leaves "swap" keeps LockInv.
LEMMA ReplacingStep ==
  ASSUME LockInv, NEW c \in Consumers, NEW w \in Active \ {"swap"},
         gpc[c] = "swap", ReplaceLock(c), gpc' = [gpc EXCEPT ![c] = w], UNCHANGED lockRead
  PROVE  LockInv'
  <1>1. /\ tokens' \in Nat
        /\ locks' \subseteq Nat
        /\ LockExists => \E t \in 1 .. tokens' : locks' = {t}
    BY ReplaceKeepsOne
  <1>2. gpc' \in [Consumers -> Active] /\ lockRead' \in [Consumers -> Nat]
    BY DEF LockInv, Active
  <1>3. LockExists => \A d \in Consumers : gpc'[d] = "swap" => lockRead'[d] # NoToken
    BY DEF LockInv, Active
  <1> QED
    BY <1>1, <1>2, <1>3 DEF LockInv

\* Every step of AcquireLock, RebalanceCallback and the consume loop keeps LockInv.
LEMMA LockStep == LockInv /\ [Next]_vars => LockInv'
  <1> SUFFICES ASSUME LockInv, [Next]_vars PROVE LockInv'
    OBVIOUS
  <1>1. ASSUME NEW c \in Consumers, ReadLock(c) PROVE LockInv'
    <2>1. PICK t \in (IF locks = {} THEN {NoToken} ELSE locks) : lockRead' = [lockRead EXCEPT ![c] = t]
      BY <1>1 DEF ReadLock
    <2>2. gpc' = [gpc EXCEPT ![c] = "swap"] /\ UNCHANGED <<tokens, locks>>
      BY <1>1 DEF ReadLock, Goto, lockVars
    <2>3. t \in Nat
      BY <2>1 DEF LockInv, NoToken
    <2>4. LockExists => t # NoToken
      BY <2>1 DEF LockInv, NoToken
    <2> QED
      BY <2>1, <2>2, <2>3, <2>4 DEF LockInv, Active
  <1>2. ASSUME NEW c \in Consumers, WriteLock(c) PROVE LockInv'
    BY <1>2, ReplacingStep DEF WriteLock, LeaveCallback, Goto, Active
  <1>3. ASSUME NEW c \in Consumers, AcquireFails(c) PROVE LockInv'
    <2>1. PICK w \in Active \ {"swap"} : gpc' = [gpc EXCEPT ![c] = w]
      BY <1>3 DEF AcquireFails, LeaveCallback, Goto, Active
    <2>2. UNCHANGED lockRead
      BY <1>3 DEF AcquireFails
    <2>3. CASE UNCHANGED <<tokens, locks>>
      BY <2>1, <2>2, <2>3, QuietStep
    <2>4. CASE gpc[c] = "swap" /\ ReplaceLock(c)
      BY <2>1, <2>2, <2>4, ReplacingStep
    <2> QED
      BY <1>3, <2>3, <2>4 DEF AcquireFails, lockVars
  <1>4. ASSUME NEW c \in Consumers,
               \/ Assign(c) \/ Poll(c) \/ WriteFails(c)
               \/ StoreOffset(c) \/ Commit(c) \/ Revoke(c) \/ Shutdown(c)
        PROVE  LockInv'
    <2>1. PICK w \in Active \ {"swap"} : gpc' = [gpc EXCEPT ![c] = w]
      BY <1>4 DEF Assign, Poll, WriteFails, StoreOffset, Commit, Revoke, Shutdown, Goto, Active
    <2>2. UNCHANGED <<tokens, locks, lockRead>>
      BY <1>4 DEF Assign, Poll, WriteFails, StoreOffset, Commit, Revoke, Shutdown, lockVars, callbackVars
    <2> QED
      BY <2>1, <2>2, QuietStep
  <1>5. ASSUME NEW c \in Consumers, Write(c) PROVE LockInv'
    <2>1. UNCHANGED <<tokens, locks, lockRead>>
      BY <1>5 DEF Write, lockVars, callbackVars
    <2>2. CASE UNCHANGED gpc
      BY <2>1, <2>2 DEF LockInv
    <2>3. CASE gpc' = [gpc EXCEPT ![c] = "store"]
      BY <2>1, <2>3, QuietStep DEF Active
    <2> QED
      BY <1>5, <2>2, <2>3 DEF Write, Goto
  <1>6. CASE Expire
    BY <1>6 DEF LockInv, Expire, lockVars, callbackVars
  <1>7. CASE UNCHANGED vars
    BY <1>7 DEF LockInv, vars, lockVars, callbackVars
  <1> QED
    BY <1>1, <1>2, <1>3, <1>4, <1>5, <1>6, <1>7 DEF Next

\* Whoever acquires the partition's lock invalidates every other token,
\* however the acquisitions of RebalanceCallback interleave and fail.
THEOREM LockIsExclusive == Spec => []OneValidToken
  <1>1. Init => LockInv
    BY GroupAssumption DEF Init, LockInv, Active, NoToken
  <1>2. LockInv => OneValidToken
    BY DEF LockInv, OneValidToken
  <1> QED
    BY <1>1, <1>2, LockStep, PTL DEF Spec

----
(* The offsets *)

\* Every message before offset n was written.
WrittenUpTo(n) == \A o \in Nat : o < n => o \in applied

\* Whatever is committed, stored to be committed, or a position to go on from
\* has every message before it written.
OffsetInv ==
  /\ committed \in Nat
  /\ gpc \in [Consumers -> Active]
  /\ pos \in [Consumers -> Nat]
  /\ stored \in [Consumers -> Seq(Nat)]
  /\ WrittenUpTo(committed)
  /\ \A c \in Consumers :
       /\ WrittenUpTo(pos[c])
       /\ gpc[c] = "store" => pos[c] \in applied
       /\ \A n \in 1 .. Len(stored[c]) : WrittenUpTo(stored[c][n])

\* commitStoredOffsets, when it succeeds and when it puts the offsets back.
LEMMA CommitKeepsWritten ==
  ASSUME OffsetInv, NEW c \in Consumers, applied' = applied,
         committed' \in {committed} \cup {stored[c][n] : n \in 1 .. Len(stored[c])},
         stored' \in {stored, [stored EXCEPT ![c] = <<>>]}
  PROVE  /\ committed' \in Nat /\ WrittenUpTo(committed')
         /\ stored' \in [Consumers -> Seq(Nat)]
         /\ \A d \in Consumers : \A n \in 1 .. Len(stored'[d]) : WrittenUpTo(stored'[d][n])
  <1>1. \A n \in 1 .. Len(stored[c]) : stored[c][n] \in Nat /\ WrittenUpTo(stored[c][n])
    BY DEF OffsetInv
  <1>2. committed' \in Nat /\ WrittenUpTo(committed')
    BY <1>1 DEF OffsetInv
  <1>3. CASE stored' = stored
    BY <1>2, <1>3 DEF OffsetInv
  <1>4. CASE stored' = [stored EXCEPT ![c] = <<>>]
    BY <1>2, <1>4 DEF OffsetInv
  <1> QED
    BY <1>3, <1>4

\* The offset committed by CommitStoredOffsets was stored, or committed before.
LEMMA CommitsWhatIsStored ==
  ASSUME OffsetInv, NEW c \in Consumers, CommitStoredOffsets(c)
  PROVE  /\ committed' \in {committed} \cup {stored[c][n] : n \in 1 .. Len(stored[c])}
         /\ stored' \in {stored, [stored EXCEPT ![c] = <<>>]}
  <1>1. stored[c] \in Seq(Nat)
    BY DEF OffsetInv
  <1>2. stored[c] # <<>> => Len(stored[c]) \in 1 .. Len(stored[c])
    BY <1>1
  <1> QED
    BY <1>2 DEF CommitStoredOffsets

\* Every step keeps OffsetInv.
LEMMA OffsetStep == OffsetInv /\ [Next]_vars => OffsetInv'
  <1> SUFFICES ASSUME OffsetInv, [Next]_vars PROVE OffsetInv'
    OBVIOUS
  <1>1. ASSUME NEW c \in Consumers, Write(c) PROVE OffsetInv'
    <2>1. applied' = applied \cup {pos[c]} /\ UNCHANGED <<committed, pos, stored>>
      BY <1>1 DEF Write, brokerVars
    <2>2. gpc' = gpc \/ gpc' = [gpc EXCEPT ![c] = "store"]
      BY <1>1 DEF Write, Goto
    <2>3. \A n : WrittenUpTo(n) => WrittenUpTo(n)'
      BY <2>1 DEF WrittenUpTo
    <2>4. \A d \in Consumers : gpc'[d] = "store" => pos[d] \in applied'
      BY <2>1, <2>2 DEF OffsetInv
    <2> QED
      BY <2>1, <2>2, <2>3, <2>4 DEF OffsetInv, Active
  <1>2. ASSUME NEW c \in Consumers, StoreOffset(c) PROVE OffsetInv'
    <2>1. /\ gpc[c] = "store"
          /\ stored' = [stored EXCEPT ![c] = Append(stored[c], pos[c])]
          /\ pos' = [pos EXCEPT ![c] = pos[c] + 1]
          /\ gpc' \in {[gpc EXCEPT ![c] = "commit"], [gpc EXCEPT ![c] = "poll"]}
          /\ UNCHANGED <<committed, applied>>
      BY <1>2 DEF StoreOffset, Goto, brokerVars, writeVars
    <2>2. pos[c] \in Nat /\ stored[c] \in Seq(Nat) /\ pos[c] \in applied /\ WrittenUpTo(pos[c])
      BY <2>1 DEF OffsetInv
    <2>3. \A o \in Nat : o < pos[c] + 1 => o < pos[c] \/ o = pos[c]
      BY <2>2
    <2>4. WrittenUpTo(pos[c] + 1)
      BY <2>2, <2>3 DEF WrittenUpTo
    <2>5. \A n \in 1 .. Len(Append(stored[c], pos[c])) : WrittenUpTo(Append(stored[c], pos[c])[n])
      <3>1. \A n \in 1 .. Len(stored[c]) : WrittenUpTo(stored[c][n])
        BY DEF OffsetInv
      <3>2. /\ Len(Append(stored[c], pos[c])) = Len(stored[c]) + 1
            /\ \A n \in 1 .. Len(stored[c]) : Append(stored[c], pos[c])[n] = stored[c][n]
            /\ Append(stored[c], pos[c])[Len(stored[c]) + 1] = pos[c]
        BY <2>2
      <3>3. \A n \in 1 .. Len(stored[c]) + 1 : n \in 1 .. Len(stored[c]) \/ n = Len(stored[c]) + 1
        BY <2>2
      <3> QED
        BY <2>2, <3>1, <3>2, <3>3
    <2>6. pos' \in [Consumers -> Nat] /\ \A d \in Consumers : WrittenUpTo(pos'[d])
      BY <2>1, <2>2, <2>4 DEF OffsetInv
    <2>7. /\ stored' \in [Consumers -> Seq(Nat)]
          /\ \A d \in Consumers : \A n \in 1 .. Len(stored'[d]) : WrittenUpTo(stored'[d][n])
      BY <2>1, <2>2, <2>5 DEF OffsetInv
    <2>8. /\ gpc' \in [Consumers -> Active]
          /\ \A d \in Consumers : gpc'[d] = "store" => d # c /\ gpc[d] = "store"
      BY <2>1 DEF OffsetInv, Active
    <2>9. \A d \in Consumers : gpc'[d] = "store" => pos'[d] \in applied
      BY <2>1, <2>8 DEF OffsetInv
    <2> QED
      BY <2>1, <2>6, <2>7, <2>8, <2>9 DEF OffsetInv, WrittenUpTo
  <1>3. ASSUME NEW c \in Consumers, Commit(c) \/ Revoke(c) \/ Shutdown(c) PROVE OffsetInv'
    <2>1. applied' = applied /\ pos' = pos
      BY <1>3 DEF Commit, Revoke, Shutdown, writeVars
    <2>2. PICK w \in {"poll", "out"} : gpc' = [gpc EXCEPT ![c] = w]
      BY <1>3 DEF Commit, Revoke, Shutdown, Goto
    <2>3. /\ committed' \in {committed} \cup {stored[c][n] : n \in 1 .. Len(stored[c])}
          /\ stored' \in {stored, [stored EXCEPT ![c] = <<>>]}
      <3>1. CASE CommitStoredOffsets(c)
        BY <3>1, CommitsWhatIsStored
      <3>2. CASE Shutdown(c)
        <4>1. stored[c] # <<>> => Len(stored[c]) \in 1 .. Len(stored[c])
          BY DEF OffsetInv
        <4> QED
          BY <3>2, <4>1 DEF Shutdown
      <3> QED
        BY <1>3, <3>1, <3>2 DEF Commit, Revoke
    <2>4. /\ committed' \in Nat /\ WrittenUpTo(committed')
          /\ stored' \in [Consumers -> Seq(Nat)]
          /\ \A d \in Consumers : \A n \in 1 .. Len(stored'[d]) : WrittenUpTo(stored'[d][n])
      BY <2>1, <2>3, CommitKeepsWritten
    <2>5. gpc' \in [Consumers -> Active] /\ \A d \in Consumers : gpc'[d] = "store" => gpc[d] = "store"
      BY <2>2 DEF OffsetInv, Active
    <2> QED
      BY <2>1, <2>4, <2>5 DEF OffsetInv, WrittenUpTo
  <1>4. ASSUME NEW c \in Consumers, WriteLock(c) \/ AcquireFails(c) PROVE OffsetInv'
    <2>1. UNCHANGED <<committed, applied, stored>>
      BY <1>4 DEF WriteLock, AcquireFails, brokerVars, writeVars
    <2>2. pos' = pos \/ pos' = [pos EXCEPT ![c] = committed]
      BY <1>4 DEF WriteLock, AcquireFails, LeaveCallback
    <2>3. gpc' \in {[gpc EXCEPT ![c] = "acquire"], [gpc EXCEPT ![c] = "poll"]}
      BY <1>4 DEF WriteLock, AcquireFails, LeaveCallback, Goto
    <2>4. /\ gpc' \in [Consumers -> Active]
          /\ \A d \in Consumers : gpc'[d] = "store" => d # c /\ gpc[d] = "store"
      BY <2>3 DEF OffsetInv, Active
    <2>5. /\ pos' \in [Consumers -> Nat]
          /\ \A d \in Consumers : WrittenUpTo(pos'[d]) /\ (d # c => pos'[d] = pos[d])
      BY <2>2 DEF OffsetInv
    <2> QED
      BY <2>1, <2>4, <2>5 DEF OffsetInv, WrittenUpTo
  <1>5. ASSUME NEW c \in Consumers, Assign(c) \/ ReadLock(c) \/ Poll(c) \/ WriteFails(c) PROVE OffsetInv'
    <2>1. UNCHANGED <<committed, applied, stored, pos>>
      BY <1>5 DEF Assign, ReadLock, Poll, WriteFails, brokerVars, writeVars
    <2>2. PICK w \in Active \ {"store"} : gpc' = [gpc EXCEPT ![c] = w]
      BY <1>5 DEF Assign, ReadLock, Poll, WriteFails, Goto, Active
    <2>3. gpc' \in [Consumers -> Active] /\ \A d \in Consumers : gpc'[d] = "store" => gpc[d] = "store"
      BY <2>2 DEF OffsetInv
    <2> QED
      BY <2>1, <2>3 DEF OffsetInv, WrittenUpTo
  <1>6. CASE Expire
    BY <1>6 DEF OffsetInv, WrittenUpTo, Expire, writeVars
  <1>7. CASE UNCHANGED vars
    BY <1>7 DEF OffsetInv, WrittenUpTo, vars, brokerVars, writeVars
  <1> QED
    BY <1>1, <1>2, <1>3, <1>4, <1>5, <1>6, <1>7 DEF Next

\* Whichever consumer commits, and whatever was lost, revoked or refused, no
\* message before the committed offset is left unwritten.
THEOREM NothingCommittedUnwritten == Spec => []CommittedIsApplied
  <1>1. Init => OffsetInv
    BY DEF Init, OffsetInv, WrittenUpTo, Active
  <1>2. OffsetInv => CommittedIsApplied
    BY DEF OffsetInv, WrittenUpTo, CommittedIsApplied
  <1> QED
    BY <1>1, <1>2, OffsetStep, PTL DEF Spec

----
(* Writes out of order *)

\* Past its callback, with a token to write with.
Running == {"poll", "write", "store", "commit", "stop"}

Valid(c) == lockToken[c] \in locks

RunningInv(c) ==
  /\ lockToken[c] \in 1 .. tokens
  /\ \A n \in 1 .. Len(stored[c]) : stored[c][n] < pos[c]
  /\ owner = c \/ Valid(c) =>
       /\ committed <= pos[c] /\ pos[c] <= head + 1
       /\ gpc[c] = "store" => pos[c] <= head
  /\ Valid(c) /\ owner \in Consumers \ {c} => gpc[owner] \notin Running

\* Only the consumer with the valid token writes, and only the owner commits:
\* if both are past their callbacks they are the same one, which goes forward
\* from the committed offset. A consumer that gave up the partition has no
\* offsets left to commit.
TimelyInv ==
  /\ RewritesAreFollowed
  /\ \A c \in Consumers : gpc[c] \in Running => RunningInv(c)
  /\ \A c \in Consumers : gpc[c] \notin Running => stored[c] = <<>>
  /\ \A c, d \in Consumers :
       c # d /\ gpc[c] \in Running /\ gpc[d] \in Running => lockToken[c] # lockToken[d]

RewriteInv ==
  /\ LockInv /\ OffsetInv
  /\ head \in Int /\ late \in BOOLEAN /\ kept \in BOOLEAN
  /\ lockToken \in [Consumers -> Nat]
  /\ late \/ kept \/ TimelyInv

\* A step of c that stays past its callback or before it, leaves the lock, the
\* owner and the writes alone, and stores and commits nothing.
LEMMA TimelyQuiet ==
  ASSUME RewriteInv, TimelyInv, NEW c \in Consumers, NEW w \in Active,
         gpc' = [gpc EXCEPT ![c] = w], gpc[c] \in Running <=> w \in Running, w # "store",
         UNCHANGED <<tokens, locks, lockToken, owner, committed, pos, stored, head>>
  PROVE  TimelyInv'
  <1>1. gpc \in [Consumers -> Active]
    BY DEF RewriteInv, OffsetInv
  <1>2. \A d \in Consumers : /\ gpc'[d] \in Running <=> gpc[d] \in Running
                             /\ gpc'[d] = "store" => gpc[d] = "store"
    BY <1>1
  <1>3. \A d \in Consumers : gpc'[d] \in Running => RunningInv(d)'
    BY <1>2 DEF TimelyInv, RunningInv, Valid
  <1> QED
    BY <1>2, <1>3 DEF TimelyInv, RewritesAreFollowed

\* The owner replaces the lock it read and goes on from the committed offset:
\* nobody else has a valid token any more.
LEMMA TimelyWriteLock ==
  ASSUME RewriteInv, TimelyInv, LockExists, NEW c \in Consumers, WriteLock(c), ~late'
  PROVE  TimelyInv'
  <1>1. LockInv /\ OffsetInv /\ head \in Int /\ lockToken \in [Consumers -> Nat]
    BY DEF RewriteInv
  <1>2. /\ gpc[c] = "swap" /\ gpc' = [gpc EXCEPT ![c] = "poll"] /\ owner = c
        /\ lockToken' = [lockToken EXCEPT ![c] = tokens + 1]
        /\ pos' = [pos EXCEPT ![c] = committed]
        /\ tokens' = tokens + 1
        /\ UNCHANGED <<owner, committed, stored, head>>
    BY DEF WriteLock, ReplaceLock, LeaveCallback, Goto, brokerVars, writeVars
  <1>3. locks' = {tokens + 1}
    <2>1. lockRead[c] \in locks
      BY <1>1, <1>2 DEF WriteLock, ReplaceLock, LockInv
    <2>2. locks = {lockRead[c]}
      BY <1>1, <2>1 DEF LockInv
    <2> QED
      BY <2>2 DEF WriteLock, ReplaceLock
  <1>4. tokens \in Nat /\ committed \in Nat /\ gpc \in [Consumers -> Active] /\ pos \in [Consumers -> Nat]
    BY <1>1 DEF LockInv, OffsetInv
  <1>5. committed <= head + 1 /\ stored[c] = <<>>
    BY <1>2 DEF TimelyInv, RewritesAreFollowed, Running
  <1>6. \A d \in Consumers \ {c} :
          gpc'[d] = gpc[d] /\ lockToken'[d] = lockToken[d] /\ pos'[d] = pos[d]
    BY <1>1, <1>2, <1>4
  <1>7. gpc'[c] = "poll" /\ lockToken'[c] = tokens + 1 /\ pos'[c] = committed
    BY <1>1, <1>2, <1>4
  <1>8. RunningInv(c)'
    BY <1>1, <1>2, <1>4, <1>5, <1>7 DEF RunningInv
  <1>9. ASSUME NEW d \in Consumers \ {c}, gpc[d] \in Running
        PROVE  RunningInv(d)' /\ lockToken'[d] # tokens + 1
    <2>1. RunningInv(d)
      BY <1>9 DEF TimelyInv
    <2>2. lockToken[d] \in 1 .. tokens /\ \A n \in 1 .. Len(stored[d]) : stored[d][n] < pos[d]
      BY <2>1 DEF RunningInv
    <2>3. ~Valid(d)' /\ lockToken'[d] \in 1 .. tokens' /\ lockToken'[d] # tokens + 1
      BY <1>2, <1>3, <1>4, <1>6, <2>2 DEF Valid
    <2> QED
      BY <1>2, <1>6, <2>2, <2>3 DEF RunningInv
  <1>10. \A d \in Consumers : gpc'[d] \in Running => RunningInv(d)'
    BY <1>6, <1>8, <1>9
  <1>11. \A d \in Consumers : gpc'[d] \notin Running => stored'[d] = <<>>
    BY <1>2, <1>5, <1>6 DEF TimelyInv
  <1>12. \A d, e \in Consumers :
           d # e /\ gpc'[d] \in Running /\ gpc'[e] \in Running => lockToken'[d] # lockToken'[e]
    BY <1>6, <1>7, <1>9 DEF TimelyInv
  <1> QED
    BY <1>2, <1>5, <1>10, <1>11, <1>12 DEF TimelyInv, RewritesAreFollowed

\* A failed attempt to acquire the lock invalidates the token at most.
LEMMA TimelyAcquireFails ==
  ASSUME RewriteInv, TimelyInv, LockExists, NEW c \in Consumers, AcquireFails(c), ~late'
  PROVE  TimelyInv'
  <1>1. LockInv /\ OffsetInv /\ tokens \in Nat /\ gpc \in [Consumers -> Active]
    BY DEF RewriteInv, LockInv
  <1>2. /\ gpc[c] \in {"acquire", "swap"} /\ gpc' = [gpc EXCEPT ![c] = "acquire"]
        /\ UNCHANGED <<lockToken, pos, owner, committed, stored, head>>
    BY DEF AcquireFails, LeaveCallback, Goto, brokerVars, writeVars
  <1>3. \/ UNCHANGED <<tokens, locks>>
        \/ tokens' = tokens + 1 /\ locks' = (locks \ {lockRead[c]}) \cup {tokens + 1}
    BY DEF AcquireFails, ReplaceLock, lockVars
  <1>4. \A d \in Consumers : /\ gpc'[d] \in Running <=> gpc[d] \in Running
                             /\ gpc'[d] = "store" => gpc[d] = "store"
    BY <1>1, <1>2 DEF Running
  <1>5. ASSUME NEW d \in Consumers, gpc'[d] \in Running PROVE RunningInv(d)'
    <2>1. RunningInv(d)
      BY <1>4, <1>5 DEF TimelyInv
    <2>2. lockToken[d] \in 1 .. tokens
      BY <2>1 DEF RunningInv
    <2>3. lockToken'[d] \in 1 .. tokens' /\ (Valid(d)' => Valid(d))
      BY <1>1, <1>2, <1>3, <2>2 DEF Valid
    <2>4. owner \in Consumers => (gpc'[owner] \in Running <=> gpc[owner] \in Running)
      BY <1>4
    <2> QED
      BY <1>2, <1>4, <2>1, <2>3, <2>4 DEF RunningInv
  <1> QED
    BY <1>2, <1>4, <1>5 DEF TimelyInv, RewritesAreFollowed

\* Who writes has the one valid token, so no other consumer is the owner and
\* past its callback.
LEMMA TimelyWrite ==
  ASSUME RewriteInv, TimelyInv, LockExists, NEW c \in Consumers, Write(c)
  PROVE  TimelyInv'
  <1>1. LockInv /\ OffsetInv /\ gpc \in [Consumers -> Active] /\ pos \in [Consumers -> Nat] /\ committed \in Nat
    BY DEF RewriteInv, OffsetInv
  <1>2. /\ gpc[c] = "write" /\ head' = pos[c] /\ Fenced(c)
        /\ gpc' = gpc \/ gpc' = [gpc EXCEPT ![c] = "store"]
        /\ UNCHANGED <<tokens, locks, lockToken, owner, committed, pos, stored>>
    BY DEF Write, Goto, brokerVars, lockVars, callbackVars
  <1>3. RunningInv(c) /\ gpc[c] \in Running
    BY <1>2 DEF TimelyInv, Running
  <1>4. Valid(c)
    BY <1>2, <1>3 DEF RunningInv, Fenced, Valid, NoToken
  <1>5. committed <= pos[c] /\ pos[c] \in Nat
    BY <1>1, <1>3, <1>4 DEF RunningInv
  <1>6. \A d \in Consumers \ {c} : gpc'[d] = gpc[d]
    BY <1>1, <1>2
  <1>7. gpc'[c] \in Running /\ \A d \in Consumers : gpc'[d] \in Running <=> gpc[d] \in Running
    BY <1>1, <1>2, <1>3, <1>6 DEF Running
  <1>8. RunningInv(c)'
    <2>1. owner \in Consumers => (gpc'[owner] \in Running <=> gpc[owner] \in Running)
      BY <1>7
    <2> QED
      BY <1>2, <1>3, <1>5, <2>1 DEF RunningInv, Valid
  <1>9. ASSUME NEW d \in Consumers \ {c}, gpc[d] \in Running PROVE RunningInv(d)'
    <2>1. RunningInv(d) /\ lockToken[d] # lockToken[c]
      BY <1>3, <1>9 DEF TimelyInv
    <2>2. ~Valid(d)
      <3>1. PICK t \in 1 .. tokens : locks = {t}
        BY <1>1 DEF LockInv
      <3> QED
        BY <1>4, <2>1, <3>1 DEF Valid
    <2>3. owner # d
      BY <1>3, <1>4, <1>9 DEF RunningInv
    <2>4. ~Valid(d)' /\ owner' # d
      BY <1>2, <2>2, <2>3 DEF Valid
    <2> QED
      BY <1>2, <2>1, <2>4 DEF RunningInv
  <1>10. \A d \in Consumers : gpc'[d] \in Running => RunningInv(d)'
    BY <1>6, <1>8, <1>9
  <1>11. RewritesAreFollowed'
    BY <1>1, <1>2, <1>5 DEF RewritesAreFollowed
  <1> QED
    BY <1>2, <1>7, <1>10, <1>11 DEF TimelyInv

LEMMA TimelyStoreOffset ==
  ASSUME RewriteInv, TimelyInv, NEW c \in Consumers, StoreOffset(c)
  PROVE  TimelyInv'
  <1>1. /\ OffsetInv /\ gpc \in [Consumers -> Active] /\ pos \in [Consumers -> Nat] /\ committed \in Nat
        /\ stored \in [Consumers -> Seq(Nat)] /\ head \in Int
    BY DEF RewriteInv, OffsetInv
  <1>2. /\ gpc[c] = "store"
        /\ stored' = [stored EXCEPT ![c] = Append(stored[c], pos[c])]
        /\ pos' = [pos EXCEPT ![c] = pos[c] + 1]
        /\ gpc' = [gpc EXCEPT ![c] = "commit"] \/ gpc' = [gpc EXCEPT ![c] = "poll"]
        /\ UNCHANGED <<tokens, locks, lockToken, owner, committed, head>>
    BY DEF StoreOffset, Goto, brokerVars, lockVars, callbackVars, writeVars
  <1>3. RunningInv(c) /\ gpc[c] \in Running
    BY <1>2 DEF TimelyInv, Running
  <1>4. \A d \in Consumers \ {c} : gpc'[d] = gpc[d] /\ stored'[d] = stored[d] /\ pos'[d] = pos[d]
    BY <1>1, <1>2
  <1>5. /\ gpc'[c] \in Running \ {"store"} /\ pos'[c] = pos[c] + 1 /\ stored'[c] = Append(stored[c], pos[c])
        /\ pos[c] \in Nat /\ stored[c] \in Seq(Nat)
    BY <1>1, <1>2 DEF Running
  <1>6. \A d \in Consumers : gpc'[d] \in Running <=> gpc[d] \in Running
    BY <1>3, <1>4, <1>5
  <1>7. owner \in Consumers => (gpc'[owner] \in Running <=> gpc[owner] \in Running)
    BY <1>6
  <1>8. \A n \in 1 .. Len(stored'[c]) : stored'[c][n] < pos'[c]
    <2> TAKE n \in 1 .. Len(stored'[c])
    <2>1. (n \in 1 .. Len(stored[c]) /\ stored'[c][n] = stored[c][n]) \/ stored'[c][n] = pos[c]
      BY <1>5
    <2>2. \A m \in 1 .. Len(stored[c]) : stored[c][m] < pos[c]
      BY <1>3 DEF RunningInv
    <2>3. \A m \in 1 .. Len(stored[c]) : stored[c][m] \in Nat
      BY <1>5
    <2> QED
      BY <1>5, <2>1, <2>2, <2>3
  <1>9. RunningInv(c)'
    <2>1. owner = c \/ Valid(c) => committed <= pos[c] + 1 /\ pos[c] + 1 <= head + 1
      BY <1>1, <1>2, <1>3, <1>5 DEF RunningInv
    <2> QED
      BY <1>2, <1>3, <1>5, <1>7, <1>8, <2>1 DEF RunningInv, Valid
  <1>10. ASSUME NEW d \in Consumers \ {c}, gpc[d] \in Running PROVE RunningInv(d)'
    <2>1. RunningInv(d)
      BY <1>10 DEF TimelyInv
    <2> QED
      BY <1>2, <1>4, <1>7, <2>1 DEF RunningInv, Valid
  <1>11. \A d \in Consumers : gpc'[d] \in Running => RunningInv(d)'
    BY <1>4, <1>9, <1>10
  <1>12. \A d \in Consumers : gpc'[d] \notin Running => stored'[d] = <<>>
    BY <1>4, <1>5 DEF TimelyInv
  <1> QED
    BY <1>2, <1>6, <1>11, <1>12 DEF TimelyInv, RewritesAreFollowed

\* What the owner commits it has written, and nobody but the owner commits. A
\* consumer that goes out has no offsets left, unless it kept them.
LEMMA TimelyCommit ==
  ASSUME RewriteInv, TimelyInv, NEW c \in Consumers, gpc[c] \in Running,
         committed' = committed \/ (owner = c /\ \E n \in 1 .. Len(stored[c]) : committed' = stored[c][n]),
         stored' = stored \/ stored' = [stored EXCEPT ![c] = <<>>],
         NEW w \in {"poll", "out"}, gpc' = [gpc EXCEPT ![c] = w],
         w = "poll" => UNCHANGED <<owner, lockToken>>,
         w = "out" => /\ stored'[c] = <<>>
                      /\ owner' = IF owner = c THEN None ELSE owner
                      /\ lockToken' = [lockToken EXCEPT ![c] = NoToken],
         UNCHANGED <<tokens, locks, pos, head>>
  PROVE  TimelyInv'
  <1>1. /\ gpc \in [Consumers -> Active] /\ pos \in [Consumers -> Nat] /\ committed \in Nat
        /\ stored \in [Consumers -> Seq(Nat)] /\ head \in Int /\ lockToken \in [Consumers -> Nat]
    BY DEF RewriteInv, OffsetInv
  <1>2. RunningInv(c) /\ pos[c] \in Nat /\ stored[c] \in Seq(Nat)
    BY <1>1 DEF TimelyInv
  <1>3. committed' # committed =>
          owner = c /\ committed' \in Nat /\ committed' < pos[c] /\ pos[c] <= head + 1
    BY <1>1, <1>2 DEF RunningInv
  <1>4. RewritesAreFollowed'
    BY <1>1, <1>2, <1>3 DEF TimelyInv, RewritesAreFollowed
  <1>5. \A d \in Consumers \ {c} :
          gpc'[d] = gpc[d] /\ stored'[d] = stored[d] /\ lockToken'[d] = lockToken[d]
    BY <1>1
  <1>6. gpc'[c] = w /\ stored'[c] \in {stored[c], <<>>}
    BY <1>1
  <1>7. \A d \in Consumers : owner' = d => owner = d
    BY GroupAssumption
  <1>8. \A d \in Consumers : gpc'[d] \in Running => gpc[d] \in Running
    BY <1>5
  <1>9. ASSUME w = "poll" PROVE RunningInv(c)'
    <2>1. lockToken'[c] = lockToken[c] /\ owner' = owner
      BY <1>9
    <2>2. \A n \in 1 .. Len(stored'[c]) : stored'[c][n] < pos[c]
      BY <1>2, <1>6 DEF RunningInv
    <2>3. owner = c \/ Valid(c) => committed' <= pos[c] /\ pos[c] <= head + 1
      BY <1>1, <1>2, <1>3 DEF RunningInv
    <2>4. Valid(c) /\ owner \in Consumers \ {c} => gpc'[owner] \notin Running
      BY <1>2, <1>5 DEF RunningInv
    <2> QED
      BY <1>2, <1>6, <1>9, <2>1, <2>2, <2>3, <2>4 DEF RunningInv, Valid
  <1>10. ASSUME NEW d \in Consumers \ {c}, gpc[d] \in Running PROVE RunningInv(d)'
    <2>1. RunningInv(d)
      BY <1>10 DEF TimelyInv
    <2>2. (owner' = d \/ Valid(d)') => (owner = d \/ Valid(d)) /\ committed' = committed
      <3>1. Valid(d)' => Valid(d)
        BY <1>5 DEF Valid
      <3>2. Valid(d) => owner # c
        BY <2>1 DEF RunningInv
      <3>3. owner' = d => owner = d /\ owner # c
        BY <1>7
      <3> QED
        BY <1>3, <3>1, <3>2, <3>3
    <2>3. Valid(d)' /\ owner' \in Consumers \ {d} => gpc'[owner'] \notin Running
      <3> SUFFICES ASSUME Valid(d)', owner' \in Consumers \ {d} PROVE gpc'[owner'] \notin Running
        OBVIOUS
      <3>1. owner' = owner /\ Valid(d)
        BY <1>5, <1>7 DEF Valid
      <3> QED
        BY <1>8, <2>1, <3>1 DEF RunningInv
    <2>4. lockToken'[d] \in 1 .. tokens' /\ \A n \in 1 .. Len(stored'[d]) : stored'[d][n] < pos'[d]
      BY <1>5, <2>1 DEF RunningInv
    <2> QED
      BY <1>5, <2>1, <2>2, <2>3, <2>4 DEF RunningInv
  <1>11. \A d \in Consumers : gpc'[d] \in Running => RunningInv(d)'
    BY <1>5, <1>6, <1>9, <1>10 DEF Running
  <1>12. \A d \in Consumers : gpc'[d] \notin Running => stored'[d] = <<>>
    BY <1>5, <1>6 DEF TimelyInv, Running
  <1>13. \A d, e \in Consumers :
           d # e /\ gpc'[d] \in Running /\ gpc'[e] \in Running => lockToken'[d] # lockToken'[e]
    <2>1. \A d \in Consumers : gpc'[d] \in Running => gpc[d] \in Running /\ lockToken'[d] = lockToken[d]
      BY <1>5, <1>6, <1>8 DEF Running
    <2> QED
      BY <2>1 DEF TimelyInv
  <1> QED
    BY <1>4, <1>11, <1>12, <1>13 DEF TimelyInv

\* The coordinator assigns the partition, or takes it away, without telling
\* the consumer that had it.
LEMMA TimelyCoordinator ==
  ASSUME RewriteInv, TimelyInv, Expire \/ \E c \in Consumers : Assign(c)
  PROVE  TimelyInv'
  <1>1. gpc \in [Consumers -> Active]
    BY DEF RewriteInv, OffsetInv
  <1>2. CASE Expire
    <2>1. owner' = None /\ None \notin Consumers
          /\ UNCHANGED <<gpc, tokens, locks, lockToken, committed, pos, stored, head>>
      BY <1>2, GroupAssumption DEF Expire, lockVars, callbackVars, writeVars
    <2>2. \A d \in Consumers : gpc'[d] \in Running => RunningInv(d)'
      BY <2>1 DEF TimelyInv, RunningInv, Valid
    <2> QED
      BY <2>1, <2>2 DEF TimelyInv, RewritesAreFollowed
  <1>3. ASSUME NEW c \in Consumers, Assign(c) PROVE TimelyInv'
    <2>1. /\ owner = None /\ owner' = c /\ gpc[c] = "out" /\ gpc' = [gpc EXCEPT ![c] = "acquire"]
          /\ UNCHANGED <<tokens, locks, lockToken, committed, pos, stored, head>>
      BY <1>3 DEF Assign, Goto, lockVars, writeVars
    <2>2. \A d \in Consumers : /\ gpc'[d] \in Running <=> gpc[d] \in Running
                               /\ gpc'[d] = "store" => gpc[d] = "store"
      BY <1>1, <2>1 DEF Running
    <2>3. gpc'[c] \notin Running
      BY <1>1, <2>1 DEF Running
    <2>4. \A d \in Consumers : gpc'[d] \in Running => RunningInv(d)'
      BY <2>1, <2>2, <2>3 DEF TimelyInv, RunningInv, Valid
    <2> QED
      BY <2>1, <2>2, <2>4 DEF TimelyInv, RewritesAreFollowed
  <1> QED
    BY <1>2, <1>3

\* commitStoredOffsets commits nothing or the last offset stored, for the owner.
LEMMA OwnerCommits ==
  ASSUME RewriteInv, NEW c \in Consumers, CommitStoredOffsets(c) \/ Shutdown(c)
  PROVE  /\ committed' = committed \/ (owner = c /\ \E n \in 1 .. Len(stored[c]) : committed' = stored[c][n])
         /\ stored' = stored \/ stored' = [stored EXCEPT ![c] = <<>>]
  <1>1. stored[c] \in Seq(Nat)
    BY DEF RewriteInv, OffsetInv
  <1>2. stored[c] # <<>> => Len(stored[c]) \in 1 .. Len(stored[c])
    BY <1>1
  <1> QED
    BY <1>2 DEF CommitStoredOffsets, Shutdown

\* As long as no consumer started late or kept offsets, every step keeps TimelyInv.
LEMMA TimelyStep ==
  ASSUME LockExists, RewriteInv, TimelyInv, Next, ~late', ~kept'
  PROVE  TimelyInv'
  <1>0. gpc \in [Consumers -> Active] /\ stored \in [Consumers -> Seq(Nat)]
    BY DEF RewriteInv, OffsetInv
  <1>1. ASSUME NEW c \in Consumers, ReadLock(c) \/ Poll(c) \/ WriteFails(c) PROVE TimelyInv'
    <2>1. UNCHANGED <<tokens, locks, lockToken, owner, committed, pos, stored, head>>
      BY <1>1 DEF ReadLock, Poll, WriteFails, brokerVars, lockVars, callbackVars, writeVars
    <2>2. PICK w \in Active : /\ gpc' = [gpc EXCEPT ![c] = w] /\ w # "store"
                              /\ gpc[c] \in Running <=> w \in Running
      BY <1>1 DEF ReadLock, Poll, WriteFails, Goto, Active, Running
    <2> QED
      BY <2>1, <2>2, TimelyQuiet
  <1>2. ASSUME NEW c \in Consumers, Commit(c) PROVE TimelyInv'
    <2>1. /\ gpc[c] \in Running /\ gpc' = [gpc EXCEPT ![c] = "poll"]
          /\ UNCHANGED <<tokens, locks, lockToken, owner, pos, head>>
      BY <1>2 DEF Commit, Goto, Running, lockVars, callbackVars, writeVars
    <2>2. CommitStoredOffsets(c)
      BY <1>2 DEF Commit
    <2> QED
      BY <2>1, <2>2, OwnerCommits, TimelyCommit
  <1>3. ASSUME NEW c \in Consumers, Revoke(c) \/ Shutdown(c) PROVE TimelyInv'
    <2>1. /\ gpc[c] \in Running /\ gpc' = [gpc EXCEPT ![c] = "out"]
          /\ owner' = IF owner = c THEN None ELSE owner
          /\ lockToken' = [lockToken EXCEPT ![c] = NoToken]
          /\ UNCHANGED <<tokens, locks, pos, head>>
      BY <1>3 DEF Revoke, Shutdown, Goto, Running, lockVars, writeVars
    <2>2. stored'[c] = <<>>
      BY <1>0, <1>3 DEF Revoke, Shutdown
    <2>3. CommitStoredOffsets(c) \/ Shutdown(c)
      BY <1>3 DEF Revoke
    <2> QED
      BY <2>1, <2>2, <2>3, OwnerCommits, TimelyCommit
  <1> QED
    BY <1>1, <1>2, <1>3, TimelyCoordinator, TimelyWriteLock, TimelyAcquireFails, TimelyWrite,
       TimelyStoreOffset DEF Next

LEMMA RewriteStep ==
  ASSUME LockExists
  PROVE  RewriteInv /\ [Next]_vars => RewriteInv'
  <1>1. ASSUME RewriteInv, Next PROVE RewriteInv'
    <2>1. LockInv' /\ OffsetInv'
      BY <1>1, LockStep, OffsetStep DEF RewriteInv
    <2>2. tokens \in Nat /\ pos \in [Consumers -> Nat] /\ head \in Int /\ lockToken \in [Consumers -> Nat]
          /\ late \in BOOLEAN /\ kept \in BOOLEAN
      BY <1>1 DEF RewriteInv, LockInv, OffsetInv
    <2>3. head' \in Int
      <3>1. head' = head \/ \E c \in Consumers : head' = pos[c]
        BY <1>1, ZenonT(20) DEF Next, Expire, Assign, ReadLock, WriteLock, AcquireFails, Poll, Write, WriteFails,
           StoreOffset, Commit, Revoke, Shutdown, writeVars
      <3> QED
        BY <2>2, <3>1
    <2>4. lockToken' \in [Consumers -> Nat]
      <3>1. lockToken' = lockToken \/ \E c \in Consumers, t \in {NoToken, tokens + 1} : lockToken' = [lockToken EXCEPT ![c] = t]
        BY <1>1, ZenonT(20) DEF Next, Expire, Assign, ReadLock, WriteLock, AcquireFails, LeaveCallback, Poll, Write,
           WriteFails, StoreOffset, Commit, Revoke, Shutdown, callbackVars
      <3>2. NoToken \in Nat /\ tokens + 1 \in Nat
        BY <2>2 DEF NoToken
      <3> QED
        BY <2>2, <3>1, <3>2
    <2>5. late' \in BOOLEAN /\ kept' \in BOOLEAN /\ (late => late') /\ (kept => kept')
      BY <1>1, <2>2, ZenonT(30) DEF Next, Expire, Assign, ReadLock, WriteLock, AcquireFails, LeaveCallback, Poll, Write,
         WriteFails, StoreOffset, Commit, Revoke, Shutdown
    <2>6. late' \/ kept' \/ TimelyInv'
      BY <1>1, <2>5, TimelyStep DEF RewriteInv
    <2> QED
      BY <2>1, <2>3, <2>4, <2>5, <2>6 DEF RewriteInv
  <1>2. ASSUME RewriteInv, UNCHANGED vars PROVE RewriteInv'
    <2>1. LockInv' /\ OffsetInv'
      BY <1>2, LockStep, OffsetStep DEF RewriteInv
    <2> QED
      BY <1>2, <2>1 DEF RewriteInv, TimelyInv, RunningInv, Valid, RewritesAreFollowed,
         vars, brokerVars, lockVars, callbackVars, writeVars
  <1> QED
    BY <1>1, <1>2

\* Where an earlier process left a lock to replace, the committed offset is never
\* past the message after the last write, so whatever a rewrite undoes is read
\* again; the exceptions are a consumer that started late, and one that kept
\* offsets over an assignment. (Two consumers that find no lock both create one,
\* and the fencing checks accept both.)
THEOREM RewritesFollowedInTime ==
  ASSUME LockExists
  PROVE  Spec => []RewritesAreFollowedInTime
  <1>1. Init => RewriteInv
    <2> SUFFICES ASSUME Init PROVE RewriteInv
      OBVIOUS
    <2>1. LockInv
      BY GroupAssumption DEF Init, LockInv, Active, NoToken
    <2>2. OffsetInv
      BY DEF Init, OffsetInv, WrittenUpTo, Active
    <2>3. \A c \in Consumers : gpc[c] \notin Running /\ stored[c] = <<>>
      BY DEF Init, Running
    <2>4. TimelyInv
      BY <2>3 DEF Init, TimelyInv, RewritesAreFollowed
    <2>5. head \in Int
      BY DEF Init
    <2>6. late \in BOOLEAN /\ kept \in BOOLEAN
      BY DEF Init
    <2>7. lockToken \in [Consumers -> Nat]
      BY DEF Init, NoToken
    <2> QED
      BY <2>1, <2>2, <2>4, <2>5, <2>6, <2>7 DEF RewriteInv
  <1>2. RewriteInv => RewritesAreFollowedInTime
    BY DEF RewriteInv, TimelyInv, RewritesAreFollowedInTime
  <1>3. RewriteInv /\ [Next]_vars => RewriteInv'
    BY RewriteStep
  <1> QED
    BY <1>1, <1>2, <1>3, PTL DEF Spec
====
