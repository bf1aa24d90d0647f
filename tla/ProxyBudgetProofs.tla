------------------------- MODULE ProxyBudgetProofs -------------------------
(***************************************************************************)
(* Proofs about the spending reservation, for any number of workers, any   *)
(* configurations, costs and caps, and any number of crashes.              *)
(***************************************************************************)
EXTENDS ProxyBudget, TLAPS

-----------------------------------------------------------------------------
(* The inductive invariant                                                 *)

\* The worker between the lock and its release is the holder, and no other.
LockOwned == \A w \in Worker : pc[w] \in Critical <=> lock = w

\* What is in a ledger file is within the caps of its configuration.
Books(f) ==
  /\ f.st \in {"absent", "ok"} /\ f.synced
  /\ f.st = "absent" => f.micros = 0 /\ f.tokens = 0 /\ f.requests = 0
  /\ f.st = "ok" => f.micros <= CapMicros[f.config] /\ f.tokens <= CapTokens[f.config]

AtMost(f, g) == f.micros <= g.micros /\ f.tokens <= g.tokens /\ f.requests <= g.requests

\* The file as seen is never behind the file on disk, nor that behind the grants.
Ordered ==
  /\ Books(ledger) /\ Books(durable)
  /\ AtMost(granted, durable) /\ AtMost(durable, ledger)
  /\ durable.st = "ok" => ledger.st = "ok" /\ ledger.config = durable.config

\* What the holder has admitted, staged and renamed so far.
Staged ==
  \A w \in Worker :
    /\ pc[w] \in {"write", "sync", "rename"} => Admits(w)
    /\ pc[w] \in {"sync", "rename"} =>
         /\ pending.st = "ok" /\ pending.config = ConfigOf[w]
         /\ pending.micros = ledger.micros + want[w].micros
         /\ pending.tokens = ledger.tokens + want[w].tokens
         /\ pending.requests = ledger.requests + 1
    /\ pc[w] = "rename" => pending.synced
    /\ pc[w] = "dir" =>
         /\ ledger.st = "ok"
         /\ granted.micros + want[w].micros <= ledger.micros
         /\ granted.tokens + want[w].tokens <= ledger.tokens
         /\ granted.requests + 1 <= ledger.requests

IInv == TypeOK /\ LockOwned /\ Ordered /\ Staged

-----------------------------------------------------------------------------
LEMMA InitInv == Init => IInv
  BY BudgetAssumption DEF Init, IInv, TypeOK, LockOwned, Ordered, Staged, Books, AtMost,
     NoFile, File, Word, Location, Critical

\* Type correctness is preserved by every step.
LEMMA TypeStep == IInv /\ [Next]_vars => TypeOK'
<1> SUFFICES ASSUME TypeOK, Staged, [Next]_vars PROVE TypeOK'
  BY DEF IInv
<1> USE BudgetAssumption DEF TypeOK, File, Word, Location, Critical, files
<1>1. ASSUME NEW w \in Worker, NEW n \in Cost, Request(w, n) PROVE TypeOK'
  BY <1>1 DEF Request, Goto
<1>2. ASSUME NEW w \in Worker, Lock(w) PROVE TypeOK'
  BY <1>2 DEF Lock, Goto
<1>3. ASSUME NEW w \in Worker, ReadOk(w) PROVE TypeOK'
  BY <1>3 DEF ReadOk, Goto
<1>4. ASSUME NEW w \in Worker, Refuse(w) PROVE TypeOK'
  BY <1>4 DEF Refuse, Goto
<1>5. ASSUME NEW w \in Worker, WritePending(w) PROVE TypeOK'
  <2>1. want[w] \in [micros : Nat, tokens : Nat]
    OBVIOUS
  <2>2. /\ ledger.micros + want[w].micros \in Word
        /\ ledger.tokens + want[w].tokens \in Word
    BY <1>5, <2>1 DEF Staged, Admits, WritePending, Goto
  <2>3. Charged(w) \in File
    BY <2>1, <2>2 DEF Charged
  <2> QED BY <1>5, <2>3 DEF WritePending, Goto
<1>6. ASSUME NEW w \in Worker, SyncPending(w) PROVE TypeOK'
  BY <1>6 DEF SyncPending, Goto
<1>7. ASSUME NEW w \in Worker, Rename(w) PROVE TypeOK'
  BY <1>7 DEF Rename, Goto
<1>8. ASSUME NEW w \in Worker, SyncDir(w) PROVE TypeOK'
  <2>1. want[w] \in [micros : Nat, tokens : Nat]
    OBVIOUS
  <2> QED BY <1>8, <2>1 DEF SyncDir, Goto, Grant
<1>9. ASSUME NEW w \in Worker, Abandon(w) PROVE TypeOK'
  BY <1>9 DEF Abandon, Torn
<1>10. ASSUME WriteBack PROVE TypeOK'
  BY <1>10 DEF WriteBack, Torn
<1>11. ASSUME PowerLoss PROVE TypeOK'
  BY <1>11 DEF PowerLoss, Torn
<1>12. ASSUME UNCHANGED vars PROVE TypeOK'
  BY <1>12 DEF vars
<1> QED
  BY <1>1, <1>2, <1>3, <1>4, <1>5, <1>6, <1>7, <1>8, <1>9, <1>10, <1>11, <1>12
  DEF Next, Reserve

\* Only the holder of the lock touches the files, and it is alone.
LEMMA LockStep == TypeOK /\ LockOwned /\ [Next]_vars => LockOwned'
<1> SUFFICES ASSUME TypeOK, LockOwned, [Next]_vars PROVE LockOwned'
  OBVIOUS
<1> USE BudgetAssumption DEF TypeOK, LockOwned, Location, Critical, files
<1>1. ASSUME NEW w \in Worker, NEW n \in Cost, Request(w, n) PROVE LockOwned'
  BY <1>1 DEF Request, Goto
<1>2. ASSUME NEW w \in Worker, Lock(w) PROVE LockOwned'
  BY <1>2 DEF Lock, Goto
<1>3. ASSUME NEW w \in Worker, ReadOk(w) PROVE LockOwned'
  BY <1>3 DEF ReadOk, Goto
<1>4. ASSUME NEW w \in Worker, Refuse(w) PROVE LockOwned'
  BY <1>4 DEF Refuse, Goto
<1>5. ASSUME NEW w \in Worker, WritePending(w) PROVE LockOwned'
  BY <1>5 DEF WritePending, Goto
<1>6. ASSUME NEW w \in Worker, SyncPending(w) PROVE LockOwned'
  BY <1>6 DEF SyncPending, Goto
<1>7. ASSUME NEW w \in Worker, Rename(w) PROVE LockOwned'
  BY <1>7 DEF Rename, Goto
<1>8. ASSUME NEW w \in Worker, SyncDir(w) PROVE LockOwned'
  BY <1>8 DEF SyncDir, Goto
<1>9. ASSUME NEW w \in Worker, Abandon(w) PROVE LockOwned'
  BY <1>9 DEF Abandon
<1>10. ASSUME WriteBack PROVE LockOwned'
  BY <1>10 DEF WriteBack
<1>11. ASSUME PowerLoss PROVE LockOwned'
  BY <1>11 DEF PowerLoss
<1>12. ASSUME UNCHANGED vars PROVE LockOwned'
  BY <1>12 DEF vars
<1> QED
  BY <1>1, <1>2, <1>3, <1>4, <1>5, <1>6, <1>7, <1>8, <1>9, <1>10, <1>11, <1>12
  DEF Next, Reserve

\* The caps, the readable ledgers and the order of the books are preserved.
LEMMA OrderedStep == IInv /\ [Next]_vars => Ordered'
<1> SUFFICES ASSUME IInv, [Next]_vars PROVE Ordered'
  OBVIOUS
<1> USE BudgetAssumption DEF IInv, TypeOK, Ordered, Books, AtMost, File, Word, files
<1>1. CASE UNCHANGED <<ledger, durable, granted>>
  BY <1>1
<1>2. ASSUME NEW w \in Worker, Rename(w) PROVE Ordered'
  <2>1. /\ Admits(w) /\ pending.st = "ok" /\ pending.config = ConfigOf[w] /\ pending.synced
        /\ pending.micros = ledger.micros + want[w].micros
        /\ pending.tokens = ledger.tokens + want[w].tokens
        /\ pending.requests = ledger.requests + 1
    BY <1>2 DEF Staged, Rename, Goto
  <2>2. /\ want[w].micros \in Nat /\ want[w].tokens \in Nat
    OBVIOUS
  <2>3. /\ pending.micros <= CapMicros[pending.config]
        /\ pending.tokens <= CapTokens[pending.config]
    BY <2>1 DEF Admits
  <2>4. AtMost(ledger, pending)
    BY <2>1, <2>2
  <2>5. durable.st = "ok" => pending.config = durable.config
    BY <2>1 DEF Admits, Usable
  <2>6. ledger' = pending /\ UNCHANGED <<durable, granted>>
    BY <1>2 DEF Rename
  <2>7. Books(ledger)' /\ Books(durable)'
    BY <2>1, <2>3, <2>6
  <2>8. AtMost(granted, durable)' /\ AtMost(durable, ledger)'
    BY <2>4, <2>6
  <2> QED BY <2>1, <2>5, <2>6, <2>7, <2>8
<1>3. ASSUME NEW w \in Worker, SyncDir(w) PROVE Ordered'
  <2>1. /\ ledger.st = "ok"
        /\ granted.micros + want[w].micros <= ledger.micros
        /\ granted.tokens + want[w].tokens <= ledger.tokens
        /\ granted.requests + 1 <= ledger.requests
    BY <1>3 DEF Staged, SyncDir, Goto
  <2>2. want[w].micros \in Nat /\ want[w].tokens \in Nat
    OBVIOUS
  <2>3. durable' = ledger /\ ledger' = ledger /\ Grant(w)
    BY <1>3 DEF SyncDir
  <2>4. AtMost(granted, durable)'
    BY <2>1, <2>2, <2>3 DEF Grant
  <2> QED BY <2>3, <2>4
<1>4. ASSUME WriteBack \/ PowerLoss PROVE Ordered'
  BY <1>4 DEF WriteBack, PowerLoss
<1> QED
  <2>1. ASSUME NEW w \in Worker,
               \/ \E n \in Cost : Request(w, n)
               \/ Lock(w) \/ ReadOk(w) \/ Refuse(w) \/ WritePending(w)
               \/ SyncPending(w) \/ Abandon(w)
        PROVE UNCHANGED <<ledger, durable, granted>>
    BY <2>1 DEF Request, Lock, ReadOk, Refuse, WritePending, SyncPending, Abandon
  <2> QED BY <1>1, <1>2, <1>3, <1>4, <2>1 DEF Next, Reserve, vars

\* What one worker has staged, and no step of another can touch.
StagedBy(w) ==
  /\ pc[w] \in {"write", "sync", "rename"} => Admits(w)
  /\ pc[w] \in {"sync", "rename"} =>
       /\ pending.st = "ok" /\ pending.config = ConfigOf[w]
       /\ pending.micros = ledger.micros + want[w].micros
       /\ pending.tokens = ledger.tokens + want[w].tokens
       /\ pending.requests = ledger.requests + 1
  /\ pc[w] = "rename" => pending.synced
  /\ pc[w] = "dir" =>
       /\ ledger.st = "ok"
       /\ granted.micros + want[w].micros <= ledger.micros
       /\ granted.tokens + want[w].tokens <= ledger.tokens
       /\ granted.requests + 1 <= ledger.requests

\* A worker outside the lock, before and after, has nothing staged.
LEMMA NothingStaged ==
  ASSUME NEW u \in Worker, pc[u] \notin Critical \ {"read"} PROVE StagedBy(u)
  BY DEF StagedBy, Critical

\* The staged ledger is preserved: others are outside the lock meanwhile.
LEMMA StagedStep == IInv /\ [Next]_vars => Staged'
<1> SUFFICES ASSUME IInv, [Next]_vars, NEW u \in Worker PROVE StagedBy(u)'
  BY DEF Staged, StagedBy
<1> USE BudgetAssumption DEF IInv, TypeOK, LockOwned, Location, Critical, files
<1>0. StagedBy(u)
  BY DEF Staged, StagedBy
<1>1. ASSUME NEW w \in Worker, NEW n \in Cost, Request(w, n) PROVE StagedBy(u)'
  BY <1>0, <1>1 DEF Request, Goto, StagedBy, Admits, Usable
<1>2. ASSUME NEW w \in Worker, Lock(w) PROVE StagedBy(u)'
  BY <1>0, <1>2 DEF Lock, Goto, StagedBy, Admits, Usable
<1>3. ASSUME NEW w \in Worker, ReadOk(w) PROVE StagedBy(u)'
  BY <1>0, <1>3 DEF ReadOk, Goto, StagedBy, Admits, Usable
<1>4. ASSUME NEW w \in Worker, Refuse(w) PROVE StagedBy(u)'
  BY <1>0, <1>4 DEF Refuse, Goto, StagedBy, Admits, Usable
<1>5. ASSUME NEW w \in Worker, WritePending(w) PROVE StagedBy(u)'
  <2>1. CASE u = w
    BY <1>0, <1>5, <2>1 DEF WritePending, Goto, StagedBy, Admits, Usable, Charged
  <2>2. CASE u # w
    BY <1>5, <2>2 DEF WritePending, Goto, StagedBy
  <2> QED BY <2>1, <2>2
<1>6. ASSUME NEW w \in Worker, SyncPending(w) PROVE StagedBy(u)'
  <2>1. CASE u = w
    BY <1>0, <1>6, <2>1 DEF SyncPending, Goto, StagedBy, Admits, Usable, File
  <2>2. CASE u # w
    BY <1>6, <2>2 DEF SyncPending, Goto, StagedBy
  <2> QED BY <2>1, <2>2
<1>7. ASSUME NEW w \in Worker, Rename(w) PROVE StagedBy(u)'
  <2>1. CASE u = w
    <3>1. want[w].micros \in Nat /\ want[w].tokens \in Nat
      OBVIOUS
    <3>2. /\ granted.micros <= ledger.micros /\ granted.tokens <= ledger.tokens
          /\ granted.requests <= ledger.requests
      BY DEF Ordered, AtMost, File, Word
    <3>3. /\ pending.st = "ok"
          /\ pending.micros = ledger.micros + want[u].micros
          /\ pending.tokens = ledger.tokens + want[u].tokens
          /\ pending.requests = ledger.requests + 1
      BY <1>0, <1>7, <2>1 DEF Rename, Goto, StagedBy
    <3>4. /\ ledger.micros \in Nat /\ ledger.tokens \in Nat /\ ledger.requests \in Nat
          /\ granted \in [micros : Nat, tokens : Nat, requests : Nat]
      BY DEF File, Word
    <3>5. ledger' = pending /\ pc' = [pc EXCEPT ![u] = "dir"] /\ UNCHANGED <<want, granted>>
      BY <1>7, <2>1 DEF Rename, Goto
    <3>6. pc'[u] = "dir"
      BY <3>5
    <3> HIDE DEF IInv, TypeOK, LockOwned
    <3> QED BY <2>1, <3>1, <3>2, <3>3, <3>4, <3>5, <3>6 DEF StagedBy
  <2>2. CASE u # w
    BY <1>7, <2>2 DEF Rename, Goto, StagedBy
  <2> QED BY <2>1, <2>2
<1>8. ASSUME NEW w \in Worker, SyncDir(w) PROVE StagedBy(u)'
  BY <1>8 DEF SyncDir, Goto, StagedBy
<1>9. ASSUME NEW w \in Worker, Abandon(w) PROVE StagedBy(u)'
  <2>1. CASE u = w
    BY <1>9, <2>1 DEF Abandon, StagedBy
  <2>2. CASE u # w
    BY <1>0, <1>9, <2>2 DEF Abandon, StagedBy, Admits, Usable
  <2> QED BY <2>1, <2>2
<1>10. ASSUME WriteBack PROVE StagedBy(u)'
  BY <1>0, <1>10 DEF WriteBack, StagedBy, Admits, Usable
<1>11. ASSUME PowerLoss PROVE StagedBy(u)'
  BY <1>11 DEF PowerLoss, StagedBy
<1>12. ASSUME UNCHANGED vars PROVE StagedBy(u)'
  BY <1>0, <1>12 DEF vars, StagedBy, Admits, Usable
<1> QED
  BY <1>1, <1>2, <1>3, <1>4, <1>5, <1>6, <1>7, <1>8, <1>9, <1>10, <1>11, <1>12
  DEF Next, Reserve

LEMMA InvStep == IInv /\ [Next]_vars => IInv'
  BY TypeStep, LockStep, OrderedStep, StagedStep DEF IInv

LEMMA Inductive == Spec => []IInv
<1>1. Init => IInv
  BY InitInv
<1>2. IInv /\ [Next]_vars => IInv'
  BY InvStep
<1> QED BY <1>1, <1>2, PTL DEF Spec

-----------------------------------------------------------------------------
(* The theorems                                                            *)

\* Every variable keeps its type, whatever crashes.
THEOREM TypeCorrect == Spec => []TypeOK
<1>1. IInv => TypeOK
  BY DEF IInv
<1> QED BY <1>1, Inductive, PTL

\* What has been granted is on disk: no crash makes reserve forget it.
THEOREM NothingIsForgotten == Spec => []GrantsAreDurable
<1>1. IInv => GrantsAreDurable
  BY DEF IInv, Ordered, AtMost, GrantsAreDurable
<1> QED BY <1>1, Inductive, PTL

\* The cap holds for all proxies together.
THEOREM CapIsKept == Spec => []WithinCap
<1>1. IInv => WithinCap
  BY BudgetAssumption DEF IInv, TypeOK, File, Word, Ordered, Books, AtMost, WithinCap
<1> QED BY <1>1, Inductive, PTL

\* The ledger can always be read, whatever crashes.
THEOREM LedgerStaysReadable == Spec => []LedgerReadable
<1>1. IInv => LedgerReadable
  BY DEF IInv, Ordered, Books, LedgerReadable
<1> QED BY <1>1, Inductive, PTL

\* Nothing booked on disk is ever taken back.
THEOREM NothingIsRefunded == Spec => NeverRefunded
<1>1. IInv /\ [Next]_vars => [KeepsBooks]_vars
  <2> SUFFICES ASSUME IInv, [Next]_vars
               PROVE /\ durable' \in {durable, ledger}
                     /\ durable.micros \in Nat /\ durable.tokens \in Nat
                     /\ durable.requests \in Nat
    BY DEF IInv, Ordered, AtMost, TypeOK, File, Word, KeepsBooks
  <2>1. durable.micros \in Nat /\ durable.tokens \in Nat /\ durable.requests \in Nat
    BY DEF IInv, TypeOK, File, Word
  <2>2. ledger.synced
    BY DEF IInv, Ordered, Books
  <2>3. durable' \in {durable, ledger}
    BY <2>2 DEF Next, Reserve, Request, Lock, ReadOk, Refuse, WritePending, SyncPending,
       Rename, SyncDir, Abandon, WriteBack, PowerLoss, files, vars
  <2> QED BY <2>1, <2>3
<1> QED BY <1>1, Inductive, PTL DEF Spec, NeverRefunded
=============================================================================
