---------------------------- MODULE ProxyBudget ----------------------------
(***************************************************************************)
(* The durable spending reservation of jesterky-proxy (budget.rs reserve). *)
(* A worker is one request in one proxy process; all of them share the     *)
(* ledger file, the lock file and the staging file.  A process may fail or *)
(* be killed between any two steps, which frees its lock, and the machine  *)
(* may lose power, which also loses what was not synced: the contents of a *)
(* file until the file is, a rename until the directory is (the system may *)
(* write either back sooner).                                              *)
(***************************************************************************)
EXTENDS Naturals

CONSTANTS
  Worker,      \* requests in flight, in all proxies that share the ledger
  Config,      \* budget configurations
  ConfigOf,    \* the configuration of each worker's proxy
  Cost,        \* what a request may reserve: [micros, tokens]
  CapMicros,   \* max_cost_usd of a configuration, in micro-dollars
  CapTokens,   \* max_total_tokens of a configuration (2^64 - 1 when absent)
  MaxWord,     \* 2^64 - 1, where checked_add gives up
  MaxRequests, \* bound: requests made in all
  Nobody

ASSUME BudgetAssumption ==
  /\ Nobody \notin Worker
  /\ ConfigOf \in [Worker -> Config]
  /\ Cost \subseteq [micros : Nat, tokens : Nat]
  /\ MaxWord \in Nat /\ MaxRequests \in Nat
  /\ CapMicros \in [Config -> 0 .. MaxWord]
  /\ CapTokens \in [Config -> 0 .. MaxWord]

VARIABLES
  ledger,   \* the ledger file as processes see it
  durable,  \* the ledger file as a power loss would leave it
  pending,  \* the staging file
  lock,     \* the holder of the exclusive lock
  pc, want, \* per worker: where it is in reserve, and for what
  asked,    \* requests made, for the bound
  granted   \* the sum of the reservations reserve has returned Ok for

vars == <<ledger, durable, pending, lock, pc, want, asked, granted>>
files == <<ledger, durable, pending>>

\* A ledger file: absent, torn, or with the contents of struct Ledger; synced
\* tells whether its contents have reached the disk.
Word == 0 .. MaxWord
File == [st : {"absent", "torn", "ok"}, synced : BOOLEAN, config : Config,
         micros : Word, tokens : Word, requests : Nat]

\* "idle"  not in reserve      "write"  about to stage the charged ledger
\* "lock"  waiting for it      "sync"   staged, sync_all next
\* "read"  holds the lock      "rename" synced   "dir"  renamed, sync the directory
Critical == {"read", "write", "sync", "rename", "dir"}
Location == {"idle", "lock"} \cup Critical

NoFile(c) == [st |-> "absent", synced |-> TRUE, config |-> c,
              micros |-> 0, tokens |-> 0, requests |-> 0]
Torn(f) == [f EXCEPT !.st = "torn"]

Init ==
  /\ \E c \in Config : ledger = NoFile(c) /\ durable = NoFile(c) /\ pending = NoFile(c)
  /\ lock = Nobody
  /\ pc = [w \in Worker |-> "idle"]
  /\ want \in [Worker -> Cost]
  /\ asked = 0
  /\ granted = [micros |-> 0, tokens |-> 0, requests |-> 0]

Goto(w, from, to) == pc[w] = from /\ pc' = [pc EXCEPT ![w] = to]

-----------------------------------------------------------------------------
(* reserve                                                                 *)

\* A text-only request within the body limit works out its reservation.
Request(w, n) ==
  /\ asked < MaxRequests
  /\ Goto(w, "idle", "lock")
  /\ want' = [want EXCEPT ![w] = n]
  /\ asked' = asked + 1
  /\ UNCHANGED <<files, lock, granted>>

\* Faulty variant: the lock is shared.
LockShared(w) ==
  /\ Goto(w, "lock", "read") /\ lock' = w
  /\ UNCHANGED <<files, want, asked, granted>>

Lock(w) ==
  /\ lock = Nobody
  /\ Goto(w, "lock", "read") /\ lock' = w
  /\ UNCHANGED <<files, want, asked, granted>>

Usable(w) ==
  ledger.st = "absent" \/ (ledger.st = "ok" /\ ledger.config = ConfigOf[w])

\* A missing ledger is an empty one of this configuration.  Faulty variant:
\* the sum is compared before it is taken.
AdmitsBelowCap(w) ==
  /\ Usable(w)
  /\ ledger.micros < CapMicros[ConfigOf[w]]
  /\ ledger.tokens + want[w].tokens <= CapTokens[ConfigOf[w]]
Admits(w) ==
  /\ Usable(w)
  /\ ledger.micros + want[w].micros <= CapMicros[ConfigOf[w]]
  /\ ledger.tokens + want[w].tokens <= CapTokens[ConfigOf[w]]

\* The checked sums: their caps are words, so an overflow is refused with them.
ReadOk(w) ==
  /\ Admits(w)
  /\ Goto(w, "read", "write")
  /\ UNCHANGED <<files, lock, want, asked, granted>>

\* Returning an error drops the lock; the proxy answers 402.
Refuse(w) ==
  /\ ~Admits(w)
  /\ Goto(w, "read", "idle")
  /\ lock' = Nobody
  /\ UNCHANGED <<files, want, asked, granted>>

Charged(w) ==
  [st |-> "ok", synced |-> FALSE, config |-> ConfigOf[w],
   micros |-> ledger.micros + want[w].micros,
   tokens |-> ledger.tokens + want[w].tokens,
   requests |-> ledger.requests + 1]

WritePending(w) ==
  /\ Goto(w, "write", "sync")
  /\ pending' = Charged(w)
  /\ UNCHANGED <<ledger, durable, lock, want, asked, granted>>

\* Faulty variant: sync_all is not called.
SyncPendingSkipped(w) ==
  Goto(w, "sync", "rename") /\ UNCHANGED <<files, lock, want, asked, granted>>
SyncPending(w) ==
  /\ Goto(w, "sync", "rename")
  /\ pending' = [pending EXCEPT !.synced = TRUE]
  /\ UNCHANGED <<ledger, durable, lock, want, asked, granted>>

\* The old ledger is replaced, for processes at once, on disk by some later sync.
Rename(w) ==
  /\ Goto(w, "rename", "dir")
  /\ ledger' = pending
  /\ pending' = [pending EXCEPT !.st = "absent"]
  /\ UNCHANGED <<durable, lock, want, asked, granted>>

\* reserve returns Ok and the request goes upstream, once.
Grant(w) ==
  granted' = [micros |-> granted.micros + want[w].micros,
              tokens |-> granted.tokens + want[w].tokens,
              requests |-> granted.requests + 1]

\* Faulty variant: the directory is not synced.
SyncDirSkipped(w) ==
  /\ Goto(w, "dir", "idle") /\ lock' = Nobody
  /\ Grant(w)
  /\ UNCHANGED <<files, want, asked>>
SyncDir(w) ==
  /\ Goto(w, "dir", "idle") /\ lock' = Nobody
  /\ durable' = ledger
  /\ Grant(w)
  /\ UNCHANGED <<ledger, pending, want, asked>>

-----------------------------------------------------------------------------
(* crashes                                                                 *)

\* The file system fails, or the process is killed, perhaps inside the write.
\* The lock goes with it; what has been renamed stays, unspent.
Abandon(w) ==
  /\ pc[w] # "idle"
  /\ pc' = [pc EXCEPT ![w] = "idle"]
  /\ lock' = IF lock = w THEN Nobody ELSE lock
  /\ pending' \in {pending, IF pc[w] = "write" THEN Torn(pending) ELSE pending}
  /\ UNCHANGED <<ledger, durable, want, asked, granted>>

\* A rename may reach the disk at any time, with as much of the contents as has.
WriteBack ==
  /\ durable' = IF ledger.synced THEN ledger ELSE Torn(ledger)
  /\ UNCHANGED <<ledger, pending, lock, pc, want, asked, granted>>

PowerLoss ==
  /\ ledger' = durable
  /\ pending' = Torn(pending)
  /\ lock' = Nobody
  /\ pc' = [w \in Worker |-> "idle"]
  /\ UNCHANGED <<durable, want, asked, granted>>

-----------------------------------------------------------------------------
Reserve(w) ==
  \/ \E n \in Cost : Request(w, n)
  \/ Lock(w) \/ ReadOk(w) \/ Refuse(w)
  \/ WritePending(w) \/ SyncPending(w) \/ Rename(w) \/ SyncDir(w)

Next ==
  \/ \E w \in Worker : Reserve(w) \/ Abandon(w)
  \/ WriteBack
  \/ PowerLoss

Spec == Init /\ [][Next]_vars

-----------------------------------------------------------------------------
(* Properties                                                              *)

\* Every variable has its type; what a ledger counts fits the words it is kept in.
TypeOK ==
  /\ ledger \in File /\ durable \in File /\ pending \in File
  /\ lock \in Worker \cup {Nobody}
  /\ pc \in [Worker -> Location]
  /\ want \in [Worker -> Cost]
  /\ asked \in Nat
  /\ granted \in [micros : Nat, tokens : Nat, requests : Nat]

\* Whatever crashed in between, the allowance handed out so far is booked in
\* the ledger that would survive a power loss now: no restart forgets it.
GrantsAreDurable ==
  /\ granted.micros <= durable.micros
  /\ granted.tokens <= durable.tokens
  /\ granted.requests <= durable.requests

\* All proxies together never hand out more than the cap of the configuration
\* the ledger belongs to, however their steps interleave and whoever restarts.
WithinCap ==
  granted.requests > 0 =>
    /\ granted.micros <= CapMicros[durable.config]
    /\ granted.tokens <= CapTokens[durable.config]

\* No crash leaves a ledger that cannot be read: it would refuse every later
\* request.
LedgerReadable == ledger.st # "torn" /\ durable.st # "torn"

\* A reservation is never refunded, and a ledger keeps its configuration.
KeepsBooks ==
  /\ durable'.micros >= durable.micros
  /\ durable'.tokens >= durable.tokens
  /\ durable'.requests >= durable.requests
  /\ durable.st = "ok" => durable'.st = "ok" /\ durable'.config = durable.config
NeverRefunded == [][KeepsBooks]_vars
=============================================================================
