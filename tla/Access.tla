------------------------------- MODULE Access -------------------------------
(***************************************************************************)
(* Sign-in attempts (auth.py) and the durable budgets they are charged to  *)
(* before the password is hashed (auth_security.py).  Every API worker     *)
(* shares the budgets; a worker reads the clock before it holds the        *)
(* database's write lock, may crash between any two transactions, and      *)
(* hashes outside of them.  Times are in units of LOCK_SECONDS / Lock.     *)
(***************************************************************************)
EXTENDS Integers, FiniteSets

CONSTANTS
  Accounts, Addresses,  \* the e-mail addresses tried and the peers they are tried from
  Logins,               \* bounds the requests: 1 .. Logins, numbered as they arrive
  Clock,                \* bounds the time
  Soft, Hard, Lock      \* 5 and 10 attempts, LOCK_SECONDS

VARIABLES
  now,      \* the clock
  budgets,  \* auth_login_budgets: the rows by key
  logins,   \* each sign-in request
  order     \* how many reservations were committed

vars == <<now, budgets, logins, order>>

Ids == 1 .. Logins
Keys == Accounts \cup Addresses
NoRow == [attempts |-> 0, blocked_until |-> 0, expires_at |-> 0, revision |-> 0, principal |-> ""]
Rows == {k \in Keys : budgets[k] # NoRow}

\* A request: its reservation's number among all (0 without one), and the keys
\* it still counts at (for the properties; the code has only the rows).
NoLogin == [at |-> "new", account |-> "", address |-> "", read |-> 0, place |-> 0, counts |-> {}]
Charged(i) == {logins[i].account, logins[i].address}

-----------------------------------------------------------------------------
Init ==
  /\ now = 0 /\ order = 0
  /\ budgets = [k \in Keys |-> NoRow]
  /\ logins = [i \in Ids |-> NoLogin]

\* An attempt counts for one lock's time.
Tick ==
  /\ now < Clock /\ now' = now + 1
  /\ logins' = [i \in Ids |-> IF logins[i].read + Lock <= now + 1
                              THEN [logins[i] EXCEPT !.counts = {}] ELSE logins[i]]
  /\ UNCHANGED <<budgets, order>>

\* The request arrives and reserve_login reads the clock; its transaction
\* starts when the write lock is free.
Arrive(i) ==
  /\ logins[i].at = "new" /\ (i > 1 => logins[i - 1].at # "new")
  /\ \E account \in Accounts, address \in Addresses :
       logins' = [logins EXCEPT ![i] = [NoLogin EXCEPT !.at = "reserving", !.account = account,
                                                       !.address = address, !.read = now]]
  /\ UNCHANGED <<now, budgets, order>>

\* A row as the transaction finds it: inserted when missing, reset when expired.
Found(k, time) == IF budgets[k].expires_at <= time THEN NoRow ELSE budgets[k]

Delay(attempts) ==
  IF attempts >= Hard THEN Lock ELSE IF attempts >= Soft THEN 2 ^ (attempts - Soft) ELSE 0

Blocked(i) == \E k \in Charged(i) : Found(k, logins[i].read).blocked_until > logins[i].read

\* The row once request i is charged to it.
Charge(k, i) ==
  LET row == Found(k, logins[i].read)
  IN  [attempts |-> row.attempts + 1,
       blocked_until |-> logins[i].read + Delay(row.attempts + 1),
       expires_at |-> logins[i].read + Lock,
       revision |-> i,
       principal |-> IF row.principal \in {"", logins[i].account} THEN logins[i].account ELSE "*"]

\* One committed transaction of reserve_login, which also sweeps expired rows
\* (the first 200: a row left over is reset when it is found).
Reserve(i) ==
  /\ logins[i].at = "reserving" /\ ~Blocked(i)
  /\ budgets' = [k \in Keys |-> IF k \in Charged(i) THEN Charge(k, i) ELSE Found(k, logins[i].read)]
  /\ order' = order + 1
  /\ logins' = [logins EXCEPT ![i].at = "hashing", ![i].place = order + 1,
                  ![i].counts = IF logins[i].read + Lock <= now THEN {} ELSE Charged(i)]
  /\ UNCHANGED now

\* Refused: 429, and the transaction is rolled back.
Refuse(i) ==
  /\ logins[i].at = "reserving" /\ Blocked(i)
  /\ logins' = [logins EXCEPT ![i] = [NoLogin EXCEPT !.at = "over"]]
  /\ UNCHANGED <<now, budgets, order>>

\* The password, or the dummy hash of an unknown account, does not match: 401.
\* Or the worker dies, or the client gives up, before that is known.
Fail(i) ==
  /\ logins[i].at = "hashing"
  /\ logins' = [logins EXCEPT ![i].at = "over"]
  /\ UNCHANGED <<now, budgets, order>>

\* It matches: the session is committed; clear_success is yet to run.
Match(i) ==
  /\ logins[i].at = "hashing"
  /\ logins' = [logins EXCEPT ![i].at = "clearing"]
  /\ UNCHANGED <<now, budgets, order>>

\* Mutant: whatever was charged since is forgotten too.
ClearableAnyTime(i) == {k \in Charged(i) : budgets[k].principal # "*"}

\* The rows nothing was charged to since, unless several accounts share them.
Clearable(i) ==
  {k \in Charged(i) : budgets[k].revision = i /\ budgets[k].principal # "*"}

\* clear_success deletes them; what the same account tried before stops counting.
Clear(i) ==
  /\ logins[i].at = "clearing"
  /\ budgets' = [k \in Keys |-> IF k \in Clearable(i) THEN NoRow ELSE budgets[k]]
  /\ logins' = [j \in Ids |->
       LET before == logins[j].account = logins[i].account /\ logins[j].place <= logins[i].place
       IN  [logins[j] EXCEPT !.at = IF j = i THEN "over" ELSE @,
                             !.counts = IF before THEN @ \ Clearable(i) ELSE @]]
  /\ UNCHANGED <<now, order>>

\* The worker dies after the session is committed: the rows stay charged.
CrashAfterMatch(i) ==
  /\ logins[i].at = "clearing"
  /\ logins' = [logins EXCEPT ![i].at = "over"]
  /\ UNCHANGED <<now, budgets, order>>

\* The operator's unlock_login of an account or an address.
Unlock(k) ==
  /\ k \in Rows
  /\ budgets' = [budgets EXCEPT ![k] = NoRow]
  /\ logins' = [j \in Ids |-> [logins[j] EXCEPT !.counts = @ \ {k}]]
  /\ UNCHANGED <<now, order>>

Next ==
  \/ Tick
  \/ \E i \in Ids : \/ Arrive(i) \/ Reserve(i) \/ Refuse(i) \/ Fail(i)
                    \/ Match(i) \/ Clear(i) \/ CrashAfterMatch(i)
  \/ \E k \in Keys : Unlock(k)

Spec == Init /\ [][Next]_vars

-----------------------------------------------------------------------------
Standing(k) == {i \in Ids : k \in logins[i].counts}

\* However the attempts of all workers interleave, wait for the write lock with
\* an old clock, or crash, an account and an address are given at most Hard
\* password checks within one lock's time: only a success of the same account
\* reserved after an attempt, or an operator, takes it off the count; and the
\* row of a key knows of every attempt that counts at it, so that a success
\* erases neither a failure reserved after it nor another account's at the same
\* address (auth_security.py:59-101).
AttemptsBounded ==
  \A k \in Keys : /\ Cardinality(Standing(k)) <= Hard
                  /\ budgets[k].attempts >= Cardinality(Standing(k))
=============================================================================
