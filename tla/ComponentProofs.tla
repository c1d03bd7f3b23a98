-------------------------- MODULE ComponentProofs ---------------------------
(***************************************************************************)
(* What is proved of the components that people use, for all values of     *)
(* their bounds: signing in, what the first account takes over, editing,   *)
(* the requests that go over a connection they edit, what a comparison     *)
(* decides, and the passages behind what they are told.                    *)
(* They share no state.  Each is an instance of its own, over its own      *)
(* variables (a name that two of them have stands for either one's), and has*)
(* an inductive invariant that says what its records know of what happened *)
(* before: of the version a document came from, of the attempts that count *)
(* at a key, of the session a cookie holds.  For every component there is a*)
(* lemma for the start, one for a step and one for what the invariant says.*)
(* Bounds are assumed to be numbers where that is needed.                  *)
(***************************************************************************)
EXTENDS Integers, Sequences, FiniteSets, FiniteSetTheorems, SequenceTheorems, TLAPS

-----------------------------------------------------------------------------
(***************************************************************************)
(* Access: the budgets of password checks.                                 *)
(***************************************************************************)
CONSTANTS Accounts, Addresses, Logins, Clock, Soft, Hard, Lock
VARIABLES now, budgets, logins, order
Login == INSTANCE Access

\* A fact of arithmetic the provers do not know: powers mean nothing to them.
Powers == \A n \in Nat : 2 ^ n \in Nat

\* No account has the name of none or of several.
Named == "" \notin Accounts /\ "*" \notin Accounts

\* What is assumed of the constants.
LoginConstants ==
  /\ Powers
  /\ Logins \in Nat /\ Clock \in Int /\ Soft \in Nat /\ Hard \in Nat \ {0} /\ Lock \in Nat
  /\ Named

\* The values the rows and the requests have.
NoName == ""
Principals == Accounts \cup {NoName, "*"}
AccountNames == Accounts \cup {NoName}
Peers == Addresses \cup {NoName}

LoginRows == [attempts : Nat, blocked_until : Int, expires_at : Int, revision : Nat,
              principal : Principals]
SignIns == [at : {"new", "reserving", "hashing", "clearing", "over"}, account : AccountNames,
            address : Peers, read : Int, place : Nat, counts : SUBSET Login!Keys]

\* Every variable has its type.
LoginTyped ==
  /\ LoginConstants
  /\ now \in Nat /\ order \in Nat
  /\ budgets \in [Login!Keys -> LoginRows]
  /\ logins \in [Login!Ids -> SignIns]

\* A request that is charged was read from the clock before, and has its keys.
Requests == \A i \in Login!Ids :
  /\ logins[i].read <= now /\ logins[i].place <= order
  /\ logins[i].at \in {"new", "reserving"} => logins[i].counts = {}
  /\ logins[i].at \in {"reserving", "hashing", "clearing"} =>
       logins[i].account \in Accounts /\ logins[i].address \in Addresses

\* A key whose budget is used up is blocked for as long as its attempts count.
Blocks == \A k \in Login!Keys :
  /\ budgets[k].attempts <= Hard
  /\ budgets[k].blocked_until >= budgets[k].expires_at - Lock
  /\ budgets[k].attempts >= Hard => budgets[k].blocked_until >= budgets[k].expires_at

\* What the row of a key says of an attempt that counts at it.
Tells(k, i) ==
  LET row == budgets[k] IN
  /\ logins[i].account \in Accounts /\ logins[i].read + Lock > now
  /\ row.expires_at >= logins[i].read + Lock
  /\ row.principal \in {logins[i].account, "*"}
  /\ row.revision \in Login!Ids
  /\ logins[row.revision].at \notin {"new", "reserving"}
  /\ logins[i].place <= logins[row.revision].place
  /\ row.principal \in {logins[row.revision].account, "*"}

\* The row of a key knows of every attempt that counts at it ...
Told == \A k \in Login!Keys : \A i \in Login!Standing(k) : Tells(k, i)

\* ... and counts it.
Counted == \A k \in Login!Keys : budgets[k].attempts >= Cardinality(Login!Standing(k))

\* The inductive invariant of the budgets.
LoginInv == LoginTyped /\ Requests /\ Blocks /\ Told /\ Counted

\* The attempts that count are finitely many.
LEMMA StandingFinite ==
  ASSUME LoginTyped, NEW k \in Login!Keys
  PROVE  /\ IsFiniteSet(Login!Standing(k)) /\ Login!Standing(k) \subseteq Login!Ids
         /\ IsFiniteSet(Login!Standing(k))' /\ Login!Standing(k)' \subseteq Login!Ids
         /\ Cardinality(Login!Standing(k)) \in Nat /\ Cardinality(Login!Standing(k)') \in Nat
<1>1. IsFiniteSet(Login!Ids)
  <2>1. Login!Ids = 1 .. Logins /\ Logins \in Int /\ 1 \in Int BY DEF Login!Ids, LoginTyped, LoginConstants
  <2> QED BY <2>1, FS_Interval
<1>2. Login!Standing(k) \subseteq Login!Ids /\ Login!Standing(k)' \subseteq Login!Ids BY DEF Login!Standing, Login!Ids
<1>3. IsFiniteSet(Login!Standing(k)) /\ IsFiniteSet(Login!Standing(k)') BY <1>1, <1>2, FS_Subset
<1> QED BY <1>2, <1>3, FS_CardinalityType

\* A key counts fewer attempts, and none when its row was reset.
LEMMA Fewer ==
  ASSUME LoginInv, NEW k \in Login!Keys, Login!Standing(k)' \subseteq Login!Standing(k)
  PROVE  Cardinality(Login!Standing(k)') <= budgets[k].attempts
<1>0. LoginTyped BY DEF LoginInv
<1>1. Cardinality(Login!Standing(k)') <= Cardinality(Login!Standing(k)) BY <1>0, StandingFinite, FS_Subset
<1>2. budgets[k].attempts \in Nat BY <1>0 DEF LoginTyped, LoginRows
<1> QED BY <1>0, <1>1, <1>2, StandingFinite DEF LoginInv, Counted

\* A row that has expired by a clock that was read before has nothing standing.
LEMMA ExpiredIsEmpty ==
  ASSUME LoginInv, NEW k \in Login!Keys, NEW i \in Login!Ids, budgets[k].expires_at <= logins[i].read
  PROVE  Login!Standing(k) = {}
<1> SUFFICES ASSUME NEW j \in Login!Standing(k) PROVE FALSE OBVIOUS
<1>1. j \in Login!Ids BY DEF Login!Standing
<1>2. logins[j].read + Lock > now /\ budgets[k].expires_at >= logins[j].read + Lock BY DEF LoginInv, Told, Tells
<1>3. logins[i].read <= now /\ logins[i].read \in Int /\ logins[j].read \in Int /\ Lock \in Int /\ now \in Int
  BY <1>1 DEF LoginInv, Requests, LoginTyped, LoginConstants, SignIns
<1>4. budgets[k].expires_at \in Int BY DEF LoginInv, LoginTyped, LoginRows
<1> QED BY <1>2, <1>3, <1>4

\* Steps that leave the budgets and what counts at them alone.
LEMMA RequestMoves ==
  ASSUME LoginInv, NEW i \in Login!Ids, NEW r \in SignIns,
         now' = now, budgets' = budgets, order' = order, logins' = [logins EXCEPT ![i] = r],
         r.read <= now, r.place <= order, r.counts = logins[i].counts,
         r.at \in {"new", "reserving"} => r.counts = {},
         r.at \in {"reserving", "hashing", "clearing"} => r.account \in Accounts /\ r.address \in Addresses,
         logins[i].at \in {"new", "reserving"}
           \/ (r.account = logins[i].account /\ r.read = logins[i].read /\ r.place = logins[i].place
               /\ r.at \notin {"new", "reserving"})
  PROVE  LoginInv'
<1>0. LoginTyped BY DEF LoginInv
<1>1. logins'[i] = r /\ \A j \in Login!Ids \ {i} : logins'[j] = logins[j] BY <1>0 DEF LoginTyped
<1>2. LoginTyped' BY <1>0, <1>1 DEF LoginTyped, Login!Ids, Login!Keys
<1>3. Requests' BY <1>1 DEF LoginInv, Requests, Login!Ids
<1>4. Blocks' BY DEF LoginInv, Blocks, Login!Keys
<1>5. \A k \in Login!Keys : Login!Standing(k)' = Login!Standing(k) BY <1>1 DEF Login!Standing, Login!Ids
<1>6. ASSUME NEW k \in Login!Keys, NEW j \in Login!Standing(k) PROVE Tells(k, j)'
  <2>1. Tells(k, j) /\ j \in Login!Ids /\ k \in logins[j].counts BY DEF LoginInv, Told, Login!Standing
  <2>2. budgets[k].revision \in Login!Ids /\ logins[budgets[k].revision].at \notin {"new", "reserving"}
    BY <2>1 DEF Tells
  <2>3. logins[j].at \notin {"new", "reserving"} BY <2>1 DEF LoginInv, Requests
  <2>4. \A x \in {j, budgets[k].revision} :
          /\ logins'[x].account = logins[x].account /\ logins'[x].read = logins[x].read
          /\ logins'[x].place = logins[x].place /\ logins'[x].at \notin {"new", "reserving"}
    BY <1>1, <2>1, <2>2, <2>3
  <2> QED BY <2>1, <2>2, <2>4 DEF Tells, Login!Ids
<1>7. Told' BY <1>5, <1>6 DEF Told, Login!Keys
<1>8. Counted' BY <1>5 DEF LoginInv, Counted, Login!Keys
<1> QED BY <1>2, <1>3, <1>4, <1>7, <1>8 DEF LoginInv

\* The delay is a time, and the whole lock once the budget is used up.
LEMMA DelayIs ==
  ASSUME LoginConstants, NEW n \in Nat
  PROVE  Login!Delay(n) \in Nat /\ (n >= Hard => Login!Delay(n) = Lock)
<1>1. CASE n >= Hard BY <1>1 DEF LoginConstants, Login!Delay
<1>2. CASE ~(n >= Hard) /\ n >= Soft
  <2>1. Login!Delay(n) = 2 ^ (n - Soft) BY <1>2 DEF Login!Delay
  <2>2. n - Soft \in Nat BY <1>2 DEF LoginConstants
  <2>3. 2 ^ (n - Soft) \in Nat BY <2>2 DEF LoginConstants, Powers
  <2> QED BY <1>2, <2>1, <2>3
<1>3. CASE ~(n >= Hard) /\ ~(n >= Soft) BY <1>3 DEF Login!Delay
<1> QED BY <1>1, <1>2, <1>3

\* A key without a row.
LEMMA NoRowIs ==
  /\ Login!NoRow \in LoginRows /\ Login!NoRow.attempts = 0 /\ Login!NoRow.blocked_until = 0
  /\ Login!NoRow.expires_at = 0
BY DEF Login!NoRow, LoginRows, Principals, NoName

\* The row of a key before a request is charged to it.
LEMMA FoundIs ==
  ASSUME LoginInv, NEW k \in Login!Keys, NEW i \in Login!Ids
  PROVE  LET row == Login!Found(k, logins[i].read) IN
         /\ row \in LoginRows
         /\ row = budgets[k] \/ (row = Login!NoRow /\ Login!Standing(k) = {})
         /\ row.expires_at <= logins[i].read => row = Login!NoRow
         /\ row.attempts <= Hard /\ row.blocked_until >= row.expires_at - Lock
         /\ row.attempts >= Hard => row.blocked_until >= row.expires_at
         /\ row.attempts >= Cardinality(Login!Standing(k))
<1>0. budgets[k] \in LoginRows /\ Hard \in Nat \ {0} /\ Lock \in Nat /\ Blocks /\ Counted
  BY DEF LoginInv, LoginTyped, LoginConstants
<1>1. Login!NoRow \in LoginRows /\ Login!NoRow.attempts = 0 /\ Login!NoRow.blocked_until = 0
      /\ Login!NoRow.expires_at = 0
  BY NoRowIs
<1>2. CASE budgets[k].expires_at <= logins[i].read
  <2>1. Login!Found(k, logins[i].read) = Login!NoRow BY <1>2 DEF Login!Found
  <2>2. Login!Standing(k) = {} BY <1>2, ExpiredIsEmpty
  <2> QED BY <1>0, <1>1, <2>1, <2>2, FS_EmptySet
<1>3. CASE ~(budgets[k].expires_at <= logins[i].read)
  <2>1. Login!Found(k, logins[i].read) = budgets[k] BY <1>3 DEF Login!Found
  <2> QED BY <1>0, <1>3, <2>1 DEF Blocks, Counted
<1> QED BY <1>2, <1>3

\* A reservation is counted, and made only while the budget lasts.
LEMMA ReserveKeeps ==
  ASSUME LoginInv, NEW i \in Login!Ids, Login!Reserve(i)
  PROVE  LoginInv'
<1>0. /\ LoginTyped /\ LoginConstants /\ Requests /\ logins[i] \in SignIns /\ order \in Nat /\ now \in Nat
      /\ Hard \in Nat \ {0} /\ Lock \in Nat
  BY DEF LoginInv, LoginTyped, LoginConstants
<1> DEFINE a == logins[i].account
           t == logins[i].read
           counted == IF t + Lock <= now THEN {} ELSE Login!Charged(i)
           r == [logins[i] EXCEPT !.at = "hashing", !.place = order + 1, !.counts = counted]
<1>1. /\ logins[i].at = "reserving" /\ ~Login!Blocked(i)
      /\ budgets' = [k \in Login!Keys |-> IF k \in Login!Charged(i) THEN Login!Charge(k, i) ELSE Login!Found(k, t)]
      /\ order' = order + 1 /\ now' = now
  BY DEF Login!Reserve
<1>2. a \in Accounts /\ logins[i].address \in Addresses /\ logins[i].counts = {} /\ t <= now /\ t \in Int
  BY <1>0, <1>1 DEF Requests, SignIns
<1>3. Login!Charged(i) \subseteq Login!Keys BY <1>2 DEF Login!Charged, Login!Keys
<1>4. counted \in SUBSET Login!Keys BY <1>3
<1>5. logins' = [logins EXCEPT ![i] = r] BY <1>0 DEF Login!Reserve, LoginTyped
<1> HIDE DEF counted
<1>6. r \in SignIns /\ r.at = "hashing" /\ r.place = order + 1 /\ r.counts = counted
      /\ r.account = a /\ r.read = t /\ r.address = logins[i].address
  <2> DEFINE d == logins[i]
  <2>1. /\ d \in SignIns /\ order + 1 \in Nat /\ counted \in SUBSET Login!Keys
        /\ d.account \in AccountNames /\ d.address \in Peers /\ d.read \in Int
    BY <1>0, <1>4 DEF SignIns
  <2> HIDE DEF d
  <2>2. [d EXCEPT !.at = "hashing", !.place = order + 1, !.counts = counted] \in SignIns BY <2>1 DEF SignIns
  <2>3. r = [d EXCEPT !.at = "hashing", !.place = order + 1, !.counts = counted] BY DEF d
  <2>4. /\ r.at = "hashing" /\ r.place = order + 1 /\ r.counts = counted
        /\ r.account = d.account /\ r.read = d.read /\ r.address = d.address
    BY <2>1, <2>3 DEF SignIns
  <2> QED BY <2>2, <2>3, <2>4 DEF d
<1> HIDE DEF r
<1>7. logins'[i] = r /\ \A j \in Login!Ids \ {i} : logins'[j] = logins[j] BY <1>0, <1>5 DEF LoginTyped
<1>8. ASSUME NEW k \in Login!Keys
      PROVE  /\ budgets'[k] \in LoginRows /\ budgets'[k].attempts <= Hard
             /\ budgets'[k].blocked_until >= budgets'[k].expires_at - Lock
             /\ budgets'[k].attempts >= Hard => budgets'[k].blocked_until >= budgets'[k].expires_at
             /\ budgets'[k].attempts >= Cardinality(Login!Standing(k)')
             /\ \A j \in Login!Standing(k)' : Tells(k, j)'
  <2> DEFINE row == Login!Found(k, t)
  <2>1. /\ row \in LoginRows
        /\ row = budgets[k] \/ (row = Login!NoRow /\ Login!Standing(k) = {})
        /\ row.expires_at <= t => row = Login!NoRow
        /\ row.attempts <= Hard /\ row.blocked_until >= row.expires_at - Lock
        /\ row.attempts >= Hard => row.blocked_until >= row.expires_at
        /\ row.attempts >= Cardinality(Login!Standing(k))
    BY FoundIs
  <2> HIDE DEF row
  <2>2. \A j \in Login!Standing(k) : j # i /\ j \in Login!Ids BY <1>2 DEF Login!Standing
  <2>3. \A j \in Login!Ids \ {i} : j \in Login!Standing(k)' <=> j \in Login!Standing(k)
    BY <1>7 DEF Login!Standing, Login!Ids
  <2>4. \A j \in Login!Standing(k) : Tells(k, j) BY DEF LoginInv, Told
  <2>5. CASE k \notin Login!Charged(i)
    <3>1. budgets'[k] = row BY <1>1, <2>5 DEF row
    <3>2. k \notin counted BY <2>5 DEF counted
    <3>3. Login!Standing(k)' = Login!Standing(k)
      <4>1. i \notin Login!Standing(k)' BY <1>6, <1>7, <3>2 DEF Login!Standing
      <4> QED BY <2>2, <2>3, <4>1 DEF Login!Standing, Login!Ids
    <3>4. ASSUME NEW j \in Login!Standing(k) PROVE Tells(k, j)'
      <4>1. Tells(k, j) /\ row = budgets[k] /\ j # i /\ j \in Login!Ids BY <2>1, <2>2, <2>4
      <4>2. budgets[k].revision # i BY <1>1, <4>1 DEF Tells
      <4> QED BY <1>1, <1>7, <3>1, <4>1, <4>2 DEF Tells, Login!Ids
    <3> QED BY <2>1, <3>1, <3>3, <3>4
  <2>6. CASE k \in Login!Charged(i)
    <3> DEFINE delay == Login!Delay(row.attempts + 1)
               p == IF row.principal \in {NoName, a} THEN a ELSE "*"
    <3> HIDE DEF p
    <3>1. budgets'[k] = [attempts |-> row.attempts + 1, blocked_until |-> t + delay, expires_at |-> t + Lock,
                         revision |-> i, principal |-> p]
      BY <1>1, <2>6 DEF Login!Charge, row, p, NoName
    <3>2. row.attempts \in Nat /\ row.blocked_until \in Int /\ row.expires_at \in Int
          /\ row.principal \in Principals
      BY <2>1 DEF LoginRows
    <3>3. ~(row.blocked_until > t) BY <1>1, <2>6 DEF Login!Blocked, row
    <3>4. row.attempts + 1 <= Hard
      <4>1. CASE row.attempts >= Hard
        <5>1. row.expires_at <= t BY <1>2, <2>1, <3>2, <3>3, <4>1
        <5>2. row.attempts = 0 BY <2>1, <5>1, NoRowIs
        <5> QED BY <1>0, <4>1, <5>2
      <4> QED BY <1>0, <3>2, <4>1
    <3>5. delay \in Nat /\ (row.attempts + 1 >= Hard => delay = Lock)
      <4>1. row.attempts + 1 \in Nat BY <3>2
      <4> QED BY <1>0, <4>1, DelayIs
    <3>6. row.expires_at <= t + Lock BY <1>0, <1>2, <2>1, <3>2, <3>3
    <3>7. p \in Principals /\ i \in Nat
      <4>1. p \in Principals BY <1>2 DEF p, Principals
      <4> QED BY <4>1 DEF Login!Ids
    <3> HIDE DEF delay
    <3>8. \A j \in Login!Standing(k) : p \in {logins[j].account, "*"}
      <4> TAKE j \in Login!Standing(k)
      <4>1. Tells(k, j) /\ row = budgets[k] BY <2>1, <2>4
      <4>2. NoName \notin Accounts /\ "*" \notin Accounts BY <1>0 DEF LoginConstants, Named, NoName
      <4>3. logins[j].account \in Accounts /\ row.principal \in {logins[j].account, "*"} BY <4>1 DEF Tells
      <4>4. CASE row.principal = a
        <5>1. a = logins[j].account BY <1>2, <4>2, <4>3, <4>4
        <5> QED BY <4>4, <5>1 DEF p
      <4>5. CASE row.principal # a
        <5>1. row.principal # NoName BY <4>2, <4>3 DEF NoName
        <5>2. p = "*" BY <4>5, <5>1 DEF p
        <5> QED BY <5>2
      <4> QED BY <4>4, <4>5
    <3>9. budgets'[k] \in LoginRows BY <1>0, <1>2, <3>1, <3>2, <3>5, <3>7 DEF LoginRows
    <3>10. /\ budgets'[k].attempts = row.attempts + 1 /\ budgets'[k].blocked_until = t + delay
           /\ budgets'[k].expires_at = t + Lock /\ budgets'[k].revision = i /\ budgets'[k].principal = p
      BY <3>1
    <3>11. p \in {a, "*"} BY DEF p
    <3>12. ASSUME NEW j \in Login!Standing(k) PROVE Tells(k, j)'
      <4>1. Tells(k, j) /\ row = budgets[k] /\ j # i /\ j \in Login!Ids BY <2>1, <2>2, <2>4
      <4>2. logins[j].place <= order /\ logins[j] \in SignIns BY <1>0, <4>1 DEF Requests, LoginTyped
      <4>3. logins[j].place <= order + 1 BY <1>0, <4>2 DEF SignIns
      <4>4. t + Lock >= logins[j].read + Lock
        <5>1. row.expires_at >= logins[j].read + Lock /\ logins[j].read \in Int BY <4>1, <4>2 DEF Tells, SignIns
        <5> QED BY <1>0, <1>2, <3>2, <3>6, <5>1
      <4>5. logins'[j] = logins[j] BY <1>7, <4>1
      <4>6. p \in {logins[j].account, "*"} BY <3>8
      <4> QED BY <1>1, <1>6, <1>7, <3>10, <3>11, <4>1, <4>3, <4>4, <4>5, <4>6 DEF Tells, Login!Ids
    <3>13. CASE t + Lock <= now
      <4>1. counted = {} BY <3>13 DEF counted
      <4>2. i \notin Login!Standing(k)' BY <1>6, <1>7, <4>1 DEF Login!Standing
      <4>3. Login!Standing(k)' = Login!Standing(k) BY <2>2, <2>3, <4>2 DEF Login!Standing, Login!Ids
      <4>4. Cardinality(Login!Standing(k)) \in Nat BY <1>0, StandingFinite
      <4>5. budgets'[k].attempts >= Cardinality(Login!Standing(k)') BY <2>1, <3>2, <3>10, <4>3, <4>4
      <4> QED BY <1>0, <1>2, <3>2, <3>4, <3>5, <3>9, <3>10, <3>12, <4>3, <4>5
    <3>14. CASE ~(t + Lock <= now)
      <4>1. counted = Login!Charged(i) BY <3>14 DEF counted
      <4>2. i \in Login!Standing(k)' BY <1>6, <1>7, <2>6, <4>1 DEF Login!Standing, Login!Ids
      <4>3. Login!Standing(k)' = Login!Standing(k) \cup {i} BY <2>2, <2>3, <4>2 DEF Login!Standing, Login!Ids
      <4>4. Cardinality(Login!Standing(k)) \in Nat /\ IsFiniteSet(Login!Standing(k)) BY <1>0, StandingFinite
      <4>5. i \notin Login!Standing(k) BY <2>2
      <4>6. Cardinality(Login!Standing(k)') = Cardinality(Login!Standing(k)) + 1 BY <4>3, <4>4, <4>5, FS_AddElement
      <4>7. budgets'[k].attempts >= Cardinality(Login!Standing(k)') BY <2>1, <3>2, <3>10, <4>4, <4>6
      <4>8. Tells(k, i)'
        <5>1. t + Lock > now BY <1>0, <1>2, <3>14
        <5> QED BY <1>0, <1>1, <1>2, <1>6, <1>7, <3>10, <3>11, <5>1 DEF Tells, Login!Ids
      <4> QED BY <1>0, <1>2, <3>2, <3>4, <3>5, <3>9, <3>10, <3>12, <4>3, <4>7, <4>8
    <3> QED BY <3>13, <3>14
  <2> QED BY <2>5, <2>6
<1>9. LoginTyped'
  <2>1. DOMAIN budgets' = Login!Keys /\ budgets' = [k \in Login!Keys |-> budgets'[k]] BY <1>1
  <2>2. budgets' \in [Login!Keys -> LoginRows] BY <1>8, <2>1
  <2>3. logins' \in [Login!Ids -> SignIns] BY <1>0, <1>5, <1>6 DEF LoginTyped
  <2> QED BY <1>0, <1>1, <2>2, <2>3 DEF LoginTyped, Login!Keys, Login!Ids
<1>10. Requests'
  <2> SUFFICES ASSUME NEW j \in Login!Ids
               PROVE  /\ logins'[j].read <= now /\ logins'[j].place <= order + 1
                      /\ logins'[j].at \in {"new", "reserving"} => logins'[j].counts = {}
                      /\ logins'[j].at \in {"reserving", "hashing", "clearing"} =>
                           logins'[j].account \in Accounts /\ logins'[j].address \in Addresses
    BY <1>1 DEF Requests, Login!Ids
  <2>1. CASE j = i BY <1>0, <1>2, <1>6, <1>7, <2>1
  <2>2. CASE j # i
    <3>1. logins'[j] = logins[j] /\ logins[j] \in SignIns BY <1>0, <1>7, <2>2 DEF LoginTyped
    <3>2. logins[j].place \in Nat /\ logins[j].place <= order BY <1>0, <3>1 DEF Requests, SignIns
    <3> QED BY <1>0, <3>1, <3>2 DEF Requests
  <2> QED BY <2>1, <2>2
<1>11. Blocks' /\ Counted' /\ Told' BY <1>8 DEF Blocks, Counted, Told, Login!Keys
<1> QED BY <1>9, <1>10, <1>11 DEF LoginInv

\* Steps that only take attempts off the count, with the rows of some keys.
LEMMA CountedLess ==
  ASSUME LoginInv, NEW gone \in SUBSET Login!Keys, now' \in Nat, now' >= now, order' = order,
         budgets' = [k \in Login!Keys |-> IF k \in gone THEN Login!NoRow ELSE budgets[k]],
         logins' \in [Login!Ids -> SignIns],
         \A j \in Login!Ids :
           /\ logins'[j].account = logins[j].account /\ logins'[j].address = logins[j].address
           /\ logins'[j].read = logins[j].read /\ logins'[j].place = logins[j].place
           /\ logins'[j].counts \subseteq logins[j].counts \ gone
           /\ logins'[j].counts # {} => logins[j].read + Lock > now'
           /\ logins'[j].at = logins[j].at
                \/ (logins[j].at \notin {"new", "reserving"} /\ logins'[j].at = "over")
  PROVE  LoginInv'
<1>0. /\ LoginTyped /\ LoginConstants /\ Requests /\ Blocks /\ Told /\ now \in Nat /\ order \in Nat
      /\ Hard \in Nat \ {0} /\ Lock \in Nat
  BY DEF LoginInv, LoginTyped, LoginConstants
<1>1. Login!NoRow \in LoginRows /\ Login!NoRow.attempts = 0 /\ Login!NoRow.blocked_until = 0
      /\ Login!NoRow.expires_at = 0
  BY NoRowIs
<1>2. ASSUME NEW k \in Login!Keys PROVE budgets'[k] = IF k \in gone THEN Login!NoRow ELSE budgets[k] OBVIOUS
<1>3. ASSUME NEW k \in Login!Keys
      PROVE  /\ Login!Standing(k)' \subseteq Login!Standing(k)
             /\ k \in gone => Login!Standing(k)' = {}
    BY DEF Login!Standing, Login!Ids
<1>4. LoginTyped'
  <2>1. \A k \in Login!Keys : budgets'[k] \in LoginRows BY <1>0, <1>1, <1>2 DEF LoginTyped
  <2>2. DOMAIN budgets' = Login!Keys /\ budgets' = [k \in Login!Keys |-> budgets'[k]] OBVIOUS
  <2>3. budgets' \in [Login!Keys -> LoginRows] BY <2>1, <2>2
  <2> QED BY <1>0, <2>3 DEF LoginTyped, Login!Keys, Login!Ids
<1>5. Requests'
  <2> SUFFICES ASSUME NEW j \in Login!Ids
               PROVE  /\ logins'[j].read <= now' /\ logins'[j].place <= order'
                      /\ logins'[j].at \in {"new", "reserving"} => logins'[j].counts = {}
                      /\ logins'[j].at \in {"reserving", "hashing", "clearing"} =>
                           logins'[j].account \in Accounts /\ logins'[j].address \in Addresses
    BY DEF Requests, Login!Ids
  <2>1. logins[j].read <= now /\ logins[j].read \in Int BY <1>0 DEF Requests, LoginTyped, SignIns
  <2>2. logins'[j].read <= now' BY <1>0, <2>1
  <2>3. logins'[j].at \in {"new", "reserving"} => logins'[j].counts = {} BY <1>0 DEF Requests
  <2> QED BY <1>0, <2>2, <2>3 DEF Requests
<1>6. Blocks'
  <2> SUFFICES ASSUME NEW k \in Login!Keys
               PROVE  /\ budgets'[k].attempts <= Hard
                      /\ budgets'[k].blocked_until >= budgets'[k].expires_at - Lock
                      /\ budgets'[k].attempts >= Hard => budgets'[k].blocked_until >= budgets'[k].expires_at
    BY DEF Blocks, Login!Keys
  <2>1. CASE k \in gone
    <3>1. budgets'[k].attempts = 0 /\ budgets'[k].blocked_until = 0 /\ budgets'[k].expires_at = 0 BY <1>1, <1>2, <2>1
    <3> QED BY <1>0, <3>1
  <2>2. CASE k \notin gone BY <1>0, <1>2, <2>2 DEF Blocks
  <2> QED BY <2>1, <2>2
<1>7. Told'
  <2> SUFFICES ASSUME NEW k \in Login!Keys, NEW j \in Login!Standing(k)' PROVE Tells(k, j)'
    BY DEF Told, Login!Keys
  <2>1. k \notin gone /\ j \in Login!Standing(k) BY <1>3
  <2>2. Tells(k, j) /\ j \in Login!Ids /\ k \in logins'[j].counts BY <1>0, <2>1 DEF Told, Login!Standing
  <2>3. budgets'[k] = budgets[k] BY <1>2, <2>1
  <2>4. logins'[j].read + Lock > now' BY <2>2
  <2>5. budgets[k].revision \in Login!Ids /\ logins[budgets[k].revision].at \notin {"new", "reserving"}
    BY <2>2 DEF Tells
  <2>6. logins'[budgets[k].revision].at \notin {"new", "reserving"} BY <2>5
  <2> QED BY <2>2, <2>3, <2>4, <2>5, <2>6 DEF Tells, Login!Ids
<1>8. Counted'
  <2> SUFFICES ASSUME NEW k \in Login!Keys PROVE budgets'[k].attempts >= Cardinality(Login!Standing(k)')
    BY DEF Counted, Login!Keys
  <2>1. CASE k \in gone
    <3>1. budgets'[k].attempts = 0 /\ Login!Standing(k)' = {} BY <1>1, <1>2, <1>3, <2>1
    <3>2. Cardinality(Login!Standing(k)') = 0 BY <3>1, FS_EmptySet
    <3> QED BY <3>1, <3>2
  <2>2. CASE k \notin gone
    <3>1. budgets'[k] = budgets[k] BY <1>2, <2>2
    <3>2. budgets[k].attempts \in Nat /\ Cardinality(Login!Standing(k)') \in Nat
      BY <1>0, StandingFinite DEF LoginTyped, LoginRows
    <3> QED BY <1>3, <3>1, <3>2, Fewer
  <2> QED BY <2>1, <2>2
<1> QED BY <1>4, <1>5, <1>6, <1>7, <1>8 DEF LoginInv

\* What an attempt has of its own cannot be anything but that of a sign-in.
LEMMA SignInChanges ==
  ASSUME NEW d \in SignIns, NEW at \in {"new", "reserving", "hashing", "clearing", "over"},
         NEW counts \in SUBSET Login!Keys
  PROVE  /\ [d EXCEPT !.at = at, !.counts = counts] \in SignIns
         /\ [d EXCEPT !.counts = counts] \in SignIns
         /\ [d EXCEPT !.at = at] \in SignIns
         /\ d.counts \in SUBSET Login!Keys /\ d.at \in {"new", "reserving", "hashing", "clearing", "over"}
BY DEF SignIns

\* A request that has not arrived.
LEMMA NoLoginIs ==
  /\ Login!NoLogin \in SignIns /\ Login!NoLogin.read = 0 /\ Login!NoLogin.place = 0
  /\ Login!NoLogin.counts = {} /\ Login!NoLogin.at = "new"
BY DEF Login!NoLogin, SignIns, AccountNames, Peers, NoName

\* A request that arrives has nothing charged yet.
LEMMA ArriveKeeps ==
  ASSUME LoginInv, NEW i \in Login!Ids, Login!Arrive(i)
  PROVE  LoginInv'
<1>0. LoginTyped /\ LoginConstants /\ now \in Nat /\ order \in Nat BY DEF LoginInv, LoginTyped
<1>1. PICK account \in Accounts, address \in Addresses :
        logins' = [logins EXCEPT ![i] = [Login!NoLogin EXCEPT !.at = "reserving", !.account = account,
                                                              !.address = address, !.read = now]]
  BY DEF Login!Arrive
<1> DEFINE d == Login!NoLogin
           r == [d EXCEPT !.at = "reserving", !.account = account, !.address = address, !.read = now]
<1>2. logins' = [logins EXCEPT ![i] = r] BY <1>1
<1>3. d \in SignIns /\ d.place = 0 /\ d.counts = {} BY NoLoginIs
<1> HIDE DEF d
<1>4. logins[i].at = "new" /\ UNCHANGED <<now, budgets, order>> BY DEF Login!Arrive
<1>5. logins[i].counts = {} BY <1>4 DEF LoginInv, Requests
<1>6. r.at = "reserving" /\ r.read = now /\ r.place = 0 /\ r.counts = {} /\ r.account \in Accounts
      /\ r.address \in Addresses
  BY <1>3 DEF SignIns
<1>8. r \in SignIns
  <2>1. account \in AccountNames /\ address \in Peers /\ now \in Int BY <1>0 DEF AccountNames, Peers
  <2> QED BY <1>3, <2>1 DEF SignIns
<1> HIDE DEF r
<1>7. r.read <= now /\ r.place <= order BY <1>0, <1>6
<1> QED BY <1>2, <1>4, <1>5, <1>6, <1>7, <1>8, RequestMoves

\* A request that is refused has nothing charged.
LEMMA RefuseKeeps ==
  ASSUME LoginInv, NEW i \in Login!Ids, Login!Refuse(i)
  PROVE  LoginInv'
<1>0. LoginTyped /\ now \in Nat /\ order \in Nat BY DEF LoginInv, LoginTyped
<1> DEFINE d == Login!NoLogin
           r == [d EXCEPT !.at = "over"]
<1>2. d \in SignIns /\ d.place = 0 /\ d.counts = {} /\ d.read = 0 BY NoLoginIs
<1>3. /\ logins[i].at = "reserving" /\ UNCHANGED <<now, budgets, order>>
      /\ logins' = [logins EXCEPT ![i] = r]
  BY DEF Login!Refuse
<1>4. logins[i].counts = {} BY <1>3 DEF LoginInv, Requests
<1> HIDE DEF d
<1>1. r \in SignIns BY <1>2, SignInChanges
<1>6. r.at = "over" /\ r.counts = {} /\ r.read = 0 /\ r.place = 0 BY <1>2 DEF SignIns
<1> HIDE DEF r
<1>5. r.read <= now /\ r.place <= order BY <1>0, <1>6
<1> QED BY <1>1, <1>3, <1>4, <1>5, <1>6, RequestMoves

\* What becomes of a password check changes no budget.
LEMMA AnswerKeeps ==
  ASSUME LoginInv, NEW i \in Login!Ids,
         Login!Fail(i) \/ Login!Match(i) \/ Login!CrashAfterMatch(i)
  PROVE  LoginInv'
<1>0. LoginTyped /\ logins[i] \in SignIns BY DEF LoginInv, LoginTyped
<1>1. logins[i].at \in {"hashing", "clearing"} /\ UNCHANGED <<now, budgets, order>>
  BY DEF Login!Fail, Login!Match, Login!CrashAfterMatch
<1>2. PICK at \in {"clearing", "over"} : logins' = [logins EXCEPT ![i].at = at]
  BY DEF Login!Fail, Login!Match, Login!CrashAfterMatch
<1> DEFINE r == [logins[i] EXCEPT !.at = at]
<1>3. logins' = [logins EXCEPT ![i] = r] BY <1>0, <1>2 DEF LoginTyped
<1>4. r \in SignIns BY <1>0, SignInChanges
<1>5. /\ r.at = at /\ r.counts = logins[i].counts /\ r.account = logins[i].account
      /\ r.address = logins[i].address /\ r.read = logins[i].read /\ r.place = logins[i].place
  BY <1>0 DEF SignIns
<1> HIDE DEF r
<1>6. /\ logins[i].read <= now /\ logins[i].place <= order
      /\ logins[i].account \in Accounts /\ logins[i].address \in Addresses
  BY <1>1 DEF LoginInv, Requests
<1> QED BY <1>1, <1>3, <1>4, <1>5, <1>6, RequestMoves

\* As time goes by attempts stop to count.
LEMMA TickKeeps ==
  ASSUME LoginInv, Login!Tick
  PROVE  LoginInv'
<1>0. LoginTyped /\ now \in Nat /\ Lock \in Nat BY DEF LoginInv, LoginTyped, LoginConstants
<1>1. /\ now' = now + 1 /\ budgets' = budgets /\ order' = order
      /\ logins' = [j \in Login!Ids |-> IF logins[j].read + Lock <= now + 1
                                        THEN [logins[j] EXCEPT !.counts = {}] ELSE logins[j]]
  BY DEF Login!Tick
<1>2. now' \in Nat /\ now' >= now BY <1>0, <1>1
<1>3. budgets' = [k \in Login!Keys |-> IF k \in {} THEN Login!NoRow ELSE budgets[k]] BY <1>0, <1>1 DEF LoginTyped
<1>4. ASSUME NEW j \in Login!Ids
      PROVE  /\ logins'[j] \in SignIns
             /\ logins'[j].account = logins[j].account /\ logins'[j].address = logins[j].address
             /\ logins'[j].read = logins[j].read /\ logins'[j].place = logins[j].place
             /\ logins'[j].counts \subseteq logins[j].counts \ {}
             /\ logins'[j].counts # {} => logins[j].read + Lock > now'
             /\ logins'[j].at = logins[j].at
  <2>1. logins[j] \in SignIns /\ logins[j].read \in Int BY <1>0 DEF LoginTyped, SignIns
  <2>2. CASE logins[j].read + Lock <= now + 1
    <3> DEFINE d == logins[j]
    <3>1. logins'[j] = [d EXCEPT !.counts = {}] BY <1>1, <2>2
    <3>2. d \in SignIns BY <2>1
    <3> HIDE DEF d
    <3>3. [d EXCEPT !.counts = {}] \in SignIns BY <3>2, SignInChanges
    <3>4. /\ logins'[j].account = d.account /\ logins'[j].address = d.address /\ logins'[j].at = d.at
          /\ logins'[j].read = d.read /\ logins'[j].place = d.place /\ logins'[j].counts = {}
      BY <3>1, <3>2 DEF SignIns
    <3> QED BY <3>1, <3>3, <3>4 DEF d
  <2>3. CASE ~(logins[j].read + Lock <= now + 1)
    <3>1. logins'[j] = logins[j] BY <1>1, <2>3
    <3>2. logins[j].read + Lock > now' BY <1>0, <1>1, <2>1, <2>3
    <3> QED BY <2>1, <3>1, <3>2
  <2> QED BY <2>2, <2>3
<1>5. logins' \in [Login!Ids -> SignIns] BY <1>1, <1>4
<1> QED BY <1>1, <1>2, <1>3, <1>4, <1>5, CountedLess

\* The row of a key tells whose attempts count at it: those of the request that
\* clears it, made before.
LEMMA ClearKeeps ==
  ASSUME LoginInv, NEW i \in Login!Ids, Login!Clear(i)
  PROVE  LoginInv'
<1>0. LoginTyped /\ Requests /\ Told /\ now \in Nat /\ Lock \in Nat
  BY DEF LoginInv, LoginTyped, LoginConstants
<1> DEFINE gone == Login!Clearable(i)
           before(j) == logins[j].account = logins[i].account /\ logins[j].place <= logins[i].place
<1>1. /\ logins[i].at = "clearing" /\ now' = now /\ order' = order
      /\ budgets' = [k \in Login!Keys |-> IF k \in gone THEN Login!NoRow ELSE budgets[k]]
      /\ logins' = [j \in Login!Ids |->
           [logins[j] EXCEPT !.at = IF j = i THEN "over" ELSE @, !.counts = IF before(j) THEN @ \ gone ELSE @]]
  BY DEF Login!Clear
<1>2. gone \in SUBSET Login!Keys
  <2>1. logins[i].account \in Accounts /\ logins[i].address \in Addresses BY <1>0, <1>1 DEF Requests
  <2> QED BY <2>1 DEF Login!Clearable, Login!Charged, Login!Keys
<1>3. ASSUME NEW k \in gone, NEW j \in Login!Standing(k) PROVE before(j)
  <2>1. Tells(k, j) /\ budgets[k].revision = i /\ budgets[k].principal # "*"
    BY <1>0, <1>2 DEF Told, Login!Clearable
  <2>2. budgets[k].principal = logins[j].account /\ budgets[k].principal = logins[i].account
        /\ logins[j].place <= logins[i].place
    BY <2>1 DEF Tells
  <2> QED BY <2>2
<1>4. ASSUME NEW j \in Login!Ids, ~before(j) PROVE logins[j].counts \cap gone = {}
  BY <1>3, <1>4 DEF Login!Standing
<1> HIDE DEF gone, before
<1>5. ASSUME NEW j \in Login!Ids
      PROVE  /\ logins'[j] \in SignIns
             /\ logins'[j].account = logins[j].account /\ logins'[j].address = logins[j].address
             /\ logins'[j].read = logins[j].read /\ logins'[j].place = logins[j].place
             /\ logins'[j].counts \subseteq logins[j].counts \ gone
             /\ logins'[j].counts # {} => logins[j].read + Lock > now'
             /\ logins'[j].at = logins[j].at
                  \/ (logins[j].at \notin {"new", "reserving"} /\ logins'[j].at = "over")
  <2> DEFINE d == logins[j]
             at == IF j = i THEN "over" ELSE d.at
             counts == IF before(j) THEN d.counts \ gone ELSE d.counts
  <2>1. d \in SignIns BY <1>0 DEF LoginTyped
  <2>2. logins'[j] = [d EXCEPT !.at = at, !.counts = counts] BY <1>1
  <2>3. at = d.at \/ (d.at \notin {"new", "reserving"} /\ at = "over") BY <1>1
  <2>4. counts \subseteq d.counts \ gone BY <1>4
  <2>5. d.counts # {} => d.read + Lock > now'
    <3> SUFFICES ASSUME NEW k \in d.counts PROVE d.read + Lock > now' OBVIOUS
    <3>1. k \in Login!Keys /\ j \in Login!Standing(k) BY <2>1, SignInChanges DEF Login!Standing
    <3> QED BY <1>0, <1>1, <3>1 DEF Told, Tells
  <2> HIDE DEF d
  <2>6. at \in {"new", "reserving", "hashing", "clearing", "over"} /\ counts \in SUBSET Login!Keys
    BY <2>1, <2>3, <2>4, SignInChanges
  <2> HIDE DEF at, counts
  <2>7. [d EXCEPT !.at = at, !.counts = counts] \in SignIns BY <2>1, <2>6, SignInChanges
  <2>8. /\ logins'[j].account = d.account /\ logins'[j].address = d.address /\ logins'[j].at = at
        /\ logins'[j].read = d.read /\ logins'[j].place = d.place /\ logins'[j].counts = counts
    BY <2>1, <2>2 DEF SignIns
  <2> QED BY <2>2, <2>3, <2>4, <2>5, <2>7, <2>8 DEF d
<1>6. logins' \in [Login!Ids -> SignIns] BY <1>1, <1>5
<1>7. now' \in Nat /\ now' >= now
  <2>1. now' = now BY <1>1
  <2> QED BY <1>0, <2>1
<1> QED BY <1>1, <1>2, <1>5, <1>6, <1>7, CountedLess

\* An operator takes a key, with what counted at it.
LEMMA UnlockKeeps ==
  ASSUME LoginInv, NEW k \in Login!Keys, Login!Unlock(k)
  PROVE  LoginInv'
<1>0. LoginTyped /\ Told /\ now \in Nat /\ Lock \in Nat BY DEF LoginInv, LoginTyped, LoginConstants
<1>1. /\ budgets' = [budgets EXCEPT ![k] = Login!NoRow] /\ now' = now /\ order' = order
      /\ logins' = [j \in Login!Ids |-> [logins[j] EXCEPT !.counts = @ \ {k}]]
  BY DEF Login!Unlock
<1>2. budgets' = [x \in Login!Keys |-> IF x \in {k} THEN Login!NoRow ELSE budgets[x]]
  BY <1>0, <1>1 DEF LoginTyped
<1>3. ASSUME NEW j \in Login!Ids
      PROVE  /\ logins'[j] \in SignIns
             /\ logins'[j].account = logins[j].account /\ logins'[j].address = logins[j].address
             /\ logins'[j].read = logins[j].read /\ logins'[j].place = logins[j].place
             /\ logins'[j].counts \subseteq logins[j].counts \ {k}
             /\ logins'[j].counts # {} => logins[j].read + Lock > now'
             /\ logins'[j].at = logins[j].at
  <2> DEFINE d == logins[j]
             counts == d.counts \ {k}
  <2>1. d \in SignIns BY <1>0 DEF LoginTyped
  <2>2. logins'[j] = [d EXCEPT !.counts = counts] BY <1>1
  <2>3. d.counts # {} => d.read + Lock > now'
    <3> SUFFICES ASSUME NEW x \in d.counts PROVE d.read + Lock > now' OBVIOUS
    <3>1. x \in Login!Keys /\ j \in Login!Standing(x) BY <2>1, SignInChanges DEF Login!Standing
    <3> QED BY <1>0, <1>1, <3>1 DEF Told, Tells
  <2> HIDE DEF d
  <2>4. counts \in SUBSET Login!Keys BY <2>1, SignInChanges
  <2>5. [d EXCEPT !.counts = counts] \in SignIns BY <2>1, <2>4, SignInChanges
  <2>6. /\ logins'[j].account = d.account /\ logins'[j].address = d.address /\ logins'[j].at = d.at
        /\ logins'[j].read = d.read /\ logins'[j].place = d.place /\ logins'[j].counts = counts
    BY <2>1, <2>2 DEF SignIns
  <2> QED BY <2>2, <2>3, <2>5, <2>6 DEF d
<1>4. logins' \in [Login!Ids -> SignIns] BY <1>1, <1>3
<1>5. now' \in Nat /\ now' >= now BY <1>0, <1>1
<1>6. {k} \in SUBSET Login!Keys OBVIOUS
<1> QED BY <1>1, <1>2, <1>3, <1>4, <1>5, <1>6, CountedLess

\* The invariant holds at the start.
LEMMA LoginStarts == LoginConstants /\ Login!Init => LoginInv
<1> SUFFICES ASSUME LoginConstants, Login!Init PROVE LoginInv OBVIOUS
<1>1. /\ now = 0 /\ order = 0 /\ budgets = [k \in Login!Keys |-> Login!NoRow]
      /\ logins = [i \in Login!Ids |-> Login!NoLogin]
  BY DEF Login!Init
<1>2. Login!NoRow \in LoginRows /\ Login!NoRow.attempts = 0 /\ Login!NoRow.blocked_until = 0
      /\ Login!NoRow.expires_at = 0
  BY NoRowIs
<1>3. /\ Login!NoLogin \in SignIns /\ Login!NoLogin.read = 0 /\ Login!NoLogin.place = 0
      /\ Login!NoLogin.counts = {} /\ Login!NoLogin.at = "new"
  BY NoLoginIs
<1>4. LoginTyped BY <1>1, <1>2, <1>3 DEF LoginTyped
<1>5. Requests BY <1>1, <1>3 DEF Requests
<1>6. Hard \in Nat \ {0} /\ Lock \in Nat BY DEF LoginConstants
<1>7. Blocks BY <1>1, <1>2, <1>6 DEF Blocks
<1>8. \A k \in Login!Keys : Login!Standing(k) = {} BY <1>1, <1>3 DEF Login!Standing
<1>9. Told BY <1>8 DEF Told
<1>10. Counted BY <1>1, <1>2, <1>8, FS_EmptySet DEF Counted
<1> QED BY <1>4, <1>5, <1>7, <1>9, <1>10 DEF LoginInv

\* The invariant is kept by every step.
LEMMA LoginKeeps == LoginInv /\ [Login!Next]_(Login!vars) => LoginInv'
<1> SUFFICES ASSUME LoginInv, [Login!Next]_(Login!vars) PROVE LoginInv' OBVIOUS
<1>1. CASE UNCHANGED Login!vars
  <2>1. now' = now /\ budgets' = budgets /\ logins' = logins /\ order' = order BY <1>1 DEF Login!vars
  <2> QED BY <2>1 DEF LoginInv, LoginTyped, Requests, Blocks, Told, Tells, Counted, Login!Standing, Login!Ids,
                      Login!Keys
<1>2. CASE Login!Tick BY <1>2, TickKeeps
<1>3. ASSUME NEW i \in Login!Ids,
             \/ Login!Arrive(i) \/ Login!Reserve(i) \/ Login!Refuse(i) \/ Login!Fail(i)
             \/ Login!Match(i) \/ Login!Clear(i) \/ Login!CrashAfterMatch(i)
      PROVE  LoginInv'
  BY <1>3, ArriveKeeps, ReserveKeeps, RefuseKeeps, AnswerKeeps, ClearKeeps
<1>4. ASSUME NEW k \in Login!Keys, Login!Unlock(k) PROVE LoginInv' BY <1>4, UnlockKeeps
<1> QED BY <1>1, <1>2, <1>3, <1>4 DEF Login!Next

\* The instance has a name of its own for the operator of FiniteSets.
LEMMA SameCardinality == ASSUME NEW S PROVE Login!Cardinality(S) = Cardinality(S)
BY DEF Login!Cardinality, Cardinality

\* The invariant bounds the checks.
LEMMA LoginHolds == LoginInv => Login!AttemptsBounded
<1>1. ASSUME LoginInv, NEW k \in Login!Keys
      PROVE  /\ Cardinality(Login!Standing(k)) <= Hard
             /\ budgets[k].attempts >= Cardinality(Login!Standing(k))
  <2>1. budgets[k].attempts <= Hard /\ budgets[k].attempts >= Cardinality(Login!Standing(k))
    BY <1>1 DEF LoginInv, Blocks, Counted
  <2>2. budgets[k].attempts \in Nat /\ Hard \in Nat /\ Cardinality(Login!Standing(k)) \in Nat
    BY <1>1, StandingFinite DEF LoginInv, LoginTyped, LoginRows, LoginConstants
  <2> QED BY <2>1, <2>2
<1> QED BY <1>1, SameCardinality DEF Login!AttemptsBounded

\* An account and an address are given at most Hard password checks in a lock's
\* time, and a success erases no attempt of another account or made after it
\* (reserve_login, clear_success).
THEOREM SignInsBounded == LoginConstants /\ Login!Spec => []Login!AttemptsBounded
<1> QED BY LoginHolds, LoginStarts, LoginKeeps, PTL DEF Login!Spec

-----------------------------------------------------------------------------
(***************************************************************************)
(* WorkflowSave: nobody's save is overwritten unseen.                      *)
(***************************************************************************)
CONSTANTS Contents, LastStamp, MaxWorkflows, MaxVersions
VARIABLES docs, editor
Editing == INSTANCE WorkflowSave WITH Clock <- LastStamp

\* The types of documents and versions in the editor, and what a save is made of.
Contained == Contents \cup {0}
Bases == [id : Nat, n : Nat]
Docs == [id : Nat, content : Contained, stamp : Int, basis : Bases]
EditVersions == [content : Contained, stamp : Int, basis : Bases]
Saves == [at : {"none", "sent", "saved", "conflict"}, doc : Docs, same : BOOLEAN, answer : Docs]

\* Every variable has its type, and no workflow is without a version.
EditTyped ==
  /\ LastStamp \in Int
  /\ docs \in Seq(Seq(EditVersions) \ {<<>>})
  /\ editor \in [doc : Docs, dirty : BOOLEAN, save : Saves, loading : Nat, load : Docs, conflict : Docs]
  /\ editor.loading \in {0} \cup Editing!Ids

\* The version a document says it comes from.
From(d) ==
  /\ d.id \in DOMAIN docs /\ d.basis.id = d.id /\ d.basis.n \in DOMAIN docs[d.id]
  /\ docs[d.id][d.basis.n].stamp = d.stamp

\* It still has the content of that version.
Exact(d) == From(d) /\ docs[d.id][d.basis.n].content = d.content

\* A later version has a later time, so the times tell versions apart.
Rising == \A id \in DOMAIN docs : \A m, n \in DOMAIN docs[id] :
  m < n => docs[id][m].stamp < docs[id][n].stamp

\* A version was made from the one it replaced.
Seen == \A id \in DOMAIN docs : \A n \in DOMAIN docs[id] :
  n > 1 => docs[id][n].basis = [id |-> id, n |-> n - 1]

\* What the editor holds, and what is under way to it, comes from a version.
Held ==
  /\ editor.doc.id # 0 => From(editor.doc)
  /\ ~editor.dirty => Exact(editor.doc)
  /\ editor.save.at = "sent" /\ editor.save.doc.id # 0 => From(editor.save.doc)
  /\ editor.save.at \in {"saved", "conflict"} => Exact(editor.save.answer)
  /\ editor.load # Editing!NoDoc => Exact(editor.load)
  /\ editor.conflict # Editing!NoDoc => Exact(editor.conflict)

\* The inductive invariant of saving.
EditInv == EditTyped /\ Rising /\ Seen /\ Held

\* The constants of the editor have their types.
LEMMA NoDocTyped == Editing!NoDoc \in Docs /\ Editing!NoDoc.id = 0 /\ Editing!NoSave \in Saves
BY DEF Editing!NoDoc, Editing!Doc, Editing!NoBasis, Editing!NoId, Editing!NoSave, Docs, Bases, Saves, Contained

\* Histories only grow, and what came from a version still does.
Grown == \A id \in DOMAIN docs :
  id \in DOMAIN docs' /\ \A n \in DOMAIN docs[id] : n \in DOMAIN docs'[id] /\ docs'[id][n] = docs[id][n]

\* A version a document came from is not changed by those that follow.
LEMMA FromStays ==
  ASSUME Grown, NEW d, From(d)
  PROVE  /\ d.id \in DOMAIN docs' /\ d.basis.id = d.id /\ d.basis.n \in DOMAIN docs'[d.id]
         /\ docs'[d.id][d.basis.n].stamp = d.stamp
         /\ Exact(d) => docs'[d.id][d.basis.n].content = d.content
BY DEF Grown, From, Exact

\* A version is added that was made from the last one.
LEMMA Appends ==
  ASSUME EditInv, NEW id \in DOMAIN docs, NEW v \in EditVersions,
         v.stamp > Editing!Row(id).stamp, v.basis = Editing!Place(id),
         docs' = [docs EXCEPT ![id] = Append(@, v)]
  PROVE  /\ docs' \in Seq(Seq(EditVersions) \ {<<>>}) /\ DOMAIN docs' = DOMAIN docs
         /\ Grown /\ Rising' /\ Seen'
         /\ Len(docs[id]) + 1 \in DOMAIN docs'[id] /\ docs'[id][Len(docs[id]) + 1] = v
<1>0. docs \in Seq(Seq(EditVersions) \ {<<>>}) BY DEF EditInv, EditTyped
<1>1. docs[id] \in Seq(EditVersions) /\ docs[id] # <<>> /\ id \in 1 .. Len(docs) BY <1>0
<1> DEFINE s == docs[id]
           t == Append(s, v)
<1>2. t \in Seq(EditVersions) /\ t # <<>> /\ Len(t) = Len(s) + 1 /\ Len(s) \in Nat \ {0}
      /\ DOMAIN t = 1 .. Len(s) + 1 /\ DOMAIN s = 1 .. Len(s)
  BY <1>1
<1>3. (\A n \in DOMAIN s : t[n] = s[n]) /\ t[Len(s) + 1] = v BY <1>1, <1>2
<1>4. docs' \in Seq(Seq(EditVersions) \ {<<>>}) /\ DOMAIN docs' = DOMAIN docs
  BY <1>0, <1>1, <1>2
<1>5. docs'[id] = t /\ \A x \in DOMAIN docs \ {id} : docs'[x] = docs[x] BY <1>0
<1> HIDE DEF t
<1>6. Grown BY <1>2, <1>3, <1>4, <1>5 DEF Grown
<1>7. s[Len(s)].stamp < v.stamp /\ v.basis = [id |-> id, n |-> Len(s)]
  BY DEF Editing!Row, Editing!Last, Editing!Place
<1>8. \A n \in DOMAIN s : s[n].stamp \in Int /\ s[n].stamp <= s[Len(s)].stamp
  <2> TAKE n \in DOMAIN s
  <2>1. s[n] \in EditVersions /\ s[Len(s)] \in EditVersions BY <1>1, <1>2
  <2>2. n < Len(s) => s[n].stamp < s[Len(s)].stamp BY <1>2 DEF EditInv, Rising
  <2> QED BY <1>2, <2>1, <2>2 DEF EditVersions
<1>9. v.stamp \in Int BY DEF EditVersions
<1>10. \A n \in DOMAIN s : t[n].stamp < t[Len(s) + 1].stamp BY <1>3, <1>7, <1>8, <1>9, <1>1, <1>2
<1>11. \A m, n \in DOMAIN t : m < n => t[m].stamp < t[n].stamp
  <2> TAKE m, n \in DOMAIN t
  <2>1. CASE n \in DOMAIN s
    <3>1. m < n => m \in DOMAIN s BY <1>2, <2>1
    <3> QED BY <1>3, <2>1, <3>1 DEF EditInv, Rising
  <2>2. CASE n = Len(s) + 1
    <3>1. m < n => m \in DOMAIN s BY <1>2, <2>2
    <3> QED BY <1>10, <2>2, <3>1
  <2> QED BY <1>2, <2>1, <2>2
<1>12. Rising' BY <1>4, <1>5, <1>11 DEF EditInv, Rising
<1>13. \A n \in DOMAIN t : n > 1 => t[n].basis = [id |-> id, n |-> n - 1]
  <2> TAKE n \in DOMAIN t
  <2>1. CASE n \in DOMAIN s BY <1>3, <2>1 DEF EditInv, Seen
  <2>2. CASE n = Len(s) + 1 BY <1>2, <1>3, <1>7, <2>2
  <2> QED BY <1>2, <2>1, <2>2
<1>14. Seen' BY <1>4, <1>5, <1>13 DEF EditInv, Seen
<1> QED BY <1>2, <1>3, <1>4, <1>5, <1>6, <1>12, <1>14

\* A document made from the row of a workflow.
LEMMA StoredExact ==
  ASSUME EditInv, NEW id \in Editing!Ids
  PROVE  Editing!Stored(id) \in Docs /\ Exact(Editing!Stored(id)) /\ Editing!Row(id).stamp \in Int
         /\ Editing!Place(id) \in Bases
<1>1. docs[id] \in Seq(EditVersions) \ {<<>>} /\ id \in Nat BY DEF EditInv, EditTyped, Editing!Ids
<1>2. Len(docs[id]) \in Nat /\ Len(docs[id]) \in DOMAIN docs[id] BY <1>1
<1>3. docs[id][Len(docs[id])] \in EditVersions BY <1>1, <1>2
<1> QED BY <1>1, <1>2, <1>3
  DEF Editing!Stored, Editing!Doc, Editing!Row, Editing!Last, Editing!Place, Docs, EditVersions,
      Bases, Exact, From, Editing!Ids

\* The history is the same, and the editor holds what it may.
LEMMA EditorMoves ==
  ASSUME EditInv, docs' = docs,
         editor' \in [doc : Docs, dirty : BOOLEAN, save : Saves, loading : Nat, load : Docs, conflict : Docs],
         editor'.loading \in {0} \cup Editing!Ids,
         editor'.doc.id # 0 => From(editor'.doc),
         ~editor'.dirty => Exact(editor'.doc),
         editor'.save.at = "sent" /\ editor'.save.doc.id # 0 => From(editor'.save.doc),
         editor'.save.at \in {"saved", "conflict"} => Exact(editor'.save.answer),
         editor'.load # Editing!NoDoc => Exact(editor'.load),
         editor'.conflict # Editing!NoDoc => Exact(editor'.conflict)
  PROVE  EditInv'
<1>1. EditTyped' BY DEF EditInv, EditTyped, Editing!Ids
<1>2. Rising' /\ Seen' BY DEF EditInv, Rising, Seen
<1> QED BY <1>1, <1>2 DEF EditInv, Held, From, Exact, Editing!NoDoc, Editing!Doc, Editing!NoBasis, Editing!NoId

EditorStep ==
  \/ Editing!Edit \/ Editing!Save \/ Editing!Saved \/ Editing!Conflicted \/ Editing!SaveLost
  \/ Editing!Load \/ Editing!ReadWorkflow \/ Editing!Loaded \/ Editing!Reload \/ Editing!Dismiss
  \/ Editing!Draft

\* Steps of the page alone keep the invariant.
LEMMA EditorKeeps ==
  ASSUME EditInv, EditorStep
  PROVE  EditInv'
<1> USE NoDocTyped
<1>0. /\ editor \in [doc : Docs, dirty : BOOLEAN, save : Saves, loading : Nat, load : Docs, conflict : Docs]
      /\ editor.loading \in {0} \cup Editing!Ids /\ Held
  BY DEF EditInv, EditTyped
<1>1. CASE Editing!Edit
  <2>1. PICK c \in Contents : editor' = [editor EXCEPT !.doc.content = c, !.dirty = TRUE] /\ docs' = docs
    BY <1>1 DEF Editing!Edit
  <2> DEFINE d == [editor.doc EXCEPT !.content = c]
  <2>2. d \in Docs /\ (d.id # 0 => From(d)) BY <1>0 DEF Docs, Contained, Held, From
  <2>3. editor' = [editor EXCEPT !.doc = d, !.dirty = TRUE] BY <1>0, <2>1
  <2> HIDE DEF d
  <2>4. /\ editor' \in [doc : Docs, dirty : BOOLEAN, save : Saves, loading : Nat, load : Docs, conflict : Docs]
        /\ editor'.save = editor.save /\ editor'.doc = d /\ editor'.dirty
        /\ editor'.loading = editor.loading /\ editor'.load = editor.load /\ editor'.conflict = editor.conflict
    BY <1>0, <2>2, <2>3
  <2> QED BY <1>0, <2>1, <2>2, <2>4, EditorMoves DEF Held
<1>2. CASE Editing!Save
  <2>1. /\ editor.save.at = "none" /\ docs' = docs
        /\ editor' = [editor EXCEPT !.save = [Editing!NoSave EXCEPT !.at = "sent", !.doc = editor.doc, !.same = TRUE]]
    BY <1>2 DEF Editing!Save
  <2> DEFINE s == [Editing!NoSave EXCEPT !.at = "sent", !.doc = editor.doc, !.same = TRUE]
  <2>2. s \in Saves /\ s.at = "sent" /\ s.doc = editor.doc BY <1>0 DEF Saves
  <2> HIDE DEF s
  <2>3. editor' \in [doc : Docs, dirty : BOOLEAN, save : Saves, loading : Nat, load : Docs, conflict : Docs]
        /\ editor'.save = s /\ editor'.doc = editor.doc /\ editor'.dirty = editor.dirty
        /\ editor'.loading = editor.loading /\ editor'.load = editor.load /\ editor'.conflict = editor.conflict
    BY <1>0, <2>1, <2>2 DEF s
  <2> QED BY <1>0, <2>1, <2>2, <2>3, EditorMoves DEF Held
<1>3. CASE Editing!Saved
  <2>1. editor.save.at = "saved" /\ docs' = docs /\ Exact(editor.save.answer) /\ editor.save.answer \in Docs
    BY <1>0, <1>3 DEF Editing!Saved, Held, Saves
  <2>2. CASE editor.save.same
    <3> DEFINE a == editor.save.answer
               d == [id |-> a.id, content |-> editor.doc.content, stamp |-> a.stamp, basis |-> a.basis]
    <3>1. editor' = [editor EXCEPT !.doc = d, !.dirty = editor.doc.content # a.content,
                                   !.save = Editing!NoSave, !.conflict = Editing!NoDoc]
      BY <1>3, <2>2 DEF Editing!Saved, Editing!SameDocument, Editing!Origin, Editing!Doc
    <3>2. d \in Docs /\ From(d) /\ (editor.doc.content = a.content => Exact(d))
      BY <1>0, <2>1 DEF Docs, From, Exact
    <3> HIDE DEF d, a
    <3>3. /\ editor' \in [doc : Docs, dirty : BOOLEAN, save : Saves, loading : Nat, load : Docs, conflict : Docs]
          /\ editor'.save = Editing!NoSave /\ editor'.doc = d /\ (~editor'.dirty => editor.doc.content = a.content)
          /\ editor'.loading = editor.loading /\ editor'.load = editor.load /\ editor'.conflict = Editing!NoDoc
      BY <1>0, <3>1, <3>2
    <3>4. editor'.save.at = "none" BY <3>3 DEF Editing!NoSave
    <3> QED BY <1>0, <2>1, <3>2, <3>3, <3>4, EditorMoves DEF Held
  <2>3. CASE ~editor.save.same
    <3>1. editor' = [editor EXCEPT !.save = Editing!NoSave] BY <1>3, <2>3 DEF Editing!Saved, Editing!SameDocument
    <3>2. /\ editor' \in [doc : Docs, dirty : BOOLEAN, save : Saves, loading : Nat, load : Docs, conflict : Docs]
          /\ editor'.save = Editing!NoSave /\ editor'.doc = editor.doc /\ editor'.dirty = editor.dirty
          /\ editor'.loading = editor.loading /\ editor'.load = editor.load /\ editor'.conflict = editor.conflict
      BY <1>0, <3>1
    <3>3. editor'.save.at = "none" BY <3>2 DEF Editing!NoSave
    <3> QED BY <1>0, <2>1, <3>2, <3>3, EditorMoves DEF Held
  <2> QED BY <2>2, <2>3
<1>4. CASE Editing!Conflicted
  <2>1. editor.save.at = "conflict" /\ docs' = docs /\ Exact(editor.save.answer) /\ editor.save.answer \in Docs
    BY <1>0, <1>4 DEF Editing!Conflicted, Held, Saves
  <2>2. PICK c \in {editor.conflict, editor.save.answer} :
          editor' = [editor EXCEPT !.save = Editing!NoSave, !.conflict = c]
    BY <1>4 DEF Editing!Conflicted
  <2>3. c \in Docs /\ (c # Editing!NoDoc => Exact(c)) BY <1>0, <2>1 DEF Held
  <2>4. /\ editor' \in [doc : Docs, dirty : BOOLEAN, save : Saves, loading : Nat, load : Docs, conflict : Docs]
        /\ editor'.save = Editing!NoSave /\ editor'.doc = editor.doc /\ editor'.dirty = editor.dirty
        /\ editor'.loading = editor.loading /\ editor'.load = editor.load /\ editor'.conflict = c
    BY <1>0, <2>2, <2>3
  <2>5. editor'.save.at = "none" BY <2>4 DEF Editing!NoSave
  <2> QED BY <1>0, <2>1, <2>3, <2>4, <2>5, EditorMoves DEF Held
<1>5. CASE Editing!SaveLost
  <2>1. editor' = [editor EXCEPT !.save = Editing!NoSave] /\ docs' = docs BY <1>5 DEF Editing!SaveLost
  <2>2. /\ editor' \in [doc : Docs, dirty : BOOLEAN, save : Saves, loading : Nat, load : Docs, conflict : Docs]
        /\ editor'.save = Editing!NoSave /\ editor'.doc = editor.doc /\ editor'.dirty = editor.dirty
        /\ editor'.loading = editor.loading /\ editor'.load = editor.load /\ editor'.conflict = editor.conflict
    BY <1>0, <2>1
  <2>3. editor'.save.at = "none" BY <2>2 DEF Editing!NoSave
  <2> QED BY <1>0, <2>1, <2>2, <2>3, EditorMoves DEF Held
<1>6. CASE Editing!Load
  <2>1. PICK id \in Editing!Ids : editor' = [editor EXCEPT !.loading = id] /\ docs' = docs
    BY <1>6 DEF Editing!Load
  <2>2. id \in Nat BY DEF Editing!Ids, EditInv, EditTyped
  <2>3. /\ editor' \in [doc : Docs, dirty : BOOLEAN, save : Saves, loading : Nat, load : Docs, conflict : Docs]
        /\ editor'.save = editor.save /\ editor'.doc = editor.doc /\ editor'.dirty = editor.dirty
        /\ editor'.loading = id /\ editor'.load = editor.load /\ editor'.conflict = editor.conflict
    BY <1>0, <2>1, <2>2
  <2> QED BY <1>0, <2>1, <2>3, EditorMoves DEF Held
<1>7. CASE Editing!ReadWorkflow
  <2>1. /\ editor.loading \in Editing!Ids /\ docs' = docs
        /\ editor' = [editor EXCEPT !.load = Editing!Stored(editor.loading)]
    BY <1>0, <1>7 DEF Editing!ReadWorkflow, Editing!NoId
  <2>2. Editing!Stored(editor.loading) \in Docs /\ Exact(Editing!Stored(editor.loading))
    BY <2>1, StoredExact
  <2>3. /\ editor' \in [doc : Docs, dirty : BOOLEAN, save : Saves, loading : Nat, load : Docs, conflict : Docs]
        /\ editor'.save = editor.save /\ editor'.doc = editor.doc /\ editor'.dirty = editor.dirty
        /\ editor'.loading = editor.loading /\ editor'.load = Editing!Stored(editor.loading)
        /\ editor'.conflict = editor.conflict
    BY <1>0, <2>1, <2>2
  <2> QED BY <1>0, <2>1, <2>2, <2>3, EditorMoves DEF Held
<1>8. ASSUME NEW d \in Docs
      PROVE  LET e == Editing!Replace(editor, d) IN
             /\ e \in [doc : Docs, dirty : BOOLEAN, save : Saves, loading : Nat, load : Docs, conflict : Docs]
             /\ e.doc = d /\ (e.dirty <=> d.id = 0) /\ e.conflict = Editing!NoDoc
             /\ e.save.at = editor.save.at /\ e.save.doc = editor.save.doc /\ e.save.answer = editor.save.answer
             /\ e.loading = editor.loading /\ e.load = editor.load
  <2> DEFINE new == d.id = 0
             s == [editor.save EXCEPT !.same = FALSE]
             e == [editor EXCEPT !.doc = d, !.dirty = new, !.conflict = Editing!NoDoc, !.save = s]
  <2>1. s \in Saves /\ s.at = editor.save.at /\ s.doc = editor.save.doc /\ s.answer = editor.save.answer
    BY <1>0 DEF Saves
  <2>2. Editing!Replace(editor, d) = e BY <1>0 DEF Editing!Replace, Editing!NoId
  <2>3. new \in BOOLEAN /\ (new <=> d.id = 0) OBVIOUS
  <2> HIDE DEF s, new
  <2>4. /\ e \in [doc : Docs, dirty : BOOLEAN, save : Saves, loading : Nat, load : Docs, conflict : Docs]
        /\ e.doc = d /\ e.dirty = new /\ e.conflict = Editing!NoDoc /\ e.save = s
        /\ e.loading = editor.loading /\ e.load = editor.load
    BY <1>0, <2>1, <2>3
  <2> QED BY <2>1, <2>2, <2>3, <2>4
<1>9. CASE Editing!Loaded
  <2>1. editor.load # Editing!NoDoc /\ docs' = docs /\ Exact(editor.load) /\ editor.load \in Docs
        /\ editor' = [Editing!Replace(editor, editor.load) EXCEPT !.loading = 0, !.load = Editing!NoDoc]
    BY <1>0, <1>9 DEF Editing!Loaded, Held, Editing!NoId
  <2>2. editor.load.id # 0 BY <2>1 DEF Exact, From, EditInv, EditTyped
  <2>3. /\ editor' \in [doc : Docs, dirty : BOOLEAN, save : Saves, loading : Nat, load : Docs, conflict : Docs]
        /\ editor'.doc = editor.load /\ editor'.conflict = Editing!NoDoc
        /\ editor'.save.at = editor.save.at /\ editor'.save.doc = editor.save.doc
        /\ editor'.save.answer = editor.save.answer /\ editor'.loading = 0 /\ editor'.load = Editing!NoDoc
    BY <1>8, <2>1
  <2> QED BY <1>0, <2>1, <2>3, EditorMoves DEF Held, Exact
<1>10. CASE Editing!Reload
  <2>1. docs' = docs /\ Exact(editor.conflict) /\ editor.conflict \in Docs
        /\ editor' = Editing!Replace(editor, editor.conflict)
    BY <1>0, <1>10 DEF Editing!Reload, Held
  <2>2. /\ editor' \in [doc : Docs, dirty : BOOLEAN, save : Saves, loading : Nat, load : Docs, conflict : Docs]
        /\ editor'.doc = editor.conflict /\ editor'.conflict = Editing!NoDoc
        /\ editor'.save.at = editor.save.at /\ editor'.save.doc = editor.save.doc
        /\ editor'.save.answer = editor.save.answer /\ editor'.loading = editor.loading /\ editor'.load = editor.load
    BY <1>8, <2>1
  <2> QED BY <1>0, <2>1, <2>2, EditorMoves DEF Held, Exact
<1>11. CASE Editing!Dismiss
  <2>1. editor' = [editor EXCEPT !.conflict = Editing!NoDoc] /\ docs' = docs BY <1>11 DEF Editing!Dismiss
  <2>2. /\ editor' \in [doc : Docs, dirty : BOOLEAN, save : Saves, loading : Nat, load : Docs, conflict : Docs]
        /\ editor'.save = editor.save /\ editor'.doc = editor.doc /\ editor'.dirty = editor.dirty
        /\ editor'.loading = editor.loading /\ editor'.load = editor.load /\ editor'.conflict = Editing!NoDoc
    BY <1>0, <2>1
  <2> QED BY <1>0, <2>1, <2>2, EditorMoves DEF Held
<1>12. CASE Editing!Draft
  <2>1. PICK c \in Contents : editor' = Editing!Replace(editor, [Editing!NoDoc EXCEPT !.content = c]) /\ docs' = docs
    BY <1>12 DEF Editing!Draft
  <2> DEFINE d == [Editing!NoDoc EXCEPT !.content = c]
  <2>2. d \in Docs /\ d.id = 0 BY DEF Docs, Contained
  <2> HIDE DEF d
  <2>3. /\ editor' \in [doc : Docs, dirty : BOOLEAN, save : Saves, loading : Nat, load : Docs, conflict : Docs]
        /\ editor'.doc = d /\ editor'.dirty /\ editor'.conflict = Editing!NoDoc
        /\ editor'.save.at = editor.save.at /\ editor'.save.doc = editor.save.doc
        /\ editor'.save.answer = editor.save.answer /\ editor'.loading = editor.loading /\ editor'.load = editor.load
    BY <1>8, <2>1, <2>2 DEF d
  <2> QED BY <1>0, <2>1, <2>2, <2>3, EditorMoves DEF Held
<1> QED BY <1>1, <1>2, <1>3, <1>4, <1>5, <1>6, <1>7, <1>9, <1>10, <1>11, <1>12 DEF EditorStep

\* The history grows, and the editor holds what it may.
LEMMA HistoryMoves ==
  ASSUME EditInv, Grown, docs' \in Seq(Seq(EditVersions) \ {<<>>}), Rising', Seen',
         NEW s \in Saves, editor' = [editor EXCEPT !.save = s],
         s.at \in {"saved", "conflict"} =>
           /\ s.answer.id \in DOMAIN docs' /\ s.answer.basis.id = s.answer.id
           /\ s.answer.basis.n \in DOMAIN docs'[s.answer.id]
           /\ docs'[s.answer.id][s.answer.basis.n].stamp = s.answer.stamp
           /\ docs'[s.answer.id][s.answer.basis.n].content = s.answer.content,
         s.at = "sent" => editor.save.at = "sent" /\ s.doc = editor.save.doc
  PROVE  EditInv'
<1>0. /\ editor \in [doc : Docs, dirty : BOOLEAN, save : Saves, loading : Nat, load : Docs, conflict : Docs]
      /\ editor.loading \in {0} \cup Editing!Ids /\ Held /\ LastStamp \in Int
  BY DEF EditInv, EditTyped
<1>1. /\ editor' \in [doc : Docs, dirty : BOOLEAN, save : Saves, loading : Nat, load : Docs, conflict : Docs]
      /\ editor'.save = s /\ editor'.doc = editor.doc /\ editor'.dirty = editor.dirty
      /\ editor'.loading = editor.loading /\ editor'.load = editor.load /\ editor'.conflict = editor.conflict
  BY <1>0
<1>2. EditTyped' BY <1>0, <1>1 DEF EditTyped, Editing!Ids, Grown
<1>3. Editing!NoDoc' = Editing!NoDoc BY DEF Editing!NoDoc, Editing!Doc, Editing!NoBasis, Editing!NoId
<1>4. editor'.doc.id # 0 => From(editor.doc)' BY <1>0, <1>1, FromStays DEF Held, From
<1>5. ~editor'.dirty => Exact(editor.doc)' BY <1>0, <1>1, FromStays DEF Held, Exact, From
<1>6. editor'.save.at = "sent" /\ editor'.save.doc.id # 0 => From(editor.save.doc)'
  <2> SUFFICES ASSUME editor'.save.at = "sent", editor'.save.doc.id # 0
               PROVE From(editor.save.doc)'
    OBVIOUS
  <2>1. editor'.save.doc = editor.save.doc /\ editor.save.at = "sent" BY <1>1
  <2>2. From(editor.save.doc) BY <1>0, <2>1 DEF Held
  <2> QED BY <2>1, <2>2, FromStays DEF From
<1>7. editor'.save.at \in {"saved", "conflict"} => Exact(editor.save.answer)'
  BY <1>1 DEF Exact, From
<1>8. editor'.load # Editing!NoDoc => Exact(editor.load)' BY <1>0, <1>1, FromStays DEF Held, Exact, From
<1>9. editor'.conflict # Editing!NoDoc => Exact(editor.conflict)' BY <1>0, <1>1, FromStays DEF Held, Exact, From
<1>10. Held' BY <1>3, <1>4, <1>5, <1>6, <1>7, <1>8, <1>9 DEF Held
<1> QED BY <1>2, <1>10 DEF EditInv

\* A save is later than the version it was made from (Stamp).
LEMMA StampRises == ASSUME NEW time \in Int, NEW expected \in Int
  PROVE Editing!Stamp(time, expected) \in Int /\ Editing!Stamp(time, expected) > expected
BY DEF Editing!Stamp

\* A save by this editor or by another keeps the invariant.
LEMMA HistoryKeeps ==
  ASSUME EditInv, Editing!Put \/ Editing!Post \/ Editing!Elsewhere
  PROVE  EditInv'
<1>0. /\ editor \in [doc : Docs, dirty : BOOLEAN, save : Saves, loading : Nat, load : Docs, conflict : Docs]
      /\ editor.save \in Saves /\ editor.save.doc \in Docs
      /\ Held /\ LastStamp \in Int /\ docs \in Seq(Seq(EditVersions) \ {<<>>})
  BY DEF EditInv, EditTyped, Saves
<1>1. CASE Editing!Elsewhere
  <2>1. PICK id \in Editing!Ids, c \in Contents, time \in Editing!Now :
          /\ docs' = [docs EXCEPT ![id] = Append(@, [content |-> c, stamp |-> Editing!Stamp(time, Editing!Row(id).stamp),
                                                     basis |-> Editing!Place(id)])]
          /\ editor' = editor
    BY <1>1 DEF Editing!Elsewhere
  <2> DEFINE v == [content |-> c, stamp |-> Editing!Stamp(time, Editing!Row(id).stamp), basis |-> Editing!Place(id)]
  <2>2. id \in DOMAIN docs /\ time \in Int BY <1>0 DEF Editing!Ids, Editing!Now
  <2>3. v \in EditVersions /\ v.stamp > Editing!Row(id).stamp /\ v.basis = Editing!Place(id)
    BY <2>2, StoredExact, StampRises DEF EditVersions, Contained
  <2> HIDE DEF v
  <2>4. docs' = [docs EXCEPT ![id] = Append(@, v)] BY <2>1 DEF v
  <2>5. docs' \in Seq(Seq(EditVersions) \ {<<>>}) /\ Grown /\ Rising' /\ Seen' BY <2>2, <2>3, <2>4, Appends
  <2>6. editor' = [editor EXCEPT !.save = editor.save] BY <1>0, <2>1
  <2>7. editor.save.at \in {"saved", "conflict"} =>
          /\ editor.save.answer.id \in DOMAIN docs' /\ editor.save.answer.basis.id = editor.save.answer.id
          /\ editor.save.answer.basis.n \in DOMAIN docs'[editor.save.answer.id]
          /\ docs'[editor.save.answer.id][editor.save.answer.basis.n].stamp = editor.save.answer.stamp
          /\ docs'[editor.save.answer.id][editor.save.answer.basis.n].content = editor.save.answer.content
    BY <1>0, <2>5, FromStays DEF Held, Exact
  <2> QED BY <1>0, <2>5, <2>6, <2>7, HistoryMoves
<1>2. CASE Editing!Put /\ Editing!Row(editor.save.doc.id).stamp = editor.save.doc.stamp
  <2> DEFINE sent == editor.save.doc
  <2>1. editor.save.at = "sent" /\ sent.id # 0 /\ From(sent) BY <1>0, <1>2 DEF Editing!Put, Editing!NoId, Held
  <2>2. sent.id \in DOMAIN docs /\ sent.id \in Editing!Ids BY <2>1 DEF From, Editing!Ids
  <2>3. sent.basis = Editing!Place(sent.id)
    <3> DEFINE s == docs[sent.id]
    <3>1. s \in Seq(EditVersions) /\ Len(s) \in DOMAIN s /\ DOMAIN s = 1 .. Len(s) /\ Len(s) \in Nat
      <4>1. s \in Seq(EditVersions) /\ s # <<>> BY <1>0, <2>2
      <4> QED BY <4>1
    <3>2. sent.basis.n \in DOMAIN s /\ s[sent.basis.n].stamp = s[Len(s)].stamp /\ sent.basis.id = sent.id
      BY <1>2, <2>1 DEF From, Editing!Row, Editing!Last
    <3>6. s[Len(s)] \in EditVersions BY <3>1
    <3>3. s[Len(s)].stamp \in Int BY <3>6 DEF EditVersions
    <3>4. ~(sent.basis.n < Len(s)) BY <2>2, <3>1, <3>2, <3>3 DEF EditInv, Rising
    <3>5. sent.basis.n = Len(s) BY <3>1, <3>2, <3>4
    <3> QED BY <1>0, <3>2, <3>5 DEF Editing!Place, Docs, Bases
  <2>4. PICK time \in Editing!Now :
          LET stamp == Editing!Stamp(time, sent.stamp) IN
          /\ docs' = [docs EXCEPT ![sent.id] = Append(@,
               [content |-> sent.content, stamp |-> stamp, basis |-> sent.basis])]
          /\ editor' = [editor EXCEPT !.save.at = "saved", !.save.answer =
               Editing!Doc(sent.id, sent.content, stamp, [id |-> sent.id, n |-> Len(docs[sent.id]) + 1])]
    BY <1>2 DEF Editing!Put
  <2> DEFINE stamp == Editing!Stamp(time, sent.stamp)
             v == [content |-> sent.content, stamp |-> stamp, basis |-> sent.basis]
             answer == [id |-> sent.id, content |-> sent.content, stamp |-> stamp,
                        basis |-> [id |-> sent.id, n |-> Len(docs[sent.id]) + 1]]
             s == [editor.save EXCEPT !.at = "saved", !.answer = answer]
  <2>5. time \in Int /\ sent.stamp \in Int BY <1>0 DEF Editing!Now, Docs
  <2>6. v \in EditVersions /\ v.stamp > Editing!Row(sent.id).stamp /\ v.basis = Editing!Place(sent.id)
    BY <1>0, <1>2, <2>3, <2>5, StampRises DEF EditVersions, Docs
  <2>7. answer \in Docs
    <3>1. Len(docs[sent.id]) + 1 \in Nat /\ sent.id \in Nat BY <1>0, <2>2
    <3> QED BY <1>0, <2>5, <3>1, StampRises DEF Docs, Bases
  <2>8. s \in Saves /\ s.at = "saved" /\ s.answer = answer BY <1>0, <2>7 DEF Saves
  <2>9. docs' = [docs EXCEPT ![sent.id] = Append(@, v)] BY <2>4
  <2>10. editor' = [editor EXCEPT !.save = s] BY <1>0, <2>4 DEF Editing!Doc
  <2> HIDE DEF v, s
  <2>11. /\ docs' \in Seq(Seq(EditVersions) \ {<<>>}) /\ Grown /\ Rising' /\ Seen' /\ DOMAIN docs' = DOMAIN docs
         /\ Len(docs[sent.id]) + 1 \in DOMAIN docs'[sent.id] /\ docs'[sent.id][Len(docs[sent.id]) + 1] = v
    BY <2>2, <2>6, <2>9, Appends
  <2>12. v.stamp = answer.stamp /\ v.content = answer.content BY DEF v
  <2>13. answer.id = sent.id /\ answer.basis.id = sent.id /\ answer.basis.n = Len(docs[sent.id]) + 1 OBVIOUS
  <2> HIDE DEF answer
  <2>14. /\ s.answer.id \in DOMAIN docs' /\ s.answer.basis.id = s.answer.id
         /\ s.answer.basis.n \in DOMAIN docs'[s.answer.id]
         /\ docs'[s.answer.id][s.answer.basis.n].stamp = s.answer.stamp
         /\ docs'[s.answer.id][s.answer.basis.n].content = s.answer.content
    BY <2>2, <2>8, <2>11, <2>12, <2>13
  <2>15. s \in Saves /\ s.at # "sent" BY <2>8
  <2> QED BY <2>10, <2>11, <2>14, <2>15, HistoryMoves
<1>3. CASE Editing!Put /\ Editing!Row(editor.save.doc.id).stamp # editor.save.doc.stamp
  <2> DEFINE id == editor.save.doc.id
             s == [editor.save EXCEPT !.at = "conflict", !.answer = Editing!Stored(id)]
  <2>1. /\ editor.save.at = "sent" /\ id # 0 /\ From(editor.save.doc) /\ docs' = docs
        /\ editor' = [editor EXCEPT !.save.at = "conflict", !.save.answer = Editing!Stored(id)]
    BY <1>0, <1>3 DEF Editing!Put, Editing!NoId, Held
  <2>2. Editing!Stored(id) \in Docs /\ Exact(Editing!Stored(id))
    BY <2>1, StoredExact DEF From, Editing!Ids
  <2>3. s \in Saves /\ s.at = "conflict" /\ s.answer = Editing!Stored(id) BY <1>0, <2>2 DEF Saves
  <2>4. editor' = [editor EXCEPT !.save = s] BY <1>0, <2>1
  <2> HIDE DEF s
  <2>5. /\ editor' \in [doc : Docs, dirty : BOOLEAN, save : Saves, loading : Nat, load : Docs, conflict : Docs]
        /\ editor'.save = s /\ editor'.doc = editor.doc /\ editor'.dirty = editor.dirty
        /\ editor'.loading = editor.loading /\ editor'.load = editor.load /\ editor'.conflict = editor.conflict
    BY <1>0, <2>3, <2>4
  <2>6. editor'.loading \in {0} \cup Editing!Ids BY <2>5 DEF EditInv, EditTyped
  <2> QED BY <1>0, <2>1, <2>2, <2>3, <2>5, <2>6, EditorMoves DEF Held
<1>4. CASE Editing!Post
  <2> DEFINE sent == editor.save.doc
             id == Len(docs) + 1
  <2>1. PICK time \in Editing!Now :
          /\ docs' = Append(docs, <<[content |-> sent.content, stamp |-> time, basis |-> Editing!NoBasis]>>)
          /\ editor' = [editor EXCEPT !.save.at = "saved", !.save.answer =
               Editing!Doc(id, sent.content, time, [id |-> id, n |-> 1])]
    BY <1>4 DEF Editing!Post
  <2> DEFINE v == [content |-> sent.content, stamp |-> time, basis |-> Editing!NoBasis]
             answer == [id |-> id, content |-> sent.content, stamp |-> time, basis |-> [id |-> id, n |-> 1]]
             s == [editor.save EXCEPT !.at = "saved", !.answer = answer]
  <2>2. time \in Int /\ id \in Nat BY <1>0 DEF Editing!Now
  <2>3. v \in EditVersions /\ answer \in Docs
    BY <1>0, <2>2 DEF EditVersions, Docs, Bases, Editing!NoBasis, Editing!NoId
  <2>4. s \in Saves /\ s.at = "saved" /\ s.answer = answer BY <1>0, <2>3 DEF Saves
  <2>5. editor' = [editor EXCEPT !.save = s] BY <1>0, <2>1 DEF Editing!Doc
  <2>6. v.stamp = answer.stamp /\ v.content = answer.content OBVIOUS
  <2>7. docs' = Append(docs, <<v>>) BY <2>1
  <2> HIDE DEF v, s
  <2>8. <<v>> \in Seq(EditVersions) \ {<<>>} /\ DOMAIN <<v>> = {1} /\ <<v>>[1] = v BY <2>3
  <2>9. docs' \in Seq(Seq(EditVersions) \ {<<>>}) BY <1>0, <2>7, <2>8
  <2>10. DOMAIN docs = 1 .. Len(docs) /\ DOMAIN docs' = 1 .. id /\ Len(docs) \in Nat BY <1>0, <2>7, <2>8
  <2>11. docs'[id] = <<v>> /\ \A x \in DOMAIN docs : docs'[x] = docs[x] BY <1>0, <2>7, <2>8
  <2>12. Grown BY <2>10, <2>11 DEF Grown
  <2>13. \A x \in DOMAIN docs' : x \in DOMAIN docs \/ x = id BY <2>10
  <2>14. Rising' BY <2>8, <2>11, <2>13 DEF EditInv, Rising
  <2>15. Seen' BY <2>8, <2>11, <2>13 DEF EditInv, Seen
  <2>16. id \in DOMAIN docs' /\ 1 \in DOMAIN docs'[id] /\ docs'[id][1] = v BY <2>8, <2>10, <2>11
  <2>17. answer.id = id /\ answer.basis.id = id /\ answer.basis.n = 1 OBVIOUS
  <2> HIDE DEF answer, id
  <2>18. /\ s.answer.id \in DOMAIN docs' /\ s.answer.basis.id = s.answer.id
         /\ s.answer.basis.n \in DOMAIN docs'[s.answer.id]
         /\ docs'[s.answer.id][s.answer.basis.n].stamp = s.answer.stamp
         /\ docs'[s.answer.id][s.answer.basis.n].content = s.answer.content
    BY <2>4, <2>6, <2>16, <2>17
  <2>19. s \in Saves /\ s.at # "sent" BY <2>4
  <2> QED BY <2>5, <2>9, <2>12, <2>14, <2>15, <2>18, <2>19, HistoryMoves
<1> QED BY <1>1, <1>2, <1>3, <1>4

\* The invariant holds at the start and is kept by every step.
LEMMA EditInit == LastStamp \in Int /\ Editing!Init => EditInv
<1> SUFFICES ASSUME LastStamp \in Int, Editing!Init PROVE EditInv OBVIOUS
<1>1. docs = <<>> /\ editor.dirty /\ editor.doc = Editing!NoDoc /\ editor.save = Editing!NoSave
      /\ editor.loading = 0 /\ editor.load = Editing!NoDoc /\ editor.conflict = Editing!NoDoc
  BY DEF Editing!Init, Editing!NoId
<1>2. editor \in [doc : Docs, dirty : BOOLEAN, save : Saves, loading : Nat, load : Docs, conflict : Docs]
  BY NoDocTyped DEF Editing!Init, Editing!NoId
<1>3. EditTyped BY <1>1, <1>2 DEF EditTyped
<1>4. editor.save.at = "none" BY <1>1 DEF Editing!NoSave
<1> QED BY <1>1, <1>3, <1>4, NoDocTyped DEF EditInv, Rising, Seen, Held

\* Every step of the specification is one of the two kinds.
LEMMA EditStep == EditInv /\ [Editing!Next]_(Editing!vars) => EditInv'
<1> SUFFICES ASSUME EditInv, [Editing!Next]_(Editing!vars) PROVE EditInv' OBVIOUS
<1>1. CASE Editing!Put \/ Editing!Post \/ Editing!Elsewhere BY <1>1, HistoryKeeps
<1>2. CASE EditorStep BY <1>2, EditorKeeps
<1>3. CASE UNCHANGED <<docs, editor>>
  BY <1>3 DEF EditInv, EditTyped, Rising, Seen, Held, From, Exact, Editing!Ids, Editing!NoDoc,
              Editing!Doc, Editing!NoBasis, Editing!NoId
<1> QED BY <1>1, <1>2, <1>3 DEF Editing!Next, EditorStep, Editing!vars

\* The invariant says what is to be shown.
LEMMA EditHolds == EditInv => Editing!SavedFromSeen
<1> SUFFICES ASSUME EditInv PROVE Editing!SavedFromSeen OBVIOUS
<1>1. \A id \in Editing!Ids : docs[id] \in Seq(EditVersions) BY DEF EditInv, EditTyped, Editing!Ids
<1>2. ASSUME NEW id \in Editing!Ids, NEW n \in 2 .. Len(docs[id])
      PROVE  docs[id][n].basis = [id |-> id, n |-> n - 1]
  <2>1. n \in DOMAIN docs[id] /\ n > 1 BY <1>1
  <2> QED BY <2>1 DEF EditInv, Seen, Editing!Ids
<1> QED BY <1>2 DEF EditInv, Held, Exact, From, Editing!SavedFromSeen, Editing!Ids

\* Nobody's save is overwritten unseen, whatever is answered late or lost, and what
\* is not shown as unsaved is stored (save_workflow, save).
THEOREM NothingOverwrittenUnseen == LastStamp \in Int /\ Editing!Spec => []Editing!SavedFromSeen
<1> QED BY EditInit, EditStep, EditHolds, PTL DEF Editing!Spec

-----------------------------------------------------------------------------
(***************************************************************************)
(* SwitchCases: a connection keeps the case it was drawn from.             *)
(***************************************************************************)
CONSTANTS MaxCases, Ids, Rules, MaxEdges, MaxWho
VARIABLES list, entries, edges, made
Cases == INSTANCE SwitchCases

RoutesApart == MaxEdges \in Nat /\ Ids \cap {0, -1, -2, -3} = {}
RouteIds == Ids \cup {0, -1, -2, -3}
EntrySet == [who : Nat \ {0}, kind : Cases!Kinds, id : RouteIds, rule : Rules \cup {0}]
EdgeSet == [key : Nat, node : {"switch", "another"}, handle : RouteIds \cup {1}, of : Int]

\* Whether the i-th of the entries es is the only one at the route h.
Owns(es, i, h) == es[i].id = h /\ h \notin {-1, -2, 0} /\ \A j \in 1 .. Len(es) : j # i => es[j].id # h

\* A connection is at the route its case owns, and nobody else's.
Drawn(es, e) ==
  /\ e.handle # 0 /\ (e.of = -1 <=> e.handle = -1)
  /\ e.of \in {0, -1} \cup Cases!Whos(es)
  /\ \A i \in 1 .. Len(es) :
       /\ e.of = es[i].who => Owns(es, i, e.handle)
       /\ Owns(es, i, e.handle) => e.of \in {0, es[i].who}

Listed(es, n) ==
  /\ es \in Seq(EntrySet)
  /\ \A i \in 1 .. Len(es) : es[i].who <= n /\ \A j \in 1 .. Len(es) : es[i].who = es[j].who => i = j

CasesInv ==
  /\ made \in Nat /\ Listed(entries, made) /\ (~list => entries = <<>>)
  /\ edges \subseteq EdgeSet /\ \A e, x \in edges : e.key = x.key => e = x
  /\ \A e \in edges : Cases!Here(e) => Drawn(entries, e)

LEMMA OwnedIdOwns ==
  ASSUME NEW es \in Seq(EntrySet), NEW i \in 1 .. Len(es), NEW h, h # 0
  PROVE  Cases!OwnedId(es, i) = h <=> Owns(es, i, h)
BY DEF Cases!OwnedId, Owns, Cases!Shared, Cases!Reserved, Cases!None, Cases!Default
-----------------------------------------------------------------------------
LEMMA FreshIsNew ==
  ASSUME Ids \cap {0, -1, -2, -3} = {}, NEW id \in Cases!FreshIds
  PROVE  /\ id \in Ids \ {0, -1, -2, -3} /\ \A i \in DOMAIN entries : entries[i].id # id
         /\ \A e \in edges : e.handle # id
BY DEF Cases!FreshIds

\* The entries change, the connections do not.
LEMMA SameConnections ==
  ASSUME CasesInv, UNCHANGED edges, made' \in Nat, Listed(entries', made'), ~list' => entries' = <<>>,
         \A e \in edges : Cases!Here(e) => Drawn(entries', e)
  PROVE  CasesInv'
BY DEF CasesInv, Cases!Here

LEMMA AddStep ==
  ASSUME Ids \cap {0, -1, -2, -3} = {}, CasesInv, Cases!Add PROVE CasesInv'
<1> PICK id \in Cases!FreshIds : entries' = Append(entries, Cases!Entry(made + 1, "case", id, Cases!NoRule))
  BY DEF Cases!Add
<1> DEFINE new == [who |-> made + 1, kind |-> "case", id |-> id, rule |-> 0]
           n == Len(entries)
<1>1. /\ entries \in Seq(EntrySet) /\ made \in Nat /\ list /\ made' = made + 1 /\ UNCHANGED <<list, edges>>
  BY DEF Cases!Add, CasesInv, Listed
<1>2. entries' = Append(entries, new) BY DEF Cases!Entry, Cases!NoRule
<1>3. id \in Ids \ {0, -1, -2, -3} /\ (\A i \in 1 .. Len(entries) : entries[i].id # id) /\ \A e \in edges : e.handle # id
  BY <1>1, FreshIsNew
<1>4. new \in EntrySet /\ new.who = made + 1 /\ new.id = id BY <1>1, <1>3 DEF EntrySet, RouteIds, Cases!Kinds
<1> HIDE DEF new
<1>5. /\ n \in Nat /\ Len(entries') = n + 1 /\ entries' \in Seq(EntrySet) /\ entries'[n + 1] = new
      /\ \A i \in 1 .. n : entries'[i] = entries[i] /\ entries[i] \in EntrySet
  BY <1>1, <1>2, <1>4
<1> HIDE DEF n
<1>6. 1 .. n + 1 = (1 .. n) \cup {n + 1} BY <1>5
<1>7. \A i \in 1 .. n : entries[i].who <= made /\ entries[i].who \in Nat
  BY <1>5 DEF CasesInv, Listed, n, EntrySet
<1>8. Listed(entries', made')
  <2>1. \A i \in 1 .. n + 1 : entries'[i].who <= made + 1 BY <1>1, <1>4, <1>5, <1>6, <1>7
  <2>2. \A i, j \in 1 .. n : entries[i].who = entries[j].who => i = j BY DEF CasesInv, Listed, n
  <2>3. \A i \in 1 .. n : entries[i].who # made + 1 BY <1>1, <1>7
  <2>4. \A i, j \in 1 .. n + 1 : entries'[i].who = entries'[j].who => i = j BY <1>4, <1>5, <1>6, <2>2, <2>3
  <2> QED BY <1>1, <1>5, <2>1, <2>4 DEF Listed
<1>9. ASSUME NEW e \in edges, Cases!Here(e) PROVE Drawn(entries', e)
  <2>1. Drawn(entries, e) /\ e.handle # id BY <1>3, <1>9 DEF CasesInv
  <2>2. Cases!Whos(entries) \subseteq Cases!Whos(entries') BY <1>1, <1>5, <1>6 DEF Cases!Whos, n
  <2>3. \A i \in 1 .. n : Owns(entries', i, e.handle) <=> Owns(entries, i, e.handle)
    BY <1>4, <1>5, <1>6, <2>1 DEF Owns, n
  <2>4. ~Owns(entries', n + 1, e.handle) BY <1>4, <1>5, <2>1 DEF Owns
  <2>5. e.of # new.who
    <3>1. Cases!Whos(entries) = {entries[i].who : i \in 1 .. n} BY <1>1 DEF Cases!Whos, n
    <3> QED BY <1>1, <1>4, <1>7, <2>1, <3>1 DEF Drawn
  <2> QED BY <1>5, <1>6, <2>1, <2>2, <2>3, <2>4, <2>5 DEF Drawn, n
<1> QED BY <1>1, <1>8, <1>9, SameConnections

LEMMA UpdateStep ==
  ASSUME CasesInv, NEW i \in DOMAIN entries, Cases!Update(i) PROVE CasesInv'
<1> PICK rule \in Rules : entries' = [entries EXCEPT ![i].rule = rule] BY DEF Cases!Update
<1> DEFINE old == entries[i]
           new == [who |-> old.who, kind |-> old.kind, id |-> old.id, rule |-> rule]
<1>1. /\ entries \in Seq(EntrySet) /\ made \in Nat /\ UNCHANGED <<list, edges, made>> /\ i \in 1 .. Len(entries)
  BY DEF Cases!Update, CasesInv, Listed
<1>2. old \in EntrySet BY <1>1
<1>3. new \in EntrySet /\ new.who = old.who /\ new.id = old.id /\ [old EXCEPT !.rule = rule] = new
  BY <1>2 DEF EntrySet
<1>4. entries' = [entries EXCEPT ![i] = new] BY <1>1, <1>3
<1> HIDE DEF new
<1>5. /\ Len(entries') = Len(entries) /\ entries' \in Seq(EntrySet)
      /\ \A j \in 1 .. Len(entries) : entries'[j].who = entries[j].who /\ entries'[j].id = entries[j].id
  BY <1>1, <1>3, <1>4
<1>6. Listed(entries', made') BY <1>1, <1>5 DEF CasesInv, Listed
<1>7. ASSUME NEW e \in edges, Cases!Here(e) PROVE Drawn(entries', e)
  <2>1. Drawn(entries, e) BY <1>7 DEF CasesInv
  <2>2. Cases!Whos(entries) = Cases!Whos(entries') BY <1>1, <1>5 DEF Cases!Whos
  <2>3. \A j \in 1 .. Len(entries) : Owns(entries', j, e.handle) <=> Owns(entries, j, e.handle)
    BY <1>5 DEF Owns
  <2> QED BY <1>5, <2>1, <2>2, <2>3 DEF Drawn
<1>8. ~list' => entries' = <<>> BY <1>1, <1>5 DEF CasesInv
<1> QED BY <1>1, <1>6, <1>7, <1>8, SameConnections

LEMMA MoveStep ==
  ASSUME CasesInv, NEW i \in DOMAIN entries, NEW to, Cases!Move(i, to) PROVE CasesInv'
<1> DEFINE At(j) == IF j = to THEN i ELSE IF j = i THEN to ELSE j
<1>1. /\ entries \in Seq(EntrySet) /\ made \in Nat /\ UNCHANGED <<list, edges, made>> /\ i \in 1 .. Len(entries)
      /\ to \in 1 .. Len(entries) /\ entries' = [entries EXCEPT ![i] = entries[to], ![to] = entries[i]]
  BY DEF Cases!Move, CasesInv, Listed
<1>2. \A j \in 1 .. Len(entries) : At(j) \in 1 .. Len(entries) /\ At(At(j)) = j BY <1>1
<1>3. /\ Len(entries') = Len(entries) /\ entries' \in Seq(EntrySet)
      /\ \A j \in 1 .. Len(entries) : entries'[j] = entries[At(j)]
  BY <1>1
<1> HIDE DEF At
<1>4. \A j, k \in 1 .. Len(entries) : At(j) = At(k) => j = k BY <1>2
<1>5. Listed(entries', made') BY <1>1, <1>2, <1>3, <1>4 DEF CasesInv, Listed
<1>6. ASSUME NEW e \in edges, Cases!Here(e) PROVE Drawn(entries', e)
  <2>1. Drawn(entries, e) BY <1>6 DEF CasesInv
  <2>2. Cases!Whos(entries) \subseteq Cases!Whos(entries')
    <3>1. \A j \in 1 .. Len(entries) : entries[j].who = entries'[At(j)].who BY <1>2, <1>3
    <3> QED BY <1>1, <1>2, <1>3, <3>1 DEF Cases!Whos
  <2>3. \A j \in 1 .. Len(entries) : Owns(entries', j, e.handle) <=> Owns(entries, At(j), e.handle)
    <3> SUFFICES ASSUME NEW j \in 1 .. Len(entries)
                 PROVE  Owns(entries', j, e.handle) <=> Owns(entries, At(j), e.handle)
      OBVIOUS
    <3>1. (\A k \in 1 .. Len(entries) : k # j => entries'[k].id # e.handle)
            <=> \A k \in 1 .. Len(entries) : k # At(j) => entries[k].id # e.handle
      BY <1>2, <1>3, <1>4
    <3> QED BY <1>2, <1>3, <3>1 DEF Owns
  <2>4. \A j \in 1 .. Len(entries) : entries'[j].who = entries[At(j)].who BY <1>3
  <2> QED BY <1>2, <1>3, <2>1, <2>2, <2>3, <2>4 DEF Drawn
<1>7. ~list' => entries' = <<>> BY <1>1, <1>3 DEF CasesInv
<1> QED BY <1>1, <1>5, <1>6, <1>7, SameConnections
\* What two entries share belongs to neither, so nobody drew it from a case.
LEMMA SharedIsNobodys ==
  ASSUME NEW es, NEW e, Drawn(es, e), NEW i \in 1 .. Len(es), NEW j \in 1 .. Len(es), i # j,
         es[i].id = e.handle, es[j].id = e.handle, e.handle # -1, DOMAIN es = 1 .. Len(es)
  PROVE  e.of = 0
BY DEF Drawn, Owns, Cases!Whos

\* A connection that is drawn now.
LEMMA DrawerDraws ==
  ASSUME Listed(entries, made), made \in Nat, NEW key, NEW h, h # 0
  PROVE  /\ Drawn(entries, Cases!Edge(key, "switch", h, Cases!Drawer(h)))
         /\ Cases!Drawer(h) \in Int
<1> DEFINE of == Cases!Drawer(h)
           e == Cases!Edge(key, "switch", h, of)
           at == {i \in DOMAIN entries : Cases!OwnedId(entries, i) = h /\ h # Cases!None}
<1>1. entries \in Seq(EntrySet) /\ DOMAIN entries = 1 .. Len(entries) BY DEF Listed
<1>2. e.handle = h /\ e.of = of BY DEF Cases!Edge
<1>3. at = {i \in 1 .. Len(entries) : Owns(entries, i, h)} BY <1>1, OwnedIdOwns DEF Cases!None
<1>4. \A i \in 1 .. Len(entries) : entries[i].who \in Nat \ {0}
  <2>1. \A i \in 1 .. Len(entries) : entries[i] \in EntrySet BY <1>1
  <2> QED BY <2>1 DEF EntrySet
<1>5. CASE h = -1
  <2>1. of = -1 BY <1>5 DEF Cases!Drawer, Cases!Default
  <2> QED BY <1>2, <1>4, <1>5, <2>1 DEF Drawn, Owns
<1>6. CASE h # -1 /\ at = {}
  <2>1. of = 0 BY <1>6 DEF Cases!Drawer, Cases!Default, Cases!Nobody
  <2> QED BY <1>2, <1>3, <1>4, <1>6, <2>1 DEF Drawn
<1>7. CASE h # -1 /\ at # {}
  <2> DEFINE i == CHOOSE i \in at : TRUE
  <2>1. i \in at BY <1>7
  <2>2. of = entries[i].who BY <1>7 DEF Cases!Drawer, Cases!Default
  <2> HIDE DEF i
  <2>3. i \in 1 .. Len(entries) /\ Owns(entries, i, h) BY <2>1, <1>3
  <2>4. of \in Cases!Whos(entries) BY <1>1, <2>2, <2>3 DEF Cases!Whos
  <2>5. \A j \in 1 .. Len(entries) : Owns(entries, j, h) => j = i BY <2>3 DEF Owns
  <2>6. \A j \in 1 .. Len(entries) : of = entries[j].who => j = i BY <2>2, <2>3 DEF Listed
  <2> QED BY <1>2, <1>4, <1>7, <2>2, <2>3, <2>4, <2>5, <2>6 DEF Drawn
<1> QED BY <1>5, <1>6, <1>7

LEMMA RepairStep ==
  ASSUME Ids \cap {0, -1, -2, -3} = {}, CasesInv, NEW i \in DOMAIN entries, Cases!Repair(i)
  PROVE  CasesInv'
<1> DEFINE owned == Cases!OwnedId(entries, i)
           old == entries[i]
<1> PICK id \in IF owned \in Ids THEN {owned} ELSE Cases!FreshIds :
      /\ entries' = [entries EXCEPT ![i] = Cases!Entry(@.who, "case", id, @.rule)]
      /\ edges' = Cases!Follows(owned, id)
  BY DEF Cases!Repair
<1> DEFINE new == [who |-> old.who, kind |-> "case", id |-> id, rule |-> old.rule]
           Moved(e) == IF Cases!Here(e) /\ owned # 0 /\ e.handle = owned THEN [e EXCEPT !.handle = id] ELSE e
<1>1. /\ entries \in Seq(EntrySet) /\ made \in Nat /\ UNCHANGED <<list, made>> /\ i \in 1 .. Len(entries)
      /\ edges \subseteq EdgeSet
  BY DEF Cases!Repair, CasesInv, Listed
<1>2. old \in EntrySet /\ id \in Ids \ {0, -1, -2, -3} BY <1>1, FreshIsNew
<1>3. new \in EntrySet /\ new.who = old.who /\ new.id = id BY <1>2 DEF EntrySet, RouteIds, Cases!Kinds
<1>4. entries' = [entries EXCEPT ![i] = new] BY <1>1 DEF Cases!Entry
<1>5. edges' = {Moved(e) : e \in edges} BY DEF Cases!Follows, Cases!None
<1>6. owned # 0 => \A h : h # 0 => (owned = h <=> Owns(entries, i, h)) BY <1>1, OwnedIdOwns
<1>7. \A h : h # 0 => (Owns(entries, i, h) <=> owned = h) BY <1>1, OwnedIdOwns
<1> HIDE DEF new, owned
<1>8. /\ Len(entries') = Len(entries) /\ entries' \in Seq(EntrySet) /\ entries'[i] = new
      /\ \A j \in 1 .. Len(entries) : entries'[j].who = entries[j].who /\ (j # i => entries'[j] = entries[j])
  BY <1>1, <1>3, <1>4
<1>9. Listed(entries', made') BY <1>1, <1>8 DEF CasesInv, Listed
<1>10. \A e \in edges : /\ Moved(e) \in EdgeSet /\ Moved(e).key = e.key /\ Moved(e).of = e.of /\ Moved(e).node = e.node
                        /\ Moved(e).handle = IF Cases!Here(e) /\ owned # 0 /\ e.handle = owned THEN id ELSE e.handle
  BY <1>1, <1>2 DEF EdgeSet, RouteIds
<1>11. Cases!Whos(entries') = Cases!Whos(entries) BY <1>1, <1>8 DEF Cases!Whos
<1>12. ASSUME NEW e \in edges, Cases!Here(e) PROVE Drawn(entries', Moved(e))
  <2> DEFINE h == e.handle
             m == Moved(e)
  <2>1. Drawn(entries, e) /\ h # 0 BY <1>12 DEF CasesInv, Drawn
  <2>2. m.of = e.of /\ m.handle = IF owned # 0 /\ h = owned THEN id ELSE h BY <1>10, <1>12
  <2> HIDE DEF m, Moved
  <2>3. ASSUME owned \in Ids PROVE Drawn(entries', m)
    <3>1. id = owned /\ owned \notin {0, -1, -2} BY <2>3, <1>2
    <3>2. Owns(entries, i, owned) BY <3>1, <1>7
    <3>3. \A j \in 1 .. Len(entries) : entries'[j].id = entries[j].id BY <1>3, <1>8, <3>1, <3>2 DEF Owns
    <3>4. m.handle = h BY <2>2, <3>1
    <3>5. \A j \in 1 .. Len(entries) : Owns(entries', j, h) <=> Owns(entries, j, h) BY <1>8, <3>3 DEF Owns
    <3> QED BY <1>8, <1>11, <2>1, <2>2, <3>4, <3>5 DEF Drawn
  <2>4. ASSUME owned \notin Ids PROVE Drawn(entries', m)
    <3>1. (\A j \in 1 .. Len(entries) : entries[j].id # id) /\ h # id BY <1>1, <2>4, FreshIsNew
    <3>2. Owns(entries', i, id) /\ \A j \in 1 .. Len(entries) : j # i => ~Owns(entries', j, id)
      BY <1>2, <1>3, <1>8, <3>1 DEF Owns
    <3>3. CASE owned # 0 /\ h = owned
      <4>1. Owns(entries, i, h) BY <3>3, <1>7
      <4>2. e.of \in {0, old.who} /\ h # -1 BY <4>1, <2>1, <1>1 DEF Drawn, Owns
      <4>3. e.of # -1 /\ id # -1 BY <2>1, <4>2, <1>2 DEF Drawn
      <4>4. \A j \in 1 .. Len(entries) : e.of = entries[j].who => j = i
        BY <2>1, <4>1, <1>1 DEF Drawn, Owns
      <4> QED BY <1>2, <1>8, <1>11, <2>1, <2>2, <3>2, <3>3, <4>2, <4>3, <4>4 DEF Drawn
    <3>4. CASE ~(owned # 0 /\ h = owned)
      <4>1. ~Owns(entries, i, h) /\ ~Owns(entries', i, h) BY <3>1, <3>4, <2>1, <1>3, <1>7, <1>8 DEF Owns
      <4>2. \A j \in 1 .. Len(entries) : Owns(entries, j, h) => Owns(entries', j, h)
        BY <1>1, <1>3, <1>8, <3>1, <4>1 DEF Owns
      <4>3. ASSUME NEW j \in 1 .. Len(entries), Owns(entries', j, h) PROVE e.of \in {0, entries[j].who}
        <5>1. j # i /\ entries[j].id = h /\ h # -1 BY <4>1, <4>3, <1>8 DEF Owns
        <5>2. CASE Owns(entries, j, h) BY <5>2, <2>1 DEF Drawn
        <5>3. CASE ~Owns(entries, j, h)
          <6>1. entries[i].id = h BY <5>1, <5>3, <4>3, <1>8 DEF Owns
          <6> QED BY <6>1, <5>1, <2>1, <1>1, SharedIsNobodys
        <5> QED BY <5>2, <5>3
      <4> QED BY <1>8, <1>11, <2>1, <2>2, <3>4, <4>2, <4>3 DEF Drawn
    <3> QED BY <3>3, <3>4
  <2> QED BY <2>3, <2>4 DEF m
<1>13. \A x \in edges' : Cases!Here(x) => Drawn(entries', x)
  BY <1>5, <1>10, <1>12 DEF Cases!Here
<1>14. edges' \subseteq EdgeSet /\ \A x, y \in edges' : x.key = y.key => x = y
  <2>1. \A x, y \in edges : x.key = y.key => x = y BY DEF CasesInv
  <2>2. \A x \in edges : Moved(x) \in EdgeSet /\ Moved(x).key = x.key BY <1>10
  <2> HIDE DEF Moved
  <2> QED BY <1>5, <2>1, <2>2
<1>15. ~list' => entries' = <<>> BY <1>1, <1>8 DEF CasesInv
<1> QED BY <1>1, <1>9, <1>13, <1>14, <1>15 DEF CasesInv, Cases!Here

LEMMA RemoveOne ==
  ASSUME NEW S, NEW es \in Seq(S), NEW i \in 1 .. Len(es)
  PROVE  /\ Cases!RemoveAt(es, i) \in Seq(S) /\ Len(Cases!RemoveAt(es, i)) = Len(es) - 1
         /\ \A j \in 1 .. Len(es) - 1 : Cases!RemoveAt(es, i)[j] = es[IF j < i THEN j ELSE j + 1]
<1> DEFINE n == Len(es)
           s == SubSeq(es, 1, i - 1)
           t == SubSeq(es, i + 1, n)
<1>1. s \in Seq(S) /\ Len(s) = i - 1 /\ \A j \in 1 .. i - 1 : s[j] = es[j] OBVIOUS
<1>2. t \in Seq(S) /\ Len(t) = n - i /\ \A j \in 1 .. n - i : t[j] = es[i + j] OBVIOUS
<1>3. Cases!RemoveAt(es, i) = s \o t BY DEF Cases!RemoveAt
<1>4. n \in Nat /\ i \in 1 .. n OBVIOUS
<1> HIDE DEF s, t, n
<1>5. /\ s \o t \in Seq(S) /\ Len(s \o t) = n - 1
      /\ \A j \in 1 .. n - 1 : (s \o t)[j] = IF j <= i - 1 THEN s[j] ELSE t[j - (i - 1)]
  <2>1. Len(s) + Len(t) = n - 1 BY <1>1, <1>2, <1>4
  <2>2. /\ s \o t \in Seq(S) /\ Len(s \o t) = Len(s) + Len(t)
        /\ \A j \in 1 .. Len(s) + Len(t) : (s \o t)[j] = IF j <= Len(s) THEN s[j] ELSE t[j - Len(s)]
    BY <1>1, <1>2, ConcatProperties
  <2> QED BY <1>1, <2>1, <2>2
<1>6. ASSUME NEW j \in 1 .. n - 1 PROVE (s \o t)[j] = es[IF j < i THEN j ELSE j + 1]
  <2>1. CASE j < i
    <3>1. j \in 1 .. i - 1 /\ j <= i - 1 BY <2>1, <1>4
    <3> QED BY <2>1, <3>1, <1>1, <1>5
  <2>2. CASE ~(j < i)
    <3>1. j - (i - 1) \in 1 .. n - i /\ i + (j - (i - 1)) = j + 1 /\ ~(j <= i - 1) BY <2>2, <1>4
    <3>2. (s \o t)[j] = t[j - (i - 1)] BY <3>1, <1>5
    <3>3. t[j - (i - 1)] = es[i + (j - (i - 1))] BY <3>1, <1>2
    <3> QED BY <2>2, <3>1, <3>2, <3>3
  <2> QED BY <2>1, <2>2
<1> QED BY <1>3, <1>5, <1>6 DEF n

LEMMA DropStep ==
  ASSUME CasesInv, NEW i \in DOMAIN entries, Cases!Drop(i) PROVE CasesInv'
<1> DEFINE At(j) == IF j < i THEN j ELSE j + 1
           n == Len(entries)
<1>1. /\ entries \in Seq(EntrySet) /\ made \in Nat /\ UNCHANGED <<list, made>> /\ i \in 1 .. n /\ n \in Nat /\ n > 1
      /\ entries' = Cases!RemoveAt(entries, i) /\ edges' = edges \ Cases!Connections(i)
  BY DEF Cases!Drop, CasesInv, Listed
<1>2. /\ Len(entries') = n - 1 /\ entries' \in Seq(EntrySet)
      /\ \A j \in 1 .. n - 1 : entries'[j] = entries[At(j)]
  BY <1>1, RemoveOne
<1>3. /\ \A j \in 1 .. n - 1 : At(j) \in 1 .. n /\ At(j) # i
      /\ \A j, k \in 1 .. n - 1 : At(j) = At(k) => j = k
      /\ \A j \in 1 .. n : j # i => \E k \in 1 .. n - 1 : At(k) = j
  <2>1. ASSUME NEW j \in 1 .. n, j # i PROVE \E k \in 1 .. n - 1 : At(k) = j
    <3>1. CASE j < i BY <1>1, <2>1, <3>1
    <3>2. CASE j > i
      <4>1. j - 1 \in 1 .. n - 1 /\ At(j - 1) = j BY <1>1, <2>1, <3>2
      <4> QED BY <4>1
    <3> QED BY <1>1, <2>1, <3>1, <3>2
  <2> QED BY <1>1, <2>1
<1> HIDE DEF At, n
<1>4. Listed(entries', made')
  <2>1. /\ \A j \in 1 .. n : entries[j].who <= made
        /\ \A j, k \in 1 .. n : entries[j].who = entries[k].who => j = k
    BY DEF CasesInv, Listed, n
  <2>2. \A j \in 1 .. n - 1 : entries'[j].who = entries[At(j)].who /\ At(j) \in 1 .. n BY <1>2, <1>3
  <2>3. \A j, k \in 1 .. n - 1 : entries'[j].who = entries'[k].who => j = k BY <1>3, <2>1, <2>2
  <2> QED BY <1>1, <1>2, <2>1, <2>2, <2>3 DEF Listed
<1>5. ASSUME NEW e \in edges', Cases!Here(e) PROVE Drawn(entries', e)
  <2> DEFINE h == e.handle
  <2>1. Drawn(entries, e) /\ h # 0 /\ e \in edges BY <1>1, <1>5 DEF CasesInv, Drawn
  <2>2. ~Owns(entries, i, h)
    <3>1. Cases!OwnedId(entries, i) # h BY <1>1, <1>5 DEF Cases!Connections
    <3> QED BY <1>1, <2>1, <3>1, OwnedIdOwns DEF n
  <2>3. e.of # entries[i].who BY <1>1, <2>1, <2>2 DEF Drawn, n
  <2>4. e.of \in {0, -1} \cup Cases!Whos(entries')
    <3> DOMAIN entries' = 1 .. n - 1 /\ DOMAIN entries = 1 .. n BY <1>1, <1>2 DEF n
    <3>1. Cases!Whos(entries') = {entries[At(j)].who : j \in 1 .. n - 1} BY <1>2 DEF Cases!Whos
    <3>2. Cases!Whos(entries) = {entries[j].who : j \in 1 .. n} BY DEF Cases!Whos
    <3> QED BY <1>3, <2>1, <2>3, <3>1, <3>2 DEF Drawn
  <2>5. ASSUME NEW j \in 1 .. n - 1, Owns(entries, At(j), h) PROVE Owns(entries', j, h)
    <3>1. h \notin {-1, -2, 0} /\ entries[At(j)].id = h /\ \A k \in 1 .. n : k # At(j) => entries[k].id # h
      BY <2>5 DEF Owns, n
    <3>2. \A k \in 1 .. n - 1 : k # j => entries'[k].id # h BY <3>1, <1>2, <1>3
    <3> QED BY <3>1, <3>2, <1>2 DEF Owns
  <2>6. ASSUME NEW j \in 1 .. n - 1, Owns(entries', j, h) PROVE e.of \in {0, entries[At(j)].who}
    <3>1. entries[At(j)].id = h /\ h # -1 /\ At(j) \in 1 .. n /\ At(j) # i BY <1>2, <1>3, <2>6 DEF Owns
    <3>2. CASE Owns(entries, At(j), h) BY <3>1, <3>2, <2>1 DEF Drawn, n
    <3>3. CASE ~Owns(entries, At(j), h)
      <4>1. PICK k \in 1 .. n : k # At(j) /\ entries[k].id = h BY <3>1, <3>3, <2>1, <2>6 DEF Owns, n
      <4> QED BY <3>1, <4>1, <2>1, <1>1, SharedIsNobodys DEF n
    <3> QED BY <3>2, <3>3
  <2>7. \A j \in 1 .. n - 1 : e.of = entries'[j].who => Owns(entries', j, h)
    BY <1>2, <1>3, <2>1, <2>5 DEF Drawn, n
  <2> QED BY <1>2, <2>1, <2>4, <2>6, <2>7 DEF Drawn
<1>6. list BY <1>1 DEF CasesInv, n
<1> QED BY <1>1, <1>4, <1>5, <1>6 DEF CasesInv, Cases!Here

LEMMA ResetStep ==
  ASSUME Ids \cap {0, -1, -2, -3} = {}, CasesInv, Cases!Reset PROVE CasesInv'
<1> PICK id \in Cases!FreshIds : entries' = <<Cases!Entry(made + 1, "case", id, Cases!NoRule)>>
  BY DEF Cases!Reset
<1> DEFINE new == [who |-> made + 1, kind |-> "case", id |-> id, rule |-> 0]
<1>1. made \in Nat /\ made' = made + 1 /\ list' = TRUE /\ edges' = {e \in edges : ~Cases!Here(e) \/ e.handle = -1}
  BY DEF Cases!Reset, CasesInv, Cases!Default
<1>2. entries' = <<new>> BY DEF Cases!Entry, Cases!NoRule
<1>3. new \in EntrySet /\ new.who = made + 1 BY <1>1, FreshIsNew DEF EntrySet, RouteIds, Cases!Kinds
<1> HIDE DEF new
<1>4. entries' \in Seq(EntrySet) /\ Len(entries') = 1 /\ entries'[1] = new BY <1>2, <1>3
<1>5. Listed(entries', made') BY <1>1, <1>3, <1>4 DEF Listed
<1>6. ASSUME NEW e \in edges', Cases!Here(e) PROVE Drawn(entries', e)
  <2>1. e \in edges /\ e.handle = -1 BY <1>1, <1>6
  <2>2. e.of = -1 BY <1>6, <2>1 DEF CasesInv, Drawn
  <2> QED BY <1>1, <1>3, <1>4, <2>1, <2>2 DEF Drawn, Owns
<1> QED BY <1>1, <1>5, <1>6 DEF CasesInv, Cases!Here

LEMMA ConnectStep ==
  ASSUME MaxEdges \in Nat, Ids \cap {0, -1, -2, -3} = {}, CasesInv, Cases!Connect PROVE CasesInv'
<1> PICK h \in Cases!Routes, key \in 1 .. MaxEdges :
      /\ \A e \in edges : e.key # key
      /\ edges' = edges \cup {Cases!Edge(key, "switch", h, Cases!Drawer(h))}
  BY DEF Cases!Connect
<1> DEFINE new == Cases!Edge(key, "switch", h, Cases!Drawer(h))
<1>1. UNCHANGED <<list, entries, made>> BY DEF Cases!Connect
<1>2. h \in (Ids \cup {-1}) /\ h # 0 BY DEF Cases!Routes, Cases!Default
<1>3. Drawn(entries, new) /\ Cases!Drawer(h) \in Int BY <1>2, DrawerDraws DEF CasesInv
<1>4. new \in EdgeSet /\ new.key = key BY <1>2, <1>3 DEF Cases!Edge, EdgeSet, RouteIds
<1> HIDE DEF new
<1>5. edges' = edges \cup {new} BY DEF new
<1> QED BY <1>1, <1>3, <1>4, <1>5 DEF CasesInv, Cases!Here

LEMMA CasesStart == RoutesApart /\ Cases!Init => CasesInv
<1> SUFFICES ASSUME MaxEdges \in Nat, Cases!Init PROVE CasesInv
  BY DEF RoutesApart
<1>1. made = Len(entries) /\ (~list => entries = <<>>) BY DEF Cases!Init
<1>2. PICK n \in 0 .. 2 : /\ entries \in [1 .. n -> [who : 1 .. n, kind : Cases!Kinds, id : Ids \cup Cases!Reserved \cup {Cases!None, Cases!BadId}, rule : Rules \cup {Cases!NoRule}]]
                          /\ \A i \in 1 .. n : entries[i].who = i
  BY DEF Cases!Init, Cases!Drafts
<1>3. entries \in Seq(EntrySet) /\ Len(entries) = n
  <2>1. \A i \in 1 .. n : entries[i] \in EntrySet
    BY <1>2 DEF EntrySet, RouteIds, Cases!Reserved, Cases!None, Cases!BadId, Cases!Default, Cases!NoRule
  <2> QED BY <1>2, <2>1
<1>4. Listed(entries, made) /\ made \in Nat BY <1>1, <1>2, <1>3 DEF Listed
<1>5. PICK handles \in [1 .. MaxEdges -> {1, -1, -3, 0}] :
        edges = {Cases!Edge(0, "another", 1, 0)} \cup
          {Cases!Edge(k, "switch", handles[k], Cases!Drawer(handles[k])) : k \in {x \in 1 .. MaxEdges : handles[x] # 0}}
  BY DEF Cases!Init, Cases!Default, Cases!BadId, Cases!None, Cases!Nobody
<1> DEFINE First == Cases!Edge(0, "another", 1, 0)
           At(k) == Cases!Edge(k, "switch", handles[k], Cases!Drawer(handles[k]))
<1>6. First \in EdgeSet /\ First.key = 0 /\ ~Cases!Here(First)
  BY DEF Cases!Edge, EdgeSet, Cases!Here
<1>7. \A k \in 1 .. MaxEdges : handles[k] # 0 => At(k) \in EdgeSet /\ At(k).key = k /\ k # 0 /\ Drawn(entries, At(k))
  <2> SUFFICES ASSUME NEW k \in 1 .. MaxEdges, handles[k] # 0
               PROVE  At(k) \in EdgeSet /\ At(k).key = k /\ k # 0 /\ Drawn(entries, At(k))
    OBVIOUS
  <2>1. Drawn(entries, At(k)) /\ Cases!Drawer(handles[k]) \in Int BY <1>4, DrawerDraws
  <2> QED BY <2>1 DEF Cases!Edge, EdgeSet, RouteIds
<1> HIDE DEF At, First
<1>8. edges = {First} \cup {At(k) : k \in {x \in 1 .. MaxEdges : handles[x] # 0}} BY <1>5 DEF At, First
<1> QED BY <1>1, <1>4, <1>6, <1>7, <1>8 DEF CasesInv

LEMMA CasesStep ==
  RoutesApart /\ CasesInv /\ [Cases!Next]_(Cases!vars) => CasesInv'
<1> SUFFICES ASSUME RoutesApart, CasesInv, [Cases!Next]_(Cases!vars)
             PROVE  CasesInv'
  OBVIOUS
<1>1. CASE Cases!Disconnect
  <2>1. UNCHANGED <<list, entries, made>> /\ edges' \subseteq edges BY <1>1 DEF Cases!Disconnect
  <2> QED BY <2>1 DEF CasesInv, Cases!Here
<1>2. CASE UNCHANGED Cases!vars BY <1>2 DEF Cases!vars, CasesInv, Cases!Here
<1> QED BY <1>1, <1>2, AddStep, UpdateStep, MoveStep, RepairStep, DropStep, ResetStep, ConnectStep DEF Cases!Next, RoutesApart

\* The three parts of NothingDropped, as of a step.
Gone == {e \in edges : \A x \in edges' : x.key # e.key}
GoneByRight ==
  \A e \in Gone :
    /\ Cases!Here(e)
    /\ \/ entries' = entries /\ Gone = {e}
       \/ ~list /\ e.of # Cases!Default
       \/ e.of \notin Cases!Whos(entries') \cup {Cases!Nobody, Cases!Default}
       \/ e.of = Cases!Nobody /\ \E i \in DOMAIN entries :
            Cases!OwnedId(entries, i) = e.handle /\ entries[i].who \notin Cases!Whos(entries')
OthersKept == \A e \in edges : ~Cases!Here(e) => e \in edges'
RulesKept ==
  \A i \in DOMAIN entries, j \in DOMAIN entries' :
    entries[i].who = entries'[j].who /\ entries[i].rule # entries'[j].rule => Cases!Editable(entries, i)

LEMMA ConnectionsKept ==
  ASSUME CasesInv, Cases!Next PROVE GoneByRight /\ OthersKept
<1>1. ASSUME edges \subseteq edges' PROVE GoneByRight /\ OthersKept
  BY <1>1 DEF GoneByRight, OthersKept, Gone
<1>2. CASE Cases!Add \/ \E i \in DOMAIN entries : Cases!Update(i) \/ Cases!Move(i, i - 1) \/ Cases!Move(i, i + 1)
  BY <1>1, <1>2 DEF Cases!Add, Cases!Update, Cases!Move
<1>3. CASE Cases!Connect
  BY <1>1, <1>3 DEF Cases!Connect
<1>4. CASE Cases!Disconnect
  <2>1. PICK e \in edges : Cases!Here(e) /\ edges' = edges \ {e} /\ entries' = entries
    BY <1>4 DEF Cases!Disconnect
  <2>2. Gone = {e} BY <2>1 DEF Gone, CasesInv
  <2> QED BY <2>1, <2>2 DEF GoneByRight, OthersKept
<1>5. CASE Cases!Reset
  <2>1. ~list /\ edges' = {e \in edges : ~Cases!Here(e) \/ e.handle = -1}
    BY <1>5 DEF Cases!Reset, Cases!Default
  <2>2. ASSUME NEW e \in Gone PROVE Cases!Here(e) /\ e.of # -1
    <3>1. e \in edges /\ e \notin edges' BY <2>2 DEF Gone
    <3> QED BY <2>1, <3>1 DEF CasesInv, Drawn
  <2> QED BY <2>1, <2>2 DEF GoneByRight, OthersKept, Cases!Default
<1>6. ASSUME NEW i \in DOMAIN entries, Cases!Repair(i) PROVE GoneByRight /\ OthersKept
  <2> DEFINE owned == Cases!OwnedId(entries, i)
             Moved(e, id) == IF Cases!Here(e) /\ owned # 0 /\ e.handle = owned THEN [e EXCEPT !.handle = id] ELSE e
  <2>1. PICK id : edges' = {Moved(e, id) : e \in edges}
    BY <1>6 DEF Cases!Repair, Cases!Follows, Cases!None
  <2>2. \A e \in edges : Moved(e, id).key = e.key /\ (~Cases!Here(e) => Moved(e, id) = e)
    BY DEF CasesInv, EdgeSet
  <2> HIDE DEF Moved
  <2>3. Gone = {} BY <2>1, <2>2 DEF Gone
  <2> QED BY <2>1, <2>2, <2>3 DEF GoneByRight, OthersKept
<1>7. ASSUME NEW i \in DOMAIN entries, Cases!Drop(i) PROVE GoneByRight /\ OthersKept
  <2>1. /\ entries \in Seq(EntrySet) /\ i \in 1 .. Len(entries) /\ Listed(entries, made)
        /\ entries' = Cases!RemoveAt(entries, i) /\ edges' = edges \ Cases!Connections(i)
    BY <1>7 DEF Cases!Drop, CasesInv, Listed
  <2>2. entries[i].who \notin Cases!Whos(entries')
    <3>1. /\ entries' \in Seq(EntrySet) /\ Len(entries') = Len(entries) - 1
          /\ \A j \in 1 .. Len(entries) - 1 : entries'[j] = entries[IF j < i THEN j ELSE j + 1]
      BY <2>1, RemoveOne
    <3>3. DOMAIN entries' = 1 .. Len(entries) - 1 BY <3>1
    <3>2. \A j \in 1 .. Len(entries) - 1 :
            (IF j < i THEN j ELSE j + 1) \in 1 .. Len(entries) /\ (IF j < i THEN j ELSE j + 1) # i
      BY <2>1
    <3>4. \A j \in 1 .. Len(entries) - 1 : entries'[j].who # entries[i].who BY <2>1, <3>1, <3>2 DEF Listed
    <3> QED BY <3>3, <3>4 DEF Cases!Whos
  <2>3. entries[i] \in EntrySet BY <2>1
  <2>4. entries[i].who \notin {0, -1} BY <2>3 DEF EntrySet
  <2>5. ASSUME NEW e \in Gone
        PROVE  /\ Cases!Here(e) /\ Cases!OwnedId(entries, i) = e.handle
               /\ e.of = 0 \/ e.of \notin Cases!Whos(entries') \cup {0, -1}
    <3>1. e \in edges /\ Cases!Here(e) /\ e.handle = Cases!OwnedId(entries, i)
      BY <2>1, <2>5 DEF Gone, Cases!Connections
    <3>2. Drawn(entries, e) /\ e.handle # 0 BY <3>1 DEF CasesInv, Drawn
    <3>3. Owns(entries, i, e.handle) BY <2>1, <3>1, <3>2, OwnedIdOwns
    <3>4. e.of \in {0, entries[i].who} BY <2>1, <3>2, <3>3 DEF Drawn
    <3> QED BY <2>2, <2>4, <3>1, <3>4
  <2> QED BY <2>1, <2>2, <2>5 DEF GoneByRight, OthersKept, Cases!Connections, Cases!Nobody, Cases!Default
<1> QED BY <1>2, <1>3, <1>4, <1>5, <1>6, <1>7 DEF Cases!Next

LEMMA RulesStay ==
  ASSUME CasesInv, Cases!Next PROVE RulesKept
<1> SUFFICES ASSUME NEW i \in DOMAIN entries, NEW j \in DOMAIN entries', entries[i].who = entries'[j].who,
                    entries[i].rule # entries'[j].rule
             PROVE  Cases!Editable(entries, i)
  BY DEF RulesKept
<1>1. /\ entries \in Seq(EntrySet) /\ made \in Nat /\ DOMAIN entries = 1 .. Len(entries)
      /\ \A x, y \in 1 .. Len(entries) : entries[x].who = entries[y].who => x = y
      /\ \A x \in 1 .. Len(entries) : entries[x].who <= made /\ entries[x] \in EntrySet
  BY DEF CasesInv, Listed
<1>2. \A k \in 1 .. Len(entries) : entries'[j] # entries[k]
  BY <1>1
<1>3. entries[i].who \in Nat /\ entries[i].who # made + 1
  BY <1>1 DEF EntrySet
<1>4. ~(Cases!Connect \/ Cases!Disconnect)
  BY <1>1, <1>2 DEF Cases!Connect, Cases!Disconnect
<1>5. ~Cases!Add
  <2> SUFFICES ASSUME NEW new, entries' = Append(entries, new), new.who = made + 1 PROVE FALSE
    BY <1>1 DEF Cases!Add, Cases!Entry
  <2>1. CASE j \in 1 .. Len(entries) BY <2>1, <1>1, <1>2
  <2>2. CASE j = Len(entries) + 1 BY <2>2, <1>1, <1>3
  <2> QED BY <1>1, <2>1, <2>2
<1>6. ~Cases!Reset
  <2> SUFFICES ASSUME NEW new, entries' = <<new>>, new.who = made + 1 PROVE FALSE
    BY <1>1 DEF Cases!Reset, Cases!Entry
  <2> QED BY <1>3
<1>7. ASSUME NEW k \in DOMAIN entries, Cases!Move(k, k - 1) \/ Cases!Move(k, k + 1) PROVE FALSE
  BY <1>1, <1>2, <1>7 DEF Cases!Move
<1>8. ASSUME NEW k \in DOMAIN entries, Cases!Drop(k) PROVE FALSE
  <2>1. entries' = Cases!RemoveAt(entries, k) BY <1>8 DEF Cases!Drop
  <2>2. j \in 1 .. Len(entries) - 1 /\ entries'[j] = entries[IF j < k THEN j ELSE j + 1]
    <3>1. /\ entries' \in Seq(EntrySet) /\ Len(entries') = Len(entries) - 1
          /\ \A x \in 1 .. Len(entries) - 1 : entries'[x] = entries[IF x < k THEN x ELSE x + 1]
      <4>1. k \in 1 .. Len(entries) BY <1>1
      <4> QED BY <1>1, <2>1, <4>1, RemoveOne
    <3>2. DOMAIN entries' = 1 .. Len(entries) - 1 BY <3>1
    <3> QED BY <3>1, <3>2
  <2> QED BY <1>1, <1>2, <2>2
<1>9. ASSUME NEW k \in DOMAIN entries, Cases!Repair(k) PROVE FALSE
  <2> SUFFICES ASSUME NEW id, entries' = [entries EXCEPT ![k] = Cases!Entry(@.who, "case", id, @.rule)] PROVE FALSE
    BY <1>9 DEF Cases!Repair
  <2>1. CASE j # k BY <2>1, <1>1, <1>2
  <2>2. CASE j = k
    <3>1. entries'[j].who = entries[k].who /\ entries'[j].rule = entries[k].rule BY <2>2, <1>1 DEF Cases!Entry
    <3> QED BY <1>1, <3>1
  <2> QED BY <2>1, <2>2
<1>10. ASSUME NEW k \in DOMAIN entries, Cases!Update(k) PROVE Cases!Editable(entries, i)
  <2> SUFFICES ASSUME NEW rule, entries' = [entries EXCEPT ![k].rule = rule], Cases!Editable(entries, k)
               PROVE  Cases!Editable(entries, i)
    BY <1>10 DEF Cases!Update
  <2>1. j = k BY <1>1, <1>2
  <2>2. entries'[j].who = entries[k].who
    <3>1. entries[k] \in EntrySet BY <1>1
    <3> QED BY <1>1, <2>1, <3>1 DEF EntrySet
  <2> QED BY <1>1, <2>2
<1> QED BY <1>4, <1>5, <1>6, <1>7, <1>8, <1>9, <1>10 DEF Cases!Next

\* The invariant says what is to be shown of the connections that are there.
LEMMA CasesHold == CasesInv => Cases!RoutesKept
<1> SUFFICES ASSUME CasesInv, NEW e \in edges, Cases!Here(e), NEW i \in DOMAIN entries
             PROVE  /\ e.of = -1 <=> e.handle = -1
                    /\ Cases!OwnedId(entries, i) = e.handle => e.of \in {0, entries[i].who}
                    /\ e.of = entries[i].who => e.handle = entries[i].id
  BY DEF Cases!RoutesKept, Cases!Default, Cases!Nobody, CasesInv, Drawn
<1>1. entries \in Seq(EntrySet) /\ i \in 1 .. Len(entries) /\ Drawn(entries, e) BY DEF CasesInv, Listed
<1>2. e.handle # 0 BY <1>1 DEF Drawn
<1>3. Cases!OwnedId(entries, i) = e.handle <=> Owns(entries, i, e.handle) BY <1>1, <1>2, OwnedIdOwns
<1> QED BY <1>1, <1>3 DEF Drawn, Owns

\* No step takes a connection away but with its case.
LEMMA CasesKeep == CasesInv /\ [Cases!Next]_(Cases!vars) => [Cases!NothingDropped]_(Cases!vars)
<1> SUFFICES ASSUME CasesInv, Cases!Next PROVE Cases!NothingDropped
  OBVIOUS
<1> QED BY ConnectionsKept, RulesStay DEF GoneByRight, OthersKept, RulesKept, Gone, Cases!NothingDropped

\* A connection of a Switch starts at the case it was drawn from through every
\* rename, move and repair, and none goes but with its own case, by itself, or
\* because the cases were no list (lib/switch.ts).
THEOREM ConnectionsMeanCases ==
  /\ RoutesApart /\ Cases!Spec => []Cases!RoutesKept
  /\ RoutesApart /\ Cases!Spec => [][Cases!NothingDropped]_(Cases!vars)
<1>1. CASE RoutesApart
  <2>1. Cases!Init => CasesInv BY <1>1, CasesStart
  <2>2. CasesInv /\ [Cases!Next]_(Cases!vars) => CasesInv' BY <1>1, CasesStep
  <2> QED BY CasesHold, CasesKeep, <2>1, <2>2, PTL DEF Cases!Spec
<1> QED BY <1>1

-----------------------------------------------------------------------------
(***************************************************************************)
(* Accounts: who comes in, by which session, and for how long.             *)
(***************************************************************************)
CONSTANTS Browsers, Emails, MaxInvites, LastTime, Lifetime, MaxSessions
VARIABLES mode, accounts, bootstrap, invites, sessions, tokens, cookie, calls, stream, orderly
Door == INSTANCE Accounts WITH Clock <- LastTime, MaxTokens <- MaxSessions

Addressed == Emails \cup {"", "a"}
Admitted == [email : Addressed, mode : Door!Modes \cup {"old"}, invite : Int]
Invitations == [email : Addressed, expires : Int, used : BOOLEAN]
Calling == [browser : Browsers, kind : {"login", "register", "logout"}, email : Addressed, invite : Int, carried : Int, answer : Int]

SessionsTyped ==
  /\ now \in Int /\ tokens \in Nat /\ calls \subseteq Calling
  /\ DOMAIN sessions \subseteq 1 .. tokens
  /\ \A t \in DOMAIN sessions : sessions[t].expires \in Int

\* A browser's requests come one at a time and carry its cookie.
OneByOne ==
  /\ cookie \in [Browsers -> 0 .. tokens] /\ orderly \subseteq Browsers
  /\ \A x \in calls : x.carried = cookie[x.browser] /\ x.answer \in -2 .. tokens
  /\ \A x, y \in calls : x.browser = y.browser => x = y

\* An orderly browser's only session is the one that its cookie is, or will be
\* once its answer has come.
HeldBy(x) == IF x.answer < 0 THEN cookie[x.browser] ELSE x.answer
OnlySession ==
  \A b \in orderly, t \in DOMAIN sessions : sessions[t].browser = b /\ Door!Valid(t) =>
    /\ Door!Of(b) = {} => t = cookie[b]
    /\ \A x \in Door!Of(b) : t = HeldBy(x)

\* A batch sent too late is the last one.
LastBatch ==
  /\ stream \in [Browsers -> [token : 0 .. tokens, checked : BOOLEAN, late : {0, 1}]]
  /\ \A b \in Browsers : stream[b].late = 1 => ~stream[b].checked /\ ~Door!Valid(stream[b].token)

SessionInv == SessionsTyped /\ OneByOne /\ OnlySession /\ LastBatch

\* A session that ended, ended for good.
Revoking ==
  /\ now' \in Int /\ now' >= now /\ tokens' \in Nat /\ tokens' >= tokens
  /\ \A t \in 0 .. tokens : t \in DOMAIN sessions' => t \in DOMAIN sessions /\ sessions'[t] = sessions[t]

LEMMA EndedForGood ==
  ASSUME SessionsTyped, Revoking
  PROVE  \A t \in 0 .. tokens : Door!Valid(t)' => Door!Valid(t)
BY DEF SessionsTyped, Revoking, Door!Valid

LEMMA StreamsLast ==
  ASSUME SessionInv, Revoking, stream' = stream
  PROVE  LastBatch'
<1>1. \A t \in 0 .. tokens : Door!Valid(t)' => Door!Valid(t)
  BY EndedForGood DEF SessionInv
<1>2. 0 .. tokens \subseteq 0 .. tokens'
  BY DEF Revoking, SessionInv, SessionsTyped
<1> HIDE DEF Revoking
<1>3. stream' \in [Browsers -> [token : 0 .. tokens', checked : BOOLEAN, late : {0, 1}]]
  BY <1>2 DEF SessionInv, LastBatch
<1>4. \A b \in Browsers : stream[b].token \in 0 .. tokens
  BY DEF SessionInv, LastBatch
<1> QED BY <1>1, <1>3, <1>4 DEF SessionInv, LastBatch

\* A request that is answered: with a new session, with none, or not at all.
LEMMA AnswerTyped ==
  ASSUME SessionInv, NEW call \in calls, NEW answer \in Int, Door!Answered(call, answer),
         answer \in -2 .. tokens', tokens' \in Nat, tokens' >= tokens
  PROVE  /\ calls' \subseteq Calling /\ OneByOne'
         /\ \A b : b # call.browser => Door!Of(b)' = Door!Of(b)
         /\ Door!Of(call.browser)' = {[call EXCEPT !.answer = answer]}
<1> DEFINE new == [call EXCEPT !.answer = answer]
<1>1. calls' = (calls \ {call}) \cup {new} /\ cookie' = cookie /\ orderly' = orderly
  BY DEF Door!Answered
<1>2. new \in Calling /\ new.browser = call.browser /\ new.answer = answer /\ new.carried = call.carried
  BY DEF SessionInv, SessionsTyped, Calling
<1>3. cookie' \in [Browsers -> 0 .. tokens']
  <2>1. 0 .. tokens \subseteq 0 .. tokens' BY DEF SessionInv, SessionsTyped
  <2> QED BY <1>1, <2>1 DEF SessionInv, OneByOne
<1>4. \A x \in calls : x.answer \in -2 .. tokens'
  BY DEF SessionInv, OneByOne, SessionsTyped
<1>5. calls \subseteq Calling /\ (\A x \in calls : x.browser = call.browser => x = call)
  BY DEF SessionInv, SessionsTyped, OneByOne
<1> HIDE DEF new
<1>6. calls' \subseteq Calling BY <1>1, <1>2, <1>5
<1>7. OneByOne'
  <2>1. \A x \in calls' : x.carried = cookie'[x.browser] /\ x.answer \in -2 .. tokens'
    BY <1>1, <1>2, <1>4 DEF SessionInv, OneByOne
  <2>2. \A x, y \in calls' : x.browser = y.browser => x = y
    BY <1>1, <1>2, <1>5 DEF SessionInv, OneByOne
  <2> QED BY <1>1, <1>3, <2>1, <2>2 DEF SessionInv, OneByOne
<1>8. \A b : b # call.browser => Door!Of(b)' = Door!Of(b)
  BY <1>1, <1>2 DEF Door!Of
<1>9. Door!Of(call.browser)' = {new}
  BY <1>1, <1>2, <1>5 DEF Door!Of
<1> QED BY <1>6, <1>7, <1>8, <1>9 DEF new

LEMMA AnswerHeld ==
  ASSUME SessionInv, NEW call \in calls, call.answer = -1, NEW answer \in Int, Door!Answered(call, answer),
         answer \in -2 .. tokens', Revoking, SessionsTyped', now' = now,
         \A t \in DOMAIN sessions' : t \notin DOMAIN sessions => sessions'[t].browser = call.browser /\ t = answer,
         answer < 0 => sessions' = sessions,
         answer >= 0 => call.carried \notin DOMAIN sessions'
  PROVE  OnlySession'
<1>1. /\ \A b : b # call.browser => Door!Of(b)' = Door!Of(b)
      /\ Door!Of(call.browser)' = {[call EXCEPT !.answer = answer]}
  BY AnswerTyped DEF Revoking
<1>2. call \in Calling BY DEF SessionInv, SessionsTyped
<1> DEFINE new == [call EXCEPT !.answer = answer]
<1>3. new.answer = answer /\ new.browser = call.browser BY <1>2 DEF Calling
<1>4. cookie' = cookie /\ orderly' = orderly /\ call.carried = cookie[call.browser]
  BY DEF Door!Answered, SessionInv, OneByOne
<1>5. DOMAIN sessions \subseteq 0 .. tokens /\ tokens \in Nat BY DEF SessionInv, SessionsTyped
<1>6. \A t \in DOMAIN sessions \cap DOMAIN sessions' : sessions'[t] = sessions[t] /\ (Door!Valid(t)' => Door!Valid(t))
  BY <1>5, EndedForGood DEF Revoking, SessionInv
<1> SUFFICES ASSUME NEW b \in orderly', NEW t \in DOMAIN sessions', sessions'[t].browser = b, Door!Valid(t)'
             PROVE  /\ Door!Of(b)' = {} => t = cookie'[b]
                    /\ \A x \in Door!Of(b)' : t = HeldBy(x)'
  BY DEF OnlySession
<1> HIDE DEF new
<1>7. CASE t \notin DOMAIN sessions
  <2>1. b = call.browser /\ t = answer BY <1>7
  <2>2. t > 0 BY DEF SessionsTyped
  <2>3. Door!Of(b)' = {new} BY <1>1, <2>1 DEF new
  <2> QED BY <1>3, <2>1, <2>2, <2>3 DEF HeldBy
<1>8. CASE t \in DOMAIN sessions /\ b # call.browser
  <2>1. Door!Of(b)' = Door!Of(b) /\ sessions[t].browser = b /\ Door!Valid(t) /\ b \in orderly
    BY <1>1, <1>4, <1>6, <1>8
  <2> QED BY <1>4, <2>1, <1>8 DEF SessionInv, OnlySession, HeldBy
<1>9. CASE t \in DOMAIN sessions /\ b = call.browser
  <2>1. sessions[t].browser = b /\ Door!Valid(t) /\ b \in orderly /\ call \in Door!Of(b)
    BY <1>4, <1>6, <1>9 DEF Door!Of
  <2>2. t = HeldBy(call)
    BY <1>9, <2>1 DEF SessionInv, OnlySession
  <2>3. t = cookie[b] BY <2>2, <1>9 DEF HeldBy
  <2>4. answer < 0 BY <1>4, <1>9, <2>3
  <2>5. Door!Of(b)' = {new} BY <1>1, <1>9 DEF new
  <2> QED BY <1>3, <1>4, <1>9, <2>3, <2>4, <2>5 DEF HeldBy
<1> QED BY <1>7, <1>8, <1>9

LEMMA CreateKeeps ==
  ASSUME SessionInv, Lifetime \in Int, NEW call \in calls, call.answer = -1, NEW account,
         Door!CreateSession(call, account), now' = now
  PROVE  SessionInv'
<1>1. /\ tokens' = tokens + 1 /\ tokens \in Nat /\ now \in Int /\ DOMAIN sessions \subseteq 1 .. tokens
      /\ \A t \in DOMAIN sessions : sessions[t].expires \in Int
      /\ Door!Answered(call, tokens + 1)
  BY DEF SessionInv, SessionsTyped, Door!CreateSession
<1> DEFINE new == [account |-> account, expires |-> now + Lifetime, browser |-> call.browser]
<1>2. sessions' = [t \in (DOMAIN sessions \ Door!Ended(call)) \cup {tokens + 1} |->
                     IF t = tokens + 1 THEN new ELSE sessions[t]]
  BY DEF Door!CreateSession
<1>3. new.expires \in Int /\ new.browser = call.browser BY <1>1
<1> HIDE DEF new
<1>4. /\ DOMAIN sessions' = (DOMAIN sessions \ Door!Ended(call)) \cup {tokens + 1}
      /\ sessions'[tokens + 1] = new
      /\ \A t \in DOMAIN sessions' : t # tokens + 1 => t \in DOMAIN sessions /\ sessions'[t] = sessions[t]
  BY <1>2
<1>5. Revoking BY <1>1, <1>4 DEF Revoking
<1>6. tokens' \in Nat /\ tokens + 1 \in -2 .. tokens' /\ tokens' >= tokens /\ tokens + 1 \in Int BY <1>1
<1>7. calls' \subseteq Calling /\ OneByOne' BY <1>1, <1>6, AnswerTyped
<1>8. SessionsTyped' BY <1>1, <1>3, <1>4, <1>7 DEF SessionsTyped
<1>9. call.carried \notin DOMAIN sessions'
  <2>1. call.carried \in 0 .. tokens BY DEF SessionInv, OneByOne, SessionsTyped, Calling
  <2> QED BY <1>1, <1>4, <2>1 DEF Door!Ended
<1>10. OnlySession'
  BY <1>1, <1>3, <1>4, <1>5, <1>6, <1>8, <1>9, AnswerHeld
<1>11. LastBatch' BY <1>5, StreamsLast DEF Door!CreateSession, Door!Answered
<1> QED BY <1>7, <1>8, <1>10, <1>11 DEF SessionInv

LEMMA DeniedKeeps ==
  ASSUME SessionInv, NEW call \in calls, call.answer = -1, Door!Denied(call)
  PROVE  SessionInv'
<1>1. Door!Answered(call, -2) /\ sessions' = sessions /\ tokens' = tokens /\ now' = now /\ stream' = stream
  BY DEF Door!Denied, Door!Answered, Door!held, Door!Refused
<1>2. tokens \in Nat /\ now \in Int BY DEF SessionInv, SessionsTyped
<1>3. Revoking BY <1>1, <1>2 DEF Revoking
<1>4. -2 \in -2 .. tokens' /\ -2 \in Int BY <1>1, <1>2
<1>5. calls' \subseteq Calling /\ OneByOne' BY <1>1, <1>2, <1>4, AnswerTyped
<1>6. SessionsTyped' BY <1>1, <1>5 DEF SessionInv, SessionsTyped
<1>7. OnlySession' BY <1>1, <1>3, <1>4, <1>6, AnswerHeld
<1>8. LastBatch' BY <1>1, <1>3, StreamsLast
<1> QED BY <1>5, <1>6, <1>7, <1>8 DEF SessionInv

LEMMA LogoutKeeps ==
  ASSUME SessionInv, NEW call \in calls, Door!Logout(call), now' = now
  PROVE  SessionInv'
<1>1. /\ call.answer = -1 /\ Door!Answered(call, 0) /\ tokens' = tokens /\ stream' = stream
      /\ sessions' = [t \in DOMAIN sessions \ {call.carried} |-> sessions[t]]
  BY DEF Door!Logout, Door!Answered, Door!Waiting, Door!None
<1>2. tokens \in Nat /\ now \in Int BY DEF SessionInv, SessionsTyped
<1>3. Revoking BY <1>1, <1>2 DEF Revoking
<1>4. 0 \in -2 .. tokens' /\ 0 \in Int BY <1>1, <1>2
<1>5. calls' \subseteq Calling /\ OneByOne' BY <1>1, <1>2, <1>4, AnswerTyped
<1>6. SessionsTyped' BY <1>1, <1>2, <1>5 DEF SessionInv, SessionsTyped
<1>7. OnlySession' BY <1>1, <1>3, <1>4, <1>6, AnswerHeld
<1>8. LastBatch' BY <1>1, <1>3, StreamsLast
<1> QED BY <1>5, <1>6, <1>7, <1>8 DEF SessionInv

\* The steps that no request is answered in.
LEMMA QuietKeeps ==
  ASSUME SessionInv, SessionsTyped', OneByOne', Revoking, DOMAIN sessions' \subseteq DOMAIN sessions, stream' = stream,
         orderly' \subseteq orderly, cookie' = cookie,
         \A b \in orderly' : \A x \in Door!Of(b)' : x \in Door!Of(b) \/ (Door!Of(b) = {} /\ x.answer < 0 /\ x.browser = b),
         \A b \in orderly' : Door!Of(b)' = {} => Door!Of(b) = {}
  PROVE  SessionInv'
<1>1. LastBatch' BY StreamsLast
<1>2. DOMAIN sessions \subseteq 0 .. tokens BY DEF SessionInv, SessionsTyped
<1>3. \A t \in DOMAIN sessions' : t \in DOMAIN sessions /\ sessions'[t] = sessions[t] /\ (Door!Valid(t)' => Door!Valid(t))
  BY <1>2, EndedForGood DEF Revoking, SessionInv
<1>4. OnlySession'
  BY <1>3 DEF OnlySession, SessionInv, HeldBy
<1> QED BY <1>1, <1>4 DEF SessionInv

LEMMA SessionStep == Lifetime \in Int /\ SessionInv /\ [Door!Next]_(Door!vars) => SessionInv'
<1> SUFFICES ASSUME Lifetime \in Int, SessionInv, [Door!Next]_(Door!vars)
             PROVE  SessionInv'
  OBVIOUS
<1>t. SessionsTyped /\ OneByOne /\ OnlySession /\ LastBatch BY DEF SessionInv
<1>n. tokens \in Nat /\ now \in Int BY <1>t DEF SessionsTyped
<1>1. ASSUME NEW b \in Browsers, NEW e \in Addressed, NEW kind \in {"login", "register", "logout"}, NEW n \in Int, Door!Send(b, kind, e, n)
      PROVE  SessionInv'
  <2> DEFINE new == [browser |-> b, kind |-> kind, email |-> e, invite |-> n, carried |-> cookie[b], answer |-> -1]
  <2>1. /\ Door!Of(b) = {} /\ calls' = calls \cup {new} /\ now' = now /\ sessions' = sessions /\ tokens' = tokens
        /\ cookie' = cookie /\ stream' = stream /\ orderly' = orderly
    BY <1>1 DEF Door!Send, Door!held, Door!Waiting
  <2>2. new \in Calling /\ new.browser = b /\ new.carried = cookie[b] /\ new.answer = -1
    BY <1>1, <1>t, <1>n DEF Calling, OneByOne
  <2> HIDE DEF new
  <2>3. SessionsTyped' BY <1>t, <2>1, <2>2 DEF SessionsTyped
  <2>4. OneByOne' BY <1>t, <1>n, <2>1, <2>2 DEF OneByOne, Door!Of
  <2>5. Revoking BY <1>n, <2>1 DEF Revoking
  <2>6. \A d : \A x \in Door!Of(d)' : x \in Door!Of(d) \/ (Door!Of(d) = {} /\ x.answer < 0 /\ x.browser = d)
    BY <2>1, <2>2 DEF Door!Of
  <2>7. \A d : Door!Of(d)' = {} => Door!Of(d) = {}
    BY <2>1 DEF Door!Of
  <2> QED BY <2>1, <2>3, <2>4, <2>5, <2>6, <2>7, QuietKeeps
<1>2. ASSUME NEW b \in Browsers, Door!Follow(b) \/ Door!Check(b) \/ Door!Batch(b)
      PROVE  SessionInv'
  <2>1. UNCHANGED <<now, sessions, tokens, cookie, calls, orderly>>
    BY <1>2 DEF Door!Follow, Door!Check, Door!Batch, Door!held
  <2>2. SessionsTyped' /\ OneByOne' /\ OnlySession'
    BY <1>t, <2>1 DEF SessionsTyped, OneByOne, OnlySession, Door!Of, Door!Valid, HeldBy
  <2>3. \A t : Door!Valid(t)' <=> Door!Valid(t)
    BY <2>1 DEF Door!Valid
  <2>4. Door!Idle = [token |-> 0, checked |-> FALSE, late |-> 0] /\ stream[b].token \in 0 .. tokens /\ 0 \in 0 .. tokens
    BY <1>t, <1>n, <1>2 DEF Door!Idle, Door!None, LastBatch
  <2>5. CASE Door!Follow(b)
    <3>1. stream' = [stream EXCEPT ![b] = [Door!Idle EXCEPT !.token = cookie[b]]] /\ cookie[b] \in 0 .. tokens
      BY <2>5, <1>t, <1>2 DEF Door!Follow, OneByOne
    <3> DEFINE new == [Door!Idle EXCEPT !.token = cookie[b]]
    <3>2. new \in [token : 0 .. tokens, checked : BOOLEAN, late : {0, 1}] /\ new.late = 0
      BY <3>1, <1>n DEF Door!Idle, Door!None
    <3> HIDE DEF new
    <3> QED BY <1>t, <2>1, <2>2, <2>3, <3>1, <3>2 DEF LastBatch, SessionInv, new
  <2>6. CASE Door!Check(b)
    <3>1. CASE Door!Valid(stream[b].token)
      <4>1. stream' = [stream EXCEPT ![b] = [@ EXCEPT !.checked = TRUE]]
        BY <2>6, <3>1 DEF Door!Check
      <4> QED BY <1>t, <2>1, <2>2, <2>3, <3>1, <4>1 DEF LastBatch, SessionInv
    <3>2. CASE ~Door!Valid(stream[b].token)
      <4>1. stream' = [stream EXCEPT ![b] = Door!Idle]
        BY <2>6, <3>2 DEF Door!Check
      <4> QED BY <1>t, <2>1, <2>2, <2>3, <2>4, <4>1 DEF LastBatch, SessionInv
    <3> QED BY <3>1, <3>2
  <2>7. CASE Door!Batch(b)
    <3>1. stream[b].late = 0
      BY <2>7, <1>t, <1>2 DEF Door!Batch, LastBatch
    <3>2. stream' = [stream EXCEPT ![b].checked = FALSE, ![b].late = IF Door!Valid(stream[b].token) THEN @ ELSE @ + 1]
      BY <2>7 DEF Door!Batch
    <3> DEFINE tardy == IF Door!Valid(stream[b].token) THEN 0 ELSE 1
               new == [[stream[b] EXCEPT !.checked = FALSE] EXCEPT !.late = tardy]
    <3>3. tardy \in {0, 1} /\ (tardy = 1 => ~Door!Valid(stream[b].token))
      OBVIOUS
    <3>4. stream' = [stream EXCEPT ![b] = new]
      <4>1. stream' = [stream EXCEPT ![b].checked = FALSE, ![b].late = tardy]
        BY <3>1, <3>2, <1>t DEF LastBatch
      <4> HIDE DEF tardy
      <4> QED BY <4>1, <1>t DEF LastBatch
    <3> HIDE DEF tardy
    <3>5. stream[b] \in [token : 0 .. tokens, checked : BOOLEAN, late : {0, 1}]
      BY <1>t DEF LastBatch
    <3>6. /\ new \in [token : 0 .. tokens, checked : BOOLEAN, late : {0, 1}]
          /\ ~new.checked /\ new.late = tardy /\ new.token = stream[b].token
      BY <3>3, <3>5
    <3> HIDE DEF new
    <3> QED BY <1>t, <2>1, <2>2, <2>3, <3>3, <3>4, <3>6 DEF LastBatch, SessionInv
  <2> QED BY <1>2, <2>5, <2>6, <2>7
<1>3. ASSUME NEW x \in calls, Door!Register(x) \/ Door!Login(x) \/ Door!Logout(x)
      PROVE  SessionInv'
  <2>1. now' = now /\ (x.answer = -1)
    BY <1>3 DEF Door!Register, Door!Login, Door!Logout, Door!Denied, Door!CreateSession, Door!Answered, Door!Waiting
  <2>2. CASE Door!Denied(x) BY <2>1, <2>2, DeniedKeeps
  <2>3. CASE Door!Logout(x) BY <2>1, <2>3, LogoutKeeps
  <2>4. CASE \E account : Door!CreateSession(x, account) BY <2>1, <2>4, CreateKeeps
  <2> QED BY <1>3, <2>2, <2>3, <2>4 DEF Door!Register, Door!Login
<1>4. ASSUME NEW x \in calls, Door!Deliver(x)
      PROVE  SessionInv'
  <2>1. /\ x.answer # -1 /\ calls' = calls \ {x} /\ UNCHANGED <<now, sessions, tokens, stream, orderly>>
        /\ cookie' = IF x.answer = -2 THEN cookie ELSE [cookie EXCEPT ![x.browser] = x.answer]
    BY <1>4 DEF Door!Deliver, Door!held, Door!Waiting, Door!Refused
  <2>2. /\ x \in Calling /\ x.answer \in -2 .. tokens /\ x.browser \in Browsers
        /\ \A y \in calls : y.browser = x.browser => y = x
    BY <1>t DEF SessionsTyped, OneByOne, Calling
  <2>3. cookie' \in [Browsers -> 0 .. tokens] /\ cookie'[x.browser] = HeldBy(x)
        /\ \A b \in Browsers : b # x.browser => cookie'[b] = cookie[b]
    BY <2>1, <2>2, <1>t, <1>n DEF OneByOne, HeldBy
  <2>4. SessionsTyped' BY <1>t, <2>1 DEF SessionsTyped
  <2>5. OneByOne' BY <1>t, <2>1, <2>2, <2>3 DEF OneByOne, SessionsTyped, Calling
  <2>6. LastBatch' BY <1>t, <2>1 DEF LastBatch, Door!Valid
  <2>7. OnlySession'
    <3> SUFFICES ASSUME NEW b \in orderly, NEW t \in DOMAIN sessions, sessions[t].browser = b, Door!Valid(t)
                 PROVE  /\ Door!Of(b)' = {} => t = cookie'[b]
                        /\ \A y \in Door!Of(b)' : t = HeldBy(y)'
      BY <2>1 DEF OnlySession, Door!Valid
    <3>1. b \in Browsers BY <1>t DEF OneByOne
    <3>2. CASE b = x.browser
      <4>1. x \in Door!Of(b) /\ Door!Of(b)' = {} BY <2>1, <2>2, <3>2 DEF Door!Of
      <4>2. t = HeldBy(x) BY <1>t, <4>1 DEF OnlySession
      <4> QED BY <2>3, <3>2, <4>1, <4>2
    <3>3. CASE b # x.browser
      <4>1. Door!Of(b)' = Door!Of(b) BY <2>1, <3>3 DEF Door!Of
      <4>2. \A y \in Door!Of(b) : y.browser = b BY DEF Door!Of
      <4> QED BY <1>t, <2>3, <3>1, <3>3, <4>1, <4>2 DEF OnlySession, HeldBy
    <3> QED BY <3>2, <3>3
  <2> QED BY <2>4, <2>5, <2>6, <2>7 DEF SessionInv
<1>5. ASSUME NEW x \in calls, Door!Lose(x)
      PROVE  SessionInv'
  <2>1. calls' = calls \ {x} /\ orderly' = orderly \ {x.browser} /\ UNCHANGED <<now, sessions, tokens, cookie, stream>>
    BY <1>5 DEF Door!Lose, Door!held
  <2>2. SessionsTyped' /\ OneByOne' BY <1>t, <2>1 DEF SessionsTyped, OneByOne
  <2>3. Revoking BY <1>n, <2>1 DEF Revoking
  <2>4. \A b \in orderly' : Door!Of(b)' = Door!Of(b) BY <2>1 DEF Door!Of
  <2> QED BY <2>1, <2>2, <2>3, <2>4, QuietKeeps
<1>6. ASSUME NEW e, Door!Issue(e) PROVE SessionInv'
  BY <1>6, <1>t DEF Door!Issue, Door!held, Door!net, SessionInv, SessionsTyped, OneByOne, OnlySession, LastBatch, Door!Of, Door!Valid, HeldBy
<1>7. CASE Door!Restart
  <2>1. /\ calls' = {} /\ stream' = [b \in Browsers |-> Door!Idle] /\ orderly' = {b \in orderly : Door!Of(b) = {}}
        /\ UNCHANGED <<now, sessions, tokens, cookie>>
    BY <1>7 DEF Door!Restart, Door!held
  <2>2. SessionsTyped' /\ OneByOne' BY <1>t, <2>1 DEF SessionsTyped, OneByOne
  <2>3. OnlySession' BY <1>t, <2>1 DEF OnlySession, Door!Of, Door!Valid
  <2>4. LastBatch' BY <1>n, <2>1 DEF LastBatch, Door!Idle, Door!None
  <2> QED BY <2>2, <2>3, <2>4 DEF SessionInv
<1>8. CASE Door!Tick
  <2>1. now' = now + 1 /\ UNCHANGED <<sessions, tokens, cookie, calls, stream, orderly>>
    BY <1>8 DEF Door!Tick, Door!held, Door!net
  <2>2. SessionsTyped' /\ OneByOne' BY <1>t, <2>1 DEF SessionsTyped, OneByOne
  <2>3. Revoking BY <1>n, <2>1 DEF Revoking
  <2>4. \A b : Door!Of(b)' = Door!Of(b) BY <2>1 DEF Door!Of
  <2> QED BY <2>1, <2>2, <2>3, <2>4, QuietKeeps
<1>9. CASE UNCHANGED Door!vars
  BY <1>9, <1>t DEF Door!vars, Door!held, Door!net, SessionInv, SessionsTyped, OneByOne, OnlySession, LastBatch, Door!Of, Door!Valid, HeldBy
<1> QED
  <2>1. "" \in Addressed /\ Emails \subseteq Addressed
    BY Zenon DEF Addressed
  <2>2. 0 \in Int /\ \A i \in 1 .. MaxInvites : i \in Int
    OBVIOUS
  <2> QED BY <1>1, <1>2, <1>3, <1>4, <1>5, <1>6, <1>7, <1>8, <1>9, <2>1, <2>2 DEF Door!Next, Door!None

-----------------------------------------------------------------------------
\* Who let each account in stays on record.
EntranceInv ==
  /\ accounts \in Seq(Admitted) /\ invites \in Seq(Invitations) /\ mode \in Door!Modes
  /\ \A i \in DOMAIN accounts : accounts[i].invite # 0 =>
       accounts[i].invite \in DOMAIN invites /\ invites[accounts[i].invite].used
  /\ Door!EnteredByRight

LEMMA EntranceStep == SessionInv /\ EntranceInv /\ [Door!Next]_(Door!vars) => EntranceInv'
<1> SUFFICES ASSUME SessionInv, EntranceInv, [Door!Next]_(Door!vars)
             PROVE  EntranceInv'
  OBVIOUS
<1>1. CASE accounts' = accounts /\ invites' = invites /\ mode' = mode
  BY <1>1 DEF EntranceInv, Door!EnteredByRight, Door!None
<1>2. ASSUME NEW x \in calls, Door!Register(x)
      PROVE  EntranceInv'
  <2>1. CASE Door!Denied(x) BY <1>1, <2>1 DEF Door!Denied, Door!Answered
  <2>2. CASE /\ Door!Admits(x) /\ ~Door!Known(x.email) /\ invites' = Door!Redeem(x)
             /\ accounts' = Append(accounts, [email |-> x.email, mode |-> mode,
                                              invite |-> IF mode = "invite" THEN x.invite ELSE 0])
    <3> DEFINE n == Len(accounts)
               new == [email |-> x.email, mode |-> mode, invite |-> IF mode = "invite" THEN x.invite ELSE 0]
    <3>1. new \in Admitted /\ new.email = x.email /\ new.mode = mode
          /\ new.invite = (IF mode = "invite" THEN x.invite ELSE 0)
      <4>1. x \in Calling /\ mode \in Door!Modes BY DEF SessionInv, SessionsTyped, EntranceInv
      <4>2. x.email \in Addressed /\ x.invite \in Int BY <4>1 DEF Calling
      <4> QED BY <4>1, <4>2 DEF Admitted
    <3>2. accounts \in Seq(Admitted) /\ accounts' = Append(accounts, new)
      BY <2>2 DEF EntranceInv
    <3> HIDE DEF new
    <3>3. /\ n \in Nat /\ DOMAIN accounts = 1 .. n /\ DOMAIN accounts' = 1 .. (n + 1)
          /\ accounts'[n + 1] = new /\ \A i \in 1 .. n : accounts'[i] = accounts[i]
          /\ accounts' \in Seq(Admitted)
      BY <3>1, <3>2
    <3>4. /\ invites' \in Seq(Invitations) /\ DOMAIN invites' = DOMAIN invites
          /\ \A k \in DOMAIN invites : invites[k].used => invites'[k].used
          /\ new.invite # 0 => new.invite \in DOMAIN invites /\ ~invites[new.invite].used /\ invites'[new.invite].used
      <4>1. CASE mode = "invite"
        <5>1. /\ x.invite \in DOMAIN invites /\ ~invites[x.invite].used /\ new.invite = x.invite
              /\ invites' = [invites EXCEPT ![x.invite].used = TRUE]
          BY <2>2, <3>1, <4>1 DEF Door!Admits, Door!Invited, Door!Redeem
        <5>2. invites \in Seq(Invitations) BY DEF EntranceInv
        <5> DEFINE redeemed == [invites[x.invite] EXCEPT !.used = TRUE]
        <5>3. redeemed \in Invitations /\ redeemed.used
          <6>1. invites[x.invite] \in Invitations BY <5>1, <5>2
          <6> QED BY <6>1 DEF Invitations
        <5>4. invites' = [invites EXCEPT ![x.invite] = redeemed] BY <5>1
        <5> HIDE DEF redeemed
        <5> QED BY <5>1, <5>2, <5>3, <5>4
      <4>2. CASE mode # "invite"
        BY <2>2, <3>1, <4>2 DEF Door!Redeem, EntranceInv
      <4> QED BY <4>1, <4>2
    <3>5. \A i \in 1 .. n : accounts[i].email # new.email
      BY <2>2, <3>1, <3>3 DEF Door!Known
    <3>6. new.mode = "closed" => n = 0
      BY <2>2, <3>1, <3>3 DEF Door!Admits
    <3> HIDE DEF n
    <3>7. \A i \in DOMAIN accounts' : accounts'[i].invite # 0 =>
            accounts'[i].invite \in DOMAIN invites' /\ invites'[accounts'[i].invite].used
      BY <3>3, <3>4 DEF EntranceInv
    <3>9. /\ \A i \in 1 .. n : accounts[i].invite # 0 =>
               accounts[i].invite \in DOMAIN invites /\ invites[accounts[i].invite].used
          /\ \A i, j \in 1 .. n :
               /\ accounts[i].mode = "closed" => i = 1
               /\ accounts[i].invite # 0 /\ i # j => accounts[i].invite # accounts[j].invite
               /\ i # j => accounts[i].email # accounts[j].email
      BY <3>3 DEF EntranceInv, Door!EnteredByRight, Door!None
    <3>8. Door!EnteredByRight'
      <4> SUFFICES ASSUME NEW i \in 1 .. (n + 1), NEW j \in 1 .. (n + 1)
                   PROVE  /\ accounts'[i].mode = "closed" => i = 1
                          /\ accounts'[i].invite # 0 /\ i # j => accounts'[i].invite # accounts'[j].invite
                          /\ i # j => accounts'[i].email # accounts'[j].email
        BY <3>3 DEF Door!EnteredByRight, Door!None
      <4>1. CASE i \in 1 .. n /\ j \in 1 .. n
        BY <3>3, <3>9, <4>1
      <4>2. CASE i = n + 1 /\ j \in 1 .. n
        BY <3>3, <3>4, <3>5, <3>6, <3>9, <4>2
      <4>3. CASE i \in 1 .. n /\ j = n + 1
        BY <3>3, <3>4, <3>5, <3>6, <3>9, <4>3
      <4>4. CASE i = n + 1 /\ j = n + 1
        BY <3>3, <3>6, <4>4
      <4> QED BY <3>3, <4>1, <4>2, <4>3, <4>4
    <3>10. mode' = mode BY <1>2 DEF Door!Register, Door!Denied, Door!CreateSession, Door!Answered
    <3> QED BY <3>3, <3>4, <3>7, <3>8, <3>10 DEF EntranceInv
  <2> QED BY <1>2, <2>1, <2>2 DEF Door!Register, Door!None
<1>3. ASSUME NEW e \in Addressed, Door!Issue(e)
      PROVE  EntranceInv'
  <2> DEFINE new == [email |-> e, expires |-> now + 1, used |-> FALSE]
  <2>1. new \in Invitations BY DEF Invitations, SessionInv, SessionsTyped
  <2>2. accounts' = accounts /\ invites' = Append(invites, new) /\ mode' = mode BY <1>3 DEF Door!Issue
  <2> HIDE DEF new
  <2>3. /\ invites' \in Seq(Invitations) /\ DOMAIN invites \subseteq DOMAIN invites'
        /\ \A k \in DOMAIN invites : invites'[k] = invites[k]
    BY <2>1, <2>2 DEF EntranceInv
  <2> QED BY <2>2, <2>3 DEF EntranceInv, Door!EnteredByRight, Door!None
<1>4. ASSUME NEW x \in calls, Door!Login(x) \/ Door!Logout(x) \/ Door!Deliver(x) \/ Door!Lose(x)
      PROVE  EntranceInv'
  BY <1>1, <1>4 DEF Door!CreateSession, Door!Answered, Door!Login, Door!Logout, Door!Deliver, Door!Lose, Door!Denied, Door!book
<1>5. ASSUME NEW b, NEW kind, NEW e, NEW n, Door!Send(b, kind, e, n) \/ Door!Follow(b) \/ Door!Check(b) \/ Door!Batch(b)
      PROVE  EntranceInv'
  BY <1>1, <1>5 DEF Door!Send, Door!Follow, Door!Check, Door!Batch, Door!book
<1>7. CASE Door!Restart
  BY <1>7 DEF Door!Restart, EntranceInv, Door!EnteredByRight, Door!None, Door!Modes
<1>6. CASE Door!Tick \/ UNCHANGED Door!vars
  BY <1>1, <1>6 DEF Door!Tick, Door!vars, Door!book
<1> QED
  <2>1. "" \in Addressed /\ Emails \subseteq Addressed
    BY Zenon DEF Addressed
  <2> QED BY <1>2, <1>3, <1>4, <1>5, <1>6, <1>7, <2>1 DEF Door!Next

\* The invariant holds at the start.
LEMMA SessionsStart == Door!Init => SessionInv
BY DEF Door!Init, SessionInv, SessionsTyped, OneByOne, OnlySession, LastBatch, Door!None, Door!Idle

\* So does what is kept of the entrance.
LEMMA EntranceStart == Door!Init => EntranceInv
<1> SUFFICES ASSUME Door!Init PROVE EntranceInv
  OBVIOUS
<1>1. invites = <<>> /\ accounts \in {<<>>, <<[email |-> "a", mode |-> "old", invite |-> 0]>>}
  BY DEF Door!Init, Door!None
<1>2. "a" \in Addressed BY Zenon DEF Addressed
<1>3. mode \in Door!Modes BY DEF Door!Init
<1>4. [email |-> "a", mode |-> "old", invite |-> 0] \in Admitted BY <1>2 DEF Admitted
<1>5. accounts \in Seq(Admitted) /\ invites \in Seq(Invitations)
  <2> DEFINE old == [email |-> "a", mode |-> "old", invite |-> 0]
  <2>1. accounts = <<>> \/ accounts = <<old>> BY <1>1
  <2>2. old \in Admitted BY <1>4
  <2> HIDE DEF old
  <2>3. <<old>> \in Seq(Admitted) BY <2>2
  <2>4. accounts \in Seq(Admitted)
    <3>1. CASE accounts = <<>> BY <3>1
    <3>2. CASE accounts = <<old>> BY <2>3, <3>2
    <3> QED BY <2>1, <3>1, <3>2
  <2> QED BY <1>1, <2>4
<1>6. \A i \in DOMAIN accounts : i = 1 /\ accounts[i].invite = 0 BY <1>1
<1> QED BY <1>3, <1>5, <1>6 DEF EntranceInv, Door!EnteredByRight, Door!None

\* Together they say what is to be shown.
LEMMA DoorHolds == SessionInv /\ EntranceInv => Door!EnteredByRight /\ Door!OneSessionEach /\ Door!StreamsEnd
BY DEF SessionInv, OnlySession, LastBatch, EntranceInv, Door!OneSessionEach, Door!StreamsEnd

\* A closed deployment admits its first account only and an invitation one
\* account; of the sessions of a browser that got its answers only the one in its
\* cookie opens the door; and a stream sends one batch too many at most
\* (auth.py, auth_security.py): however requests race, repeat and get lost.
THEOREM EnteredAndLeftByRight ==
  Lifetime \in Int /\ Door!Spec => [](Door!EnteredByRight /\ Door!OneSessionEach /\ Door!StreamsEnd)
<1>1. CASE Lifetime \in Int
  <2>1. SessionInv /\ [Door!Next]_(Door!vars) => SessionInv'
    BY <1>1, SessionStep
  <2> QED BY SessionsStart, EntranceStart, DoorHolds, <2>1, EntranceStep, PTL DEF Door!Spec
<1> QED BY <1>1

-----------------------------------------------------------------------------
(***************************************************************************)
(* Workspace: a run whose workspace is taken over keeps its models.        *)
(***************************************************************************)
CONSTANTS MaxCredentials, MaxRows
VARIABLES engine, registered, run, credentials, permissions, inserted, config, task, refused
Home == INSTANCE Workspace

Tenants == {"local", "account"}
Credential(id, by, tenant) == [id |-> id, provider |-> by, tenant |-> tenant]
Permission(by, credential, tenant, enabled) ==
  [provider |-> by, credential |-> credential, tenant |-> tenant, enabled |-> enabled]
Row(kind, n, tenant, cross) == [kind |-> kind, n |-> n, tenant |-> tenant, crossed |-> cross]

\* The claim changes the workspace of a row and nothing else of it.
LEMMA TakenRows ==
  /\ \A i, x, t : [Credential(i, x, t) EXCEPT !.tenant = "account"] = Credential(i, x, "account")
  /\ \A x, i, t, y : [Permission(x, i, t, y) EXCEPT !.tenant = "account"] = Permission(x, i, "account", y)
  /\ \A x, i, t, y : [Row(x, i, t, y) EXCEPT !.tenant = "account"] = Row(x, i, "account", y)
BY DEF Credential, Permission, Row
HomeTyped ==
  /\ registered \in BOOLEAN /\ run = Home!Page
  /\ task \in [op : {"none", "authorize", "resolve"} \cup Home!Kinds, tenant : Tenants]
  /\ \A r \in credentials : r = Credential(r.id, r.provider, r.tenant)
  /\ \A r \in permissions : r = Permission(r.provider, r.credential, r.tenant, r.enabled)
  /\ \A r \in inserted : r = Row(r.kind, r.n, r.tenant, r.crossed)

\* The claim moved every row, so the run has everything in its own workspace.
TogetherMoved ==
  /\ \A r \in credentials : r.tenant = run
  /\ \A r \in permissions : r.tenant = run

\* A check that passed is followed by its credential.
CredentialStays ==
  task.op = "resolve" /\ config.provider # "ollama" => Home!Resolved(config.credential)

\* On SQLite the claim waited for a transaction that had looked the workspace up.
LookedUp ==
  /\ task.op # "none" /\ ~registered => task.tenant = "local"
  /\ engine = "sqlite" /\ task.op \in {"event", "approval"} => task.tenant = run

HomeInv ==
  HomeTyped /\ TogetherMoved /\ CredentialStays /\ LookedUp /\ Home!ModelsStayUsable /\ Home!LeftInWorkspace

\* The claim takes every row over, and none is lost.
LEMMA TakenFits ==
  ASSUME NEW rows, \A r \in rows : r = Credential(r.id, r.provider, r.tenant),
         NEW by, NEW id, NEW tenant, Home!CredentialFits(rows, by, id, tenant)
  PROVE  Home!CredentialFits(Home!Taken(rows), by, id, "account")
<1>1. CASE by = "ollama" BY <1>1 DEF Home!CredentialFits
<1>2. CASE by # "ollama"
  <2>1. PICK c \in rows : c.id = id /\ c.tenant = tenant /\ c.provider = by
    BY <1>2 DEF Home!CredentialFits
  <2> DEFINE d == [c EXCEPT !.tenant = "account"]
  <2>2. d \in Home!Taken(rows) /\ d.id = id /\ d.tenant = "account" /\ d.provider = by
    BY <2>1, TakenRows DEF Home!Taken, Credential
  <2> QED BY <1>2, <2>2 DEF Home!CredentialFits
<1> QED BY <1>1, <1>2

LEMMA FitsMore ==
  ASSUME NEW rows, NEW more, NEW by, NEW id, NEW tenant, Home!CredentialFits(rows, by, id, tenant)
  PROVE  Home!CredentialFits(rows \cup more, by, id, tenant)
BY DEF Home!CredentialFits

LEMMA HomeStep == HomeInv /\ [Home!Next]_(Home!vars) => HomeInv'
<1> SUFFICES ASSUME HomeInv, [Home!Next]_(Home!vars)
             PROVE  HomeInv'
  OBVIOUS
<1>t. HomeTyped /\ TogetherMoved /\ CredentialStays /\ LookedUp /\ Home!ModelsStayUsable /\ Home!LeftInWorkspace
  BY DEF HomeInv
<1>1. CASE Home!AddCredential
  <2>0. UNCHANGED <<engine, registered, run, permissions, inserted, config, task, refused>>
    BY <1>1 DEF Home!AddCredential
  <2>1. PICK by \in {"openai", "anthropic"} :
          credentials' = credentials \cup {[id |-> Home!Cardinality(credentials) + 1, provider |-> by, tenant |-> Home!Page]}
    BY <1>1 DEF Home!AddCredential
  <2> DEFINE new == Credential(Home!Cardinality(credentials) + 1, by, Home!Page)
  <2>5. /\ credentials' = credentials \cup {new} /\ new.tenant = run
        /\ new = Credential(new.id, new.provider, new.tenant)
    BY <2>1, <1>t DEF HomeTyped, Credential
  <2> HIDE DEF new
  <2>2. HomeTyped' /\ TogetherMoved' /\ CredentialStays' /\ LookedUp'
    BY <2>0, <2>5, <1>t DEF HomeTyped, TogetherMoved, CredentialStays, LookedUp, Home!Page, Home!Resolved
  <2>3. Home!ModelsStayUsable'
    BY <2>0, <2>5, <1>t, FitsMore DEF Home!ModelsStayUsable
  <2>4. Home!LeftInWorkspace'
    BY <2>0, <1>t DEF Home!LeftInWorkspace
  <2> QED BY <2>2, <2>3, <2>4 DEF HomeInv
<1>2. CASE Home!Allow
  <2>0. UNCHANGED <<engine, registered, run, credentials, inserted, config, task, refused>>
    BY <1>2 DEF Home!Allow
  <2>1. PICK by \in Home!Providers, id \in 0 .. MaxCredentials :
       /\ Home!CredentialFits(credentials, by, id, Home!Page)
       /\ LET row == [provider |-> by, credential |-> id, tenant |-> Home!Page, enabled |-> TRUE]
          IN permissions' = (permissions \ {[row EXCEPT !.enabled = FALSE]}) \cup {row}
    BY <1>2 DEF Home!Allow
  <2> DEFINE row == Permission(by, id, Home!Page, TRUE)
  <2>2. permissions' \subseteq permissions \cup {row} BY <2>1 DEF Permission
  <2>3. /\ row = Permission(row.provider, row.credential, row.tenant, row.enabled)
        /\ row.tenant = run /\ Home!CredentialFits(credentials, row.provider, row.credential, row.tenant)
    BY <2>1, <1>t DEF HomeTyped, Permission
  <2> HIDE DEF row
  <2>4. HomeTyped' /\ TogetherMoved' /\ CredentialStays' /\ LookedUp'
    BY <2>0, <2>2, <2>3, <1>t DEF HomeTyped, TogetherMoved, CredentialStays, LookedUp, Home!Page, Home!Resolved
  <2>5. Home!ModelsStayUsable' /\ Home!LeftInWorkspace'
    BY <2>0, <2>2, <2>3, <1>t DEF Home!ModelsStayUsable, Home!LeftInWorkspace
  <2> QED BY <2>4, <2>5 DEF HomeInv
<1>3. CASE Home!SetEnabled
  <2>0. UNCHANGED <<engine, registered, run, credentials, inserted, config, task, refused>>
    BY <1>3 DEF Home!SetEnabled
  <2>1. PICK row \in permissions, enabled \in BOOLEAN :
       permissions' = (permissions \ {row}) \cup {[row EXCEPT !.enabled = enabled]}
    BY <1>3 DEF Home!SetEnabled
  <2> DEFINE new == [row EXCEPT !.enabled = enabled]
  <2>2. permissions' \subseteq permissions \cup {new} BY <2>1
  <2>3. /\ new = Permission(new.provider, new.credential, new.tenant, new.enabled)
        /\ new.tenant = run /\ Home!CredentialFits(credentials, new.provider, new.credential, new.tenant)
    BY <1>t DEF HomeTyped, TogetherMoved, Home!ModelsStayUsable, Permission
  <2> HIDE DEF new
  <2>4. HomeTyped' /\ TogetherMoved' /\ CredentialStays' /\ LookedUp'
    BY <2>0, <2>2, <2>3, <1>t DEF HomeTyped, TogetherMoved, CredentialStays, LookedUp, Home!Page, Home!Resolved
  <2>5. Home!ModelsStayUsable' /\ Home!LeftInWorkspace'
    BY <2>0, <2>2, <2>3, <1>t DEF Home!ModelsStayUsable, Home!LeftInWorkspace
  <2> QED BY <2>4, <2>5 DEF HomeInv
<1>4. CASE Home!Claim
  <2>0. /\ ~registered /\ registered' = TRUE /\ run' = "account" /\ UNCHANGED <<engine, config, task, refused>>
        /\ engine = "sqlite" => task.op \notin {"event", "approval"}
        /\ credentials' = Home!Taken(credentials) /\ permissions' = Home!Taken(permissions)
        /\ inserted' = Home!Taken(inserted)
    BY <1>4 DEF Home!Claim
  <2>1. HomeTyped' /\ TogetherMoved'
    BY <2>0, <1>t, TakenRows DEF HomeTyped, TogetherMoved, Home!Page, Home!Taken, Credential, Permission, Row
  <2>2. CredentialStays'
    <3> SUFFICES ASSUME task.op = "resolve", config.provider # "ollama"
                 PROVE  \E c \in credentials' : c.id = config.credential /\ c.tenant = "account"
      BY <2>0 DEF CredentialStays, Home!Resolved
    <3>1. PICK c \in credentials : c.id = config.credential
      BY <1>t DEF CredentialStays, Home!Resolved
    <3> DEFINE d == [c EXCEPT !.tenant = "account"]
    <3>2. d \in credentials' /\ d.id = config.credential /\ d.tenant = "account"
      BY <2>0, <3>1, <1>t, TakenRows DEF Home!Taken, HomeTyped, Credential
    <3> QED BY <3>2
  <2>3. LookedUp' BY <2>0 DEF LookedUp
  <2>4. Home!ModelsStayUsable'
    <3>1. ASSUME NEW q \in permissions'
          PROVE  Home!CredentialFits(credentials', q.provider, q.credential, q.tenant)
      <4>1. PICK p \in permissions : q = [p EXCEPT !.tenant = "account"]
        BY <2>0 DEF Home!Taken
      <4>2. q.provider = p.provider /\ q.credential = p.credential /\ q.tenant = "account"
        BY <4>1, <1>t, TakenRows DEF HomeTyped, Permission
      <4>3. Home!CredentialFits(credentials, p.provider, p.credential, p.tenant)
        BY <1>t DEF Home!ModelsStayUsable
      <4> QED BY <2>0, <4>2, <4>3, <1>t, TakenFits DEF HomeTyped
    <3> QED BY <2>0, <3>1, <1>t DEF Home!ModelsStayUsable
  <2>5. Home!LeftInWorkspace'
    BY <2>0, <1>t, TakenRows DEF Home!LeftInWorkspace, Home!Taken, HomeTyped, Row
  <2> QED BY <2>1, <2>2, <2>3, <2>4, <2>5 DEF HomeInv
<1>5. CASE Home!LookUp
  <2>0. UNCHANGED <<engine, registered, run, credentials, permissions, inserted, config, refused>>
        /\ \E op \in {"authorize"} \cup Home!Kinds : task' = [op |-> op, tenant |-> run]
    BY <1>5 DEF Home!LookUp
  <2>1. HomeTyped' /\ TogetherMoved' /\ CredentialStays' /\ LookedUp'
    BY <2>0, <1>t DEF HomeTyped, TogetherMoved, CredentialStays, LookedUp, Home!Page, Home!Kinds, Tenants
  <2>2. Home!ModelsStayUsable' /\ Home!LeftInWorkspace'
    BY <2>0, <1>t DEF Home!ModelsStayUsable, Home!LeftInWorkspace
  <2> QED BY <2>1, <2>2 DEF HomeInv
<1>6. CASE Home!Authorize
  <2>0. task.op = "authorize" /\ UNCHANGED <<engine, registered, run, credentials, permissions, inserted, config>>
    BY <1>6 DEF Home!Authorize
  <2>1. CASE Home!Permitted(task.tenant)
    <3>1. task' = [task EXCEPT !.op = "resolve"] /\ refused' = refused
      BY <1>6, <2>1 DEF Home!Authorize
    <3>2. CredentialStays'
      BY <2>0, <2>1, <3>1, <1>t DEF CredentialStays, Home!Permitted, Home!CredentialFits, Home!Resolved, TogetherMoved, HomeTyped
    <3>3. HomeTyped' /\ TogetherMoved' /\ LookedUp'
      BY <2>0, <3>1, <1>t DEF HomeTyped, TogetherMoved, LookedUp, Home!Page, Home!Kinds
    <3>4. Home!ModelsStayUsable' /\ Home!LeftInWorkspace'
      BY <2>0, <3>1, <1>t DEF Home!ModelsStayUsable, Home!LeftInWorkspace
    <3> QED BY <3>2, <3>3, <3>4 DEF HomeInv
  <2>2. CASE ~Home!Permitted(task.tenant)
    <3>1. task' = Home!Idle /\ refused' = refused \cup {Home!Refusal("authorize")}
      BY <1>6, <2>2 DEF Home!Authorize
    <3> DEFINE r == Home!Refusal("authorize")
    <3>2. r.step = "authorize" /\ (r.permitted => r.crossed)
      BY <2>2 DEF Home!Refusal
    <3> HIDE DEF r
    <3>3. HomeTyped' /\ TogetherMoved' /\ LookedUp' /\ CredentialStays'
      BY <2>0, <3>1, <1>t DEF HomeTyped, TogetherMoved, LookedUp, CredentialStays, Home!Page, Home!Kinds, Home!Idle, Tenants
    <3>4. Home!ModelsStayUsable'
      BY <2>0, <3>1, <3>2, <1>t DEF Home!ModelsStayUsable, r
    <3>5. Home!LeftInWorkspace'
      BY <2>0, <1>t DEF Home!LeftInWorkspace
    <3> QED BY <3>3, <3>4, <3>5 DEF HomeInv
  <2> QED BY <2>1, <2>2
<1>7. CASE Home!Resolve
  <2>0. /\ task.op = "resolve" /\ task' = Home!Idle
        /\ UNCHANGED <<engine, registered, run, credentials, permissions, config, inserted>>
    BY <1>7 DEF Home!Resolve, Home!Ends
  <2>1. config.provider = "ollama" \/ Home!Resolved(config.credential)
    BY <2>0, <1>t DEF CredentialStays
  <2>2. refused' = refused
    BY <1>7, <2>1 DEF Home!Resolve
  <2>3. HomeTyped' /\ TogetherMoved' /\ LookedUp' /\ CredentialStays'
    BY <2>0, <1>t DEF HomeTyped, TogetherMoved, LookedUp, CredentialStays, Home!Page, Home!Kinds, Home!Idle, Tenants
  <2>4. Home!ModelsStayUsable' /\ Home!LeftInWorkspace'
    BY <2>0, <2>2, <1>t DEF Home!ModelsStayUsable, Home!LeftInWorkspace
  <2> QED BY <2>3, <2>4 DEF HomeInv
<1>8. CASE Home!Insert
  <2>0. /\ task.op \in Home!Kinds /\ task' = Home!Idle /\ refused' = refused
        /\ UNCHANGED <<engine, registered, run, credentials, permissions, config>>
    BY <1>8 DEF Home!Insert, Home!Ends
  <2> DEFINE n == Home!Cardinality({r \in inserted : r.kind = task.op}) + 1
             row == Row(task.op, n, task.tenant, task.tenant # run)
  <2>1. inserted' = inserted \cup {row}
    BY <1>8 DEF Home!Insert, Row
  <2> HIDE DEF n
  <2>2. row = Row(row.kind, row.n, row.tenant, row.crossed) /\ row.kind = task.op /\ row.tenant = task.tenant
        /\ (row.crossed <=> task.tenant # run)
    BY DEF Row
  <2> HIDE DEF row
  <2>3. row.tenant # run => row.crossed /\ (engine = "sqlite" => row.kind = "memory")
    BY <2>0, <2>2, <1>t DEF LookedUp, Home!Kinds
  <2>5. HomeTyped' /\ TogetherMoved' /\ LookedUp' /\ CredentialStays'
    BY <2>0, <2>1, <2>2, <1>t DEF HomeTyped, TogetherMoved, LookedUp, CredentialStays, Home!Page, Home!Kinds, Home!Idle, Tenants
  <2>6. Home!ModelsStayUsable' /\ Home!LeftInWorkspace'
    BY <2>0, <2>1, <2>3, <1>t DEF Home!ModelsStayUsable, Home!LeftInWorkspace
  <2> QED BY <2>5, <2>6 DEF HomeInv
<1>9. CASE UNCHANGED Home!vars
  BY <1>9 DEF Home!vars, HomeInv, HomeTyped, TogetherMoved, LookedUp, CredentialStays, Home!Page, Home!Resolved,
     Home!ModelsStayUsable, Home!LeftInWorkspace
<1> QED BY <1>1, <1>2, <1>3, <1>4, <1>5, <1>6, <1>7, <1>8, <1>9 DEF Home!Next

\* The invariant holds at the start.
LEMMA HomeStart == Home!Init => HomeInv
<1> SUFFICES ASSUME Home!Init PROVE HomeInv
  OBVIOUS
<1>1. /\ registered = FALSE /\ run = "local" /\ credentials = {} /\ permissions = {} /\ inserted = {}
      /\ refused = {} /\ task = [op |-> "none", tenant |-> "local"]
  BY DEF Home!Init, Home!Idle
<1>2. HomeTyped BY <1>1 DEF HomeTyped, Home!Page, Tenants
<1>3. TogetherMoved /\ CredentialStays /\ LookedUp
  BY <1>1 DEF TogetherMoved, CredentialStays, LookedUp
<1> QED BY <1>1, <1>2, <1>3 DEF HomeInv, Home!ModelsStayUsable, Home!LeftInWorkspace

\* It says what is to be shown.
LEMMA HomeHolds == HomeInv => Home!ModelsStayUsable /\ Home!LeftInWorkspace
BY DEF HomeInv

\* The first account takes the workspace over with a run under way.
THEOREM WorkspaceTakenOver ==
  Home!Spec => [](Home!ModelsStayUsable /\ Home!LeftInWorkspace)
<1> QED BY HomeStart, HomeHolds, HomeStep, PTL DEF Home!Spec
-----------------------------------------------------------------------------
(***************************************************************************)
(* ToolRequests: a request over a connection that people edit meanwhile.   *)
(* A plan is one of three sequences of steps (PlanIs), so where a call     *)
(* stands says what was checked, built, shown and recorded before; and     *)
(* only an edit comes between that and the connection as it is.            *)
(***************************************************************************)
CONSTANTS Names, Endpoints, Secrets, MaxEdits, MaxItems, Budget
VARIABLES connection, edits, tool, step, prepared, reviewed, sent, outcome, raced, late
Tool == INSTANCE ToolRequests

Writes == Tool!IsWrite(tool.call)
ForPerson == Writes /\ tool.gated
ForNobody == Writes /\ ~tool.gated

\* The plans: what is only read, what a person approves, and what needs no approval.
ReadPlan == <<"check", "check", "read", "send">>
AskPlan == <<"check", "check", "read", "pause", "check", "check", "read", "compare", "begin", "send">>
MarkPlan == <<"check", "check", "read", "mark", "check", "read", "send">>

\* A request as it was built, from a connection with a sender unless an edit was
\* noted; and a connection in order unless an edit was noted.
IsRequest(r) == r # Tool!Nothing /\ r.payload = Tool!Payload(r.connection)
Sender(r) == tool.call[1] = "email" /\ ~r.connection.sender => r.raced
Order(c) == late \/ Tool!Allowed(c)

\* Every variable that matters has its type.
ToolTyped ==
  /\ step \in 0 .. Len(Tool!Plan)
  /\ tool.writes \in BOOLEAN /\ tool.gated \in BOOLEAN
  /\ outcome \in {"none", "done", "uncertain", "transient", "failed", "refused"}

\* A person is shown what was built, once the plan comes to it.
Reviews ==
  /\ reviewed # Tool!Nothing => ForPerson /\ step >= 4 /\ IsRequest(reviewed) /\ Sender(reviewed)
  /\ ForPerson /\ step >= 4 => reviewed # Tool!Nothing

\* What the steps of the plan that are done say of the call, the connection and
\* the request.
Checks ==
  /\ Writes /\ step > 0 => tool.writes
  /\ step \in DOMAIN Tool!Plan /\ Tool!Plan[step] = "check" /\ tool.call[1] = "email" => raced \/ connection.sender
  /\ step >= 3 => IsRequest(prepared) /\ Sender(prepared)

\* From the last check before an intent on, only an edit stops the request.
Late ==
  /\ Writes /\ ~tool.gated /\ step >= 2 => Order(connection)
  /\ Writes /\ ~tool.gated /\ step >= 6 => late \/ prepared.connection = connection
  /\ ForPerson /\ step >= 8 => late \/ reviewed.connection = connection

\* A write leaves at the end of its plan, and its attempt ends with it.
Outcomes ==
  /\ Writes /\ outcome = "none" => sent = {}
  /\ ForPerson /\ sent # {} => step = Len(Tool!Plan)
  /\ outcome = "transient" => ~Writes
  /\ outcome = "uncertain" => Writes

\* The inductive invariant.
ToolInv ==
  /\ ToolTyped /\ Reviews /\ Checks /\ Late /\ Outcomes
  /\ Tool!SentAsReviewed /\ Tool!UncertainForCause /\ Tool!SenderChecked

-----------------------------------------------------------------------------
\* The words of the plans, and how sequences of them are joined.
Words == {"check", "read", "send", "pause", "compare", "begin", "mark"}

LEMMA Joins ==
  ASSUME NEW s \in Seq(Words), NEW t \in Seq(Words)
  PROVE  /\ s \o t \in Seq(Words) /\ Len(s \o t) = Len(s) + Len(t)
         /\ \A i \in 1 .. Len(s) : (s \o t)[i] = s[i]
         /\ \A i \in 1 .. Len(t) : (s \o t)[Len(s) + i] = t[i]
BY ConcatProperties

\* The plan of each kind of call.
LEMMA PlanIs ==
  Tool!Plan = IF ~Writes THEN ReadPlan ELSE IF tool.gated THEN AskPlan ELSE MarkPlan
<1> DEFINE B == <<"check", "read">>
           Opening == <<"check">> \o B
           Marks == <<"mark">> \o B
           Asks == <<"pause", "check">> \o B
           ReadOnly == Opening \o <<"send">>
           Marked == Opening \o (Marks \o <<"send">>)
           Asked == Opening \o (Asks \o <<"compare", "begin", "send">>)
<1>1. Opening = <<"check", "check", "read">>
  <2>1. B \in Seq(Words) /\ <<"check">> \in Seq(Words)
    BY DEF Words
  <2>2. Opening \in Seq(Words) /\ Len(Opening) = 3
        /\ Opening[1] = "check" /\ Opening[2] = "check" /\ Opening[3] = "read"
    BY <2>1, Joins
  <2> HIDE DEF Opening
  <2> QED BY <2>2
<1>2. Marks = <<"mark", "check", "read">>
  <2>1. B \in Seq(Words) /\ <<"mark">> \in Seq(Words)
    BY DEF Words
  <2>2. Marks \in Seq(Words) /\ Len(Marks) = 3
        /\ Marks[1] = "mark" /\ Marks[2] = "check" /\ Marks[3] = "read"
    BY <2>1, Joins
  <2> HIDE DEF Marks
  <2> QED BY <2>2
<1>3. Asks = <<"pause", "check", "check", "read">>
  <2>1. B \in Seq(Words) /\ <<"pause", "check">> \in Seq(Words)
    BY DEF Words
  <2>2. Asks \in Seq(Words) /\ Len(Asks) = 4
        /\ Asks[1] = "pause" /\ Asks[2] = "check" /\ Asks[3] = "check" /\ Asks[4] = "read"
    BY <2>1, Joins
  <2> HIDE DEF Asks
  <2> QED BY <2>2
<1>4. ReadOnly = ReadPlan
  <2>1. Opening \in Seq(Words) /\ <<"send">> \in Seq(Words) /\ ReadPlan \in Seq(Words) BY <1>1 DEF Words, ReadPlan
  <2> HIDE DEF Opening
  <2>2. ReadOnly \in Seq(Words) /\ Len(ReadOnly) = 4 /\ ReadOnly[1] = "check" /\ ReadOnly[2] = "check" /\ ReadOnly[3] = "read" /\ ReadOnly[4] = "send"
    BY <1>1, <2>1, Joins
  <2> HIDE DEF ReadOnly
  <2> QED BY <2>2 DEF ReadPlan
<1> DEFINE MarkTail == Marks \o <<"send">>
           AskTail == Asks \o <<"compare", "begin", "send">>
<1>5. MarkTail = <<"mark", "check", "read", "send">>
  <2>1. Marks \in Seq(Words) /\ <<"send">> \in Seq(Words) BY <1>2 DEF Words
  <2> HIDE DEF Marks
  <2>2. MarkTail \in Seq(Words) /\ Len(MarkTail) = 4 /\ MarkTail[1] = "mark" /\ MarkTail[2] = "check" /\ MarkTail[3] = "read" /\ MarkTail[4] = "send" BY <1>2, <2>1, Joins
  <2> HIDE DEF MarkTail
  <2> QED BY <2>2
<1>6. AskTail = <<"pause", "check", "check", "read", "compare", "begin", "send">>
  <2>1. Asks \in Seq(Words) /\ <<"compare", "begin", "send">> \in Seq(Words) BY <1>3 DEF Words
  <2> HIDE DEF Asks
  <2>2. AskTail \in Seq(Words) /\ Len(AskTail) = 7
        /\ AskTail[1] = "pause" /\ AskTail[2] = "check" /\ AskTail[3] = "check" /\ AskTail[4] = "read" /\ AskTail[5] = "compare" /\ AskTail[6] = "begin" /\ AskTail[7] = "send"
    BY <1>3, <2>1, Joins
  <2> HIDE DEF AskTail
  <2> QED BY <2>2
<1>7. Opening \in Seq(Words) /\ MarkTail \in Seq(Words) /\ AskTail \in Seq(Words) BY <1>1, <1>5, <1>6 DEF Words
<1> HIDE DEF Opening, MarkTail, AskTail
<1> DEFINE Mark == Opening \o MarkTail
           Ask == Opening \o AskTail
<1>8. Mark = MarkPlan
  <2>1. Mark \in Seq(Words) /\ Len(Mark) = 7
        /\ Mark[1] = "check" /\ Mark[2] = "check" /\ Mark[3] = "read" /\ Mark[4] = "mark" /\ Mark[5] = "check" /\ Mark[6] = "read" /\ Mark[7] = "send"
    BY <1>1, <1>5, <1>7, Joins
  <2> HIDE DEF Mark
  <2> QED BY <2>1 DEF MarkPlan
<1>9. Ask = AskPlan
  <2>1. Ask \in Seq(Words) /\ Len(Ask) = 10
        /\ Ask[1] = "check" /\ Ask[2] = "check" /\ Ask[3] = "read" /\ Ask[4] = "pause" /\ Ask[5] = "check" /\ Ask[6] = "check" /\ Ask[7] = "read" /\ Ask[8] = "compare" /\ Ask[9] = "begin" /\ Ask[10] = "send"
    BY <1>1, <1>6, <1>7, Joins
  <2> HIDE DEF Ask
  <2> QED BY <2>1 DEF AskPlan
<1> USE DEF Opening, MarkTail, AskTail
<1>10. CASE ~Writes
  <2>1. Tool!Plan = ReadOnly BY <1>10 DEF Tool!Plan, Tool!Building, Writes
  <2> HIDE DEF ReadOnly
  <2> QED BY <1>10, <1>4, <2>1
<1>11. CASE Writes /\ tool.gated
  <2>1. Tool!Plan = Ask BY <1>11 DEF Tool!Plan, Tool!Building, Writes
  <2> HIDE DEF Ask
  <2> QED BY <1>11, <1>9, <2>1
<1>12. CASE Writes /\ ~tool.gated
  <2>1. Tool!Plan = Mark BY <1>12 DEF Tool!Plan, Tool!Building, Writes
  <2> HIDE DEF Mark
  <2> QED BY <1>12, <1>8, <2>1
<1> QED BY <1>10, <1>11, <1>12

\* Where each step of a plan is.
LEMMA Places ==
  ASSUME tool.gated \in BOOLEAN
  PROVE  /\ Len(Tool!Plan) = IF ~Writes THEN 4 ELSE IF tool.gated THEN 10 ELSE 7
         /\ DOMAIN Tool!Plan = 1 .. Len(Tool!Plan)
         /\ \A i \in DOMAIN Tool!Plan :
              /\ Tool!Plan[i] = "check" <=> i \in {1, 2} \/ (ForPerson /\ i \in {5, 6}) \/ (ForNobody /\ i = 5)
              /\ Tool!Plan[i] = "read" <=> i = 3 \/ (ForPerson /\ i = 7) \/ (ForNobody /\ i = 6)
              /\ Tool!Plan[i] = "pause" <=> ForPerson /\ i = 4
              /\ Tool!Plan[i] = "compare" <=> ForPerson /\ i = 8
              /\ Tool!Plan[i] = "begin" <=> ForPerson /\ i = 9
              /\ Tool!Plan[i] = "mark" <=> ForNobody /\ i = 4
              /\ Tool!Plan[i] = "send" <=> i = Len(Tool!Plan)
<1>1. CASE ~Writes
  <2>1. Tool!Plan = ReadPlan BY <1>1, PlanIs
  <2>2. Len(ReadPlan) = 4 /\ DOMAIN ReadPlan = 1 .. 4 BY DEF ReadPlan
  <2>3. \A i \in 1 .. 4 : i = 1 \/ i = 2 \/ i = 3 \/ i = 4 OBVIOUS
  <2>4. ~ForPerson /\ ~ForNobody BY <1>1 DEF ForPerson, ForNobody
  <2>5. ReadPlan[1] = "check" /\ ReadPlan[2] = "check" /\ ReadPlan[3] = "read" /\ ReadPlan[4] = "send" BY DEF ReadPlan
  <2> QED BY <1>1, <2>1, <2>2, <2>3, <2>4, <2>5
<1>2. CASE Writes /\ tool.gated
  <2>1. Tool!Plan = AskPlan BY <1>2, PlanIs
  <2>2. Len(AskPlan) = 10 /\ DOMAIN AskPlan = 1 .. 10 BY DEF AskPlan
  <2>3. \A i \in 1 .. 10 : i = 1 \/ i = 2 \/ i = 3 \/ i = 4 \/ i = 5 \/ i = 6 \/ i = 7 \/ i = 8 \/ i = 9 \/ i = 10 OBVIOUS
  <2>4. ForPerson /\ ~ForNobody BY <1>2 DEF ForPerson, ForNobody
  <2>5. /\ AskPlan[1] = "check" /\ AskPlan[2] = "check" /\ AskPlan[3] = "read" /\ AskPlan[4] = "pause" /\ AskPlan[5] = "check"
        /\ AskPlan[6] = "check" /\ AskPlan[7] = "read" /\ AskPlan[8] = "compare" /\ AskPlan[9] = "begin" /\ AskPlan[10] = "send"
    BY DEF AskPlan
  <2> QED BY <1>2, <2>1, <2>2, <2>3, <2>4, <2>5
<1>3. CASE Writes /\ ~tool.gated
  <2>1. Tool!Plan = MarkPlan BY <1>3, PlanIs
  <2>2. Len(MarkPlan) = 7 /\ DOMAIN MarkPlan = 1 .. 7 BY DEF MarkPlan
  <2>3. \A i \in 1 .. 7 : i = 1 \/ i = 2 \/ i = 3 \/ i = 4 \/ i = 5 \/ i = 6 \/ i = 7 OBVIOUS
  <2>4. ~ForPerson /\ ForNobody BY <1>3 DEF ForPerson, ForNobody
  <2>5. /\ MarkPlan[1] = "check" /\ MarkPlan[2] = "check" /\ MarkPlan[3] = "read" /\ MarkPlan[4] = "mark" /\ MarkPlan[5] = "check"
        /\ MarkPlan[6] = "read" /\ MarkPlan[7] = "send"
    BY DEF MarkPlan
  <2> QED BY <1>3, <2>1, <2>2, <2>3, <2>4, <2>5
<1> QED BY <1>1, <1>2, <1>3

\* When a step is taken, and when an intent is on record.
LEMMA Turns ==
  ASSUME ToolTyped
  PROVE  /\ step \in Nat /\ step <= Len(Tool!Plan) /\ Len(Tool!Plan) = IF ~Writes THEN 4 ELSE IF tool.gated THEN 10 ELSE 7
         /\ \A name : Tool!Takes(name) => outcome = "none" /\ step + 1 \in 1 .. Len(Tool!Plan)
         /\ Tool!Takes("check") =>
              step \in {0, 1} \/ (ForPerson /\ step \in {4, 5}) \/ (ForNobody /\ step = 4)
         /\ Tool!Takes("read") => Tool!Plan[step] = "check" /\ step \in DOMAIN Tool!Plan /\
              (step = 2 \/ (ForPerson /\ step = 6) \/ (ForNobody /\ step = 5))
         /\ Tool!Takes("pause") => ForPerson /\ step = 3
         /\ Tool!Takes("compare") => ForPerson /\ step = 7
         /\ Tool!Takes("begin") => ForPerson /\ step = 8
         /\ Tool!Takes("mark") => ForNobody /\ step = 3
         /\ Tool!Takes("send") => step + 1 = Len(Tool!Plan)
         /\ Tool!Intended <=> (ForPerson /\ step >= 9) \/ (ForNobody /\ step >= 4)
<1> DEFINE L == Len(Tool!Plan)
<1>1. /\ L = IF ~Writes THEN 4 ELSE IF tool.gated THEN 10 ELSE 7
      /\ DOMAIN Tool!Plan = 1 .. L /\ step \in 0 .. L
  BY Places DEF ToolTyped
<1>2. \A name : Tool!Takes(name) => outcome = "none" /\ step + 1 \in DOMAIN Tool!Plan /\ Tool!Plan[step + 1] = name
  BY <1>1 DEF Tool!Takes
<1>3. \A i \in DOMAIN Tool!Plan :
        /\ Tool!Plan[i] = "check" <=> i \in {1, 2} \/ (ForPerson /\ i \in {5, 6}) \/ (ForNobody /\ i = 5)
        /\ Tool!Plan[i] = "read" <=> i = 3 \/ (ForPerson /\ i = 7) \/ (ForNobody /\ i = 6)
        /\ Tool!Plan[i] = "pause" <=> ForPerson /\ i = 4
        /\ Tool!Plan[i] = "compare" <=> ForPerson /\ i = 8
        /\ Tool!Plan[i] = "begin" <=> ForPerson /\ i = 9
        /\ Tool!Plan[i] = "mark" <=> ForNobody /\ i = 4
        /\ Tool!Plan[i] = "send" <=> i = L
  BY Places DEF ToolTyped
<1>4. Tool!Intended <=> (ForPerson /\ step >= 9) \/ (ForNobody /\ step >= 4)
  <2>1. ASSUME NEW i \in 1 .. step
        PROVE  Tool!Plan[i] \in {"begin", "mark"} <=> (ForPerson /\ i = 9) \/ (ForNobody /\ i = 4)
    BY <1>1, <1>3
  <2>2. Tool!Intended <=> \E i \in 1 .. step : (ForPerson /\ i = 9) \/ (ForNobody /\ i = 4)
    BY <2>1 DEF Tool!Intended
  <2>3. ASSUME NEW i \in 1 .. step, (ForPerson /\ i = 9) \/ (ForNobody /\ i = 4)
        PROVE  (ForPerson /\ step >= 9) \/ (ForNobody /\ step >= 4)
    BY <1>1, <2>3
  <2>4. CASE ForPerson /\ step >= 9
    <3>1. 9 \in 1 .. step BY <1>1, <2>4
    <3> QED BY <2>2, <2>4, <3>1
  <2>5. CASE ForNobody /\ step >= 4
    <3>1. 4 \in 1 .. step BY <1>1, <2>5
    <3> QED BY <2>2, <2>5, <3>1
  <2>6. CASE ~((ForPerson /\ step >= 9) \/ (ForNobody /\ step >= 4))
    <3>1. ~Tool!Intended BY <2>2, <2>3, <2>6
    <3> QED BY <2>6, <3>1
  <2> QED BY <2>4, <2>5, <2>6
<1>5. Tool!Takes("read") => Tool!Plan[step] = "check" /\ step \in DOMAIN Tool!Plan /\
              (step = 2 \/ (ForPerson /\ step = 6) \/ (ForNobody /\ step = 5))
  BY <1>1, <1>2, <1>3
<1>6. \A k \in Nat : step + 1 = k + 1 => step = k BY <1>1
<1> QED BY <1>1, <1>2, <1>3, <1>4, <1>5

\* A request is one, and says what the connection was.
LEMMA Requested == \A c : LET r == Tool!Request(c) IN
  r # Tool!Nothing /\ r.connection = c /\ r.payload = Tool!Payload(c) /\ r.raced = raced
<1>1. DOMAIN <<>> = {} OBVIOUS
<1> QED BY <1>1 DEF Tool!Request, Tool!Nothing

\* The tool is the same, and so is everything that depends on it alone.
LEMMA SameTool ==
  ASSUME tool' = tool
  PROVE  /\ Tool!Plan' = Tool!Plan /\ Writes' = Writes /\ ForPerson' = ForPerson /\ ForNobody' = ForNobody
         /\ \A c : Tool!Payload(c)' = Tool!Payload(c) /\ Tool!Allowed(c)' = Tool!Allowed(c)
         /\ \A r : IsRequest(r)' = IsRequest(r) /\ Sender(r)' = Sender(r)
BY DEF Tool!Plan, Writes, ForPerson, ForNobody, Tool!Payload, Tool!Allowed, IsRequest, Sender, Tool!Nothing, Tool!Building

\* Every action keeps the invariant.
LEMMA EditKeeps == ToolInv /\ Tool!Edit => ToolInv'
<1> SUFFICES ASSUME ToolInv, Tool!Edit PROVE ToolInv' OBVIOUS
<1>1. /\ UNCHANGED <<tool, step, prepared, reviewed, sent, outcome>> /\ raced' = TRUE /\ late' = TRUE
  BY DEF Tool!Edit
<1>2. ToolTyped' BY <1>1, SameTool DEF ToolInv, ToolTyped
<1>3. Reviews' BY <1>1, SameTool DEF ToolInv, Reviews
<1>4. Checks' BY <1>1, SameTool DEF ToolInv, Checks
<1>5. Late' BY <1>1, SameTool DEF ToolInv, Late, Order
<1>6. Outcomes' BY <1>1, SameTool DEF ToolInv, Outcomes
<1>7. Tool!SentAsReviewed' /\ Tool!UncertainForCause' /\ Tool!SenderChecked'
  BY <1>1, SameTool DEF ToolInv, Tool!SentAsReviewed, Tool!UncertainForCause, Tool!SenderChecked, Writes
<1> QED BY <1>2, <1>3, <1>4, <1>5, <1>6, <1>7 DEF ToolInv

\* A refusal says that it is uncertain only when an edit stopped it.
LEMMA RefusalKeeps == ToolInv /\ outcome = "none" /\ (Tool!Intended => late) /\ Tool!Refuse => ToolInv'
<1> SUFFICES ASSUME ToolInv, outcome = "none", Tool!Intended => late, Tool!Refuse PROVE ToolInv' OBVIOUS
<1>1. /\ UNCHANGED <<connection, edits, tool, step, prepared, reviewed, sent, raced, late>>
      /\ outcome' = IF Tool!Intended THEN "uncertain" ELSE "refused"
  BY DEF Tool!Refuse
<1>2. Tool!Intended => Writes BY Turns DEF ToolInv, ForPerson, ForNobody
<1>3. ToolTyped' BY <1>1, SameTool DEF ToolInv, ToolTyped
<1>4. Reviews' BY <1>1, SameTool DEF ToolInv, Reviews
<1>5. Checks' BY <1>1, SameTool DEF ToolInv, Checks
<1>6. Late' BY <1>1, SameTool DEF ToolInv, Late, Order
<1>7. Outcomes' BY <1>1, <1>2, SameTool DEF ToolInv, Outcomes
<1>8. Tool!SentAsReviewed' /\ Tool!SenderChecked'
  BY <1>1, SameTool DEF ToolInv, Tool!SentAsReviewed, Tool!SenderChecked, Writes
<1>9. Tool!UncertainForCause' BY <1>1, SameTool DEF ToolInv, Tool!UncertainForCause, Writes, Outcomes
<1> QED BY <1>3, <1>4, <1>5, <1>6, <1>7, <1>8, <1>9 DEF ToolInv

LEMMA CheckKeeps == ToolInv /\ Tool!Check => ToolInv'
<1> SUFFICES ASSUME ToolInv, Tool!Check PROVE ToolInv' OBVIOUS
<1>1. /\ outcome = "none" /\ step \in Nat /\ step + 1 <= Len(Tool!Plan)
      /\ step \in {0, 1} \/ (ForPerson /\ step \in {4, 5}) \/ (ForNobody /\ step = 4)
      /\ Tool!Takes("check") /\ ToolTyped
      /\ Tool!Intended <=> (ForPerson /\ step >= 9) \/ (ForNobody /\ step >= 4)
  BY Turns DEF ToolInv, Tool!Check
<1>2. CASE ~Tool!Allowed(connection)
  <2>1. Tool!Refuse BY <1>2 DEF Tool!Check
  <2>2. Tool!Intended => late BY <1>1, <1>2 DEF ToolInv, Late, Order, ForPerson, ForNobody
  <2> QED BY <1>1, <2>1, <2>2, RefusalKeeps
<1>3. CASE Tool!Allowed(connection)
  <2>1. /\ step' = step + 1 /\ raced' = FALSE /\ late' = (late /\ Tool!Intended)
        /\ UNCHANGED <<connection, edits, tool, sent, outcome, prepared, reviewed>>
    BY <1>3 DEF Tool!Check, Tool!Continue
  <2>2. step' \in 0 .. Len(Tool!Plan)' BY <1>1, <2>1, SameTool
  <2>3. ToolTyped' BY <2>1, <2>2, SameTool DEF ToolInv, ToolTyped
  <2>4. Reviews'
    <3>1. ForPerson /\ step + 1 >= 4 => step >= 4 BY <1>1 DEF ForPerson, ForNobody
    <3> QED BY <1>1, <2>1, <3>1, SameTool DEF ToolInv, Reviews
  <2>5. Checks'
    <3>1. step + 1 >= 3 => step >= 3 BY <1>1
    <3>2. Writes => tool.writes BY <1>3 DEF Tool!Allowed, Writes
    <3>3. tool.call[1] = "email" => connection.sender BY <1>3 DEF Tool!Allowed
    <3> QED BY <1>1, <2>1, <3>1, <3>2, <3>3, SameTool DEF ToolInv, Checks
  <2>6. Late'
    <3>1. ForPerson => ~(step + 1 >= 8) BY <1>1 DEF ForPerson, ForNobody
    <3>2. Writes /\ ~tool.gated => ~(step + 1 >= 6) BY <1>1 DEF ForPerson, ForNobody
    <3> QED BY <1>1, <1>3, <2>1, <3>1, <3>2, SameTool DEF ToolInv, Late, Order
  <2>7. Outcomes'
    <3>1. ForPerson => sent = {} BY <1>1 DEF ToolInv, Outcomes, ForPerson
    <3> QED BY <1>1, <2>1, <3>1, SameTool DEF ToolInv, Outcomes
  <2>8. Tool!SentAsReviewed' /\ Tool!SenderChecked' /\ Tool!UncertainForCause'
    BY <1>1, <2>1, SameTool DEF ToolInv, Tool!SentAsReviewed, Tool!SenderChecked, Tool!UncertainForCause, Writes
  <2> QED BY <2>3, <2>4, <2>5, <2>6, <2>7, <2>8 DEF ToolInv
<1> QED BY <1>2, <1>3

LEMMA ReadKeeps == ToolInv /\ Tool!Read => ToolInv'
<1> SUFFICES ASSUME ToolInv, Tool!Read PROVE ToolInv' OBVIOUS
<1>1. /\ outcome = "none" /\ step \in Nat /\ step + 1 <= Len(Tool!Plan)
      /\ Tool!Plan[step] = "check" /\ step \in DOMAIN Tool!Plan
      /\ step = 2 \/ (ForPerson /\ step = 6) \/ (ForNobody /\ step = 5)
      /\ ToolTyped
  BY Turns DEF ToolInv, Tool!Read
<1>2. /\ step' = step + 1 /\ prepared' = Tool!Request(connection)
      /\ UNCHANGED <<connection, edits, tool, sent, outcome, reviewed, raced, late>>
  BY DEF Tool!Read, Tool!Continue
<1>3. prepared' # Tool!Nothing /\ prepared'.connection = connection /\ prepared'.payload = Tool!Payload(connection)
      /\ prepared'.raced = raced
  BY <1>2, Requested
<1>4. step' \in 0 .. Len(Tool!Plan)' BY <1>1, <1>2, SameTool
<1>5. ToolTyped' BY <1>2, <1>4, SameTool DEF ToolInv, ToolTyped
<1>6. Reviews'
  <2>1. ForPerson /\ step + 1 >= 4 => step >= 4 BY <1>1 DEF ForPerson, ForNobody
  <2> QED BY <1>1, <1>2, <2>1, SameTool DEF ToolInv, Reviews
<1>7. Checks'
  <2>1. tool.call[1] = "email" => raced \/ connection.sender BY <1>1 DEF ToolInv, Checks
  <2>2. IsRequest(prepared') /\ Sender(prepared') BY <1>3, <2>1 DEF IsRequest, Sender
  <2>3. IsRequest(prepared)' /\ Sender(prepared)' BY <1>2, <2>2, SameTool DEF IsRequest, Sender, Tool!Nothing, Tool!Payload
  <2>4. Writes => tool.writes BY <1>1 DEF ToolInv, Checks
  <2>5. step + 1 \notin DOMAIN Tool!Plan \/ Tool!Plan[step + 1] # "check" BY DEF Tool!Read, Tool!Takes
  <2> QED BY <1>2, <2>3, <2>4, <2>5, SameTool DEF Checks
<1>8. Late'
  <2>1. ForPerson => ~(step + 1 >= 8) BY <1>1 DEF ForPerson, ForNobody
  <2> QED BY <1>1, <1>2, <1>3, <2>1, SameTool DEF ToolInv, Late, Order, Writes
<1>9. Outcomes'
  <2>1. ForPerson => sent = {} BY <1>1 DEF ToolInv, Outcomes, ForPerson
  <2> QED BY <1>1, <1>2, <2>1, SameTool DEF ToolInv, Outcomes
<1>10. Tool!SentAsReviewed' /\ Tool!SenderChecked' /\ Tool!UncertainForCause'
  BY <1>2, SameTool DEF ToolInv, Tool!SentAsReviewed, Tool!SenderChecked, Tool!UncertainForCause, Writes
<1> QED BY <1>5, <1>6, <1>7, <1>8, <1>9, <1>10 DEF ToolInv

LEMMA PauseKeeps == ToolInv /\ Tool!Pause => ToolInv'
<1> SUFFICES ASSUME ToolInv, Tool!Pause PROVE ToolInv' OBVIOUS
<1>1. /\ outcome = "none" /\ step = 3 /\ ForPerson /\ Len(Tool!Plan) = 10 /\ ToolTyped
      /\ step + 1 \in 1 .. Len(Tool!Plan) /\ Tool!Plan[step + 1] = "pause"
  BY Turns DEF ToolInv, Tool!Pause, Tool!Takes, ForPerson
<1>2. /\ step' = step + 1 /\ reviewed' = prepared
      /\ UNCHANGED <<connection, edits, tool, sent, outcome, prepared, raced, late>>
  BY DEF Tool!Pause, Tool!Continue
<1>3. IsRequest(prepared) /\ Sender(prepared) /\ sent = {} BY <1>1 DEF ToolInv, Checks, Outcomes, ForPerson
<1>4. ToolTyped'
  <2>1. step' = 4 /\ Len(Tool!Plan)' = 10 BY <1>1, <1>2, SameTool
  <2> QED BY <1>1, <1>2, <2>1, SameTool DEF ToolTyped
<1>5. Reviews' BY <1>1, <1>2, <1>3, SameTool DEF Reviews, IsRequest, Tool!Nothing
<1>6. Checks' BY <1>1, <1>2, <1>3, SameTool DEF ToolInv, Checks
<1>7. Late' BY <1>1, <1>2, SameTool DEF Late, ForPerson
<1>8. Outcomes' BY <1>1, <1>2, <1>3, SameTool DEF ToolInv, Outcomes
<1>9. Tool!SentAsReviewed' /\ Tool!SenderChecked' /\ Tool!UncertainForCause'
  BY <1>1, <1>2, <1>3, SameTool DEF Tool!SentAsReviewed, Tool!SenderChecked, Tool!UncertainForCause
<1> QED BY <1>4, <1>5, <1>6, <1>7, <1>8, <1>9 DEF ToolInv

LEMMA CompareKeeps == ToolInv /\ Tool!Compare => ToolInv'
<1> SUFFICES ASSUME ToolInv, Tool!Compare PROVE ToolInv' OBVIOUS
<1>1. /\ outcome = "none" /\ step = 7 /\ ForPerson /\ Len(Tool!Plan) = 10 /\ ToolTyped
      /\ step + 1 \in 1 .. Len(Tool!Plan) /\ Tool!Plan[step + 1] = "compare" /\ ~Tool!Intended
  BY Turns DEF ToolInv, Tool!Compare, Tool!Takes, ForPerson, ForNobody
<1>2. CASE ~(prepared.payload = reviewed.payload /\ Tool!StillSaved(reviewed))
  BY <1>1, <1>2, RefusalKeeps DEF Tool!Compare
<1>3. CASE prepared.payload = reviewed.payload /\ Tool!StillSaved(reviewed)
  <2>1. step' = step + 1 /\ UNCHANGED <<connection, edits, tool, sent, outcome, prepared, reviewed, raced, late>>
    BY <1>3 DEF Tool!Compare, Tool!Continue
  <2>2. ToolTyped'
    <3>1. step' = 8 /\ Len(Tool!Plan)' = 10 BY <1>1, <2>1, SameTool
    <3> QED BY <1>1, <2>1, <3>1, SameTool DEF ToolTyped
  <2>3. Reviews' BY <1>1, <2>1, SameTool DEF ToolInv, Reviews
  <2>4. Checks' BY <1>1, <2>1, SameTool DEF ToolInv, Checks
  <2>5. Late' BY <1>1, <1>3, <2>1, SameTool DEF Late, ForPerson, Tool!StillSaved
  <2>6. Outcomes' BY <1>1, <2>1, SameTool DEF ToolInv, Outcomes, ForPerson
  <2>7. Tool!SentAsReviewed' /\ Tool!SenderChecked' /\ Tool!UncertainForCause'
    BY <2>1, SameTool DEF ToolInv, Tool!SentAsReviewed, Tool!SenderChecked, Tool!UncertainForCause, Writes
  <2> QED BY <2>2, <2>3, <2>4, <2>5, <2>6, <2>7 DEF ToolInv
<1> QED BY <1>2, <1>3

LEMMA IntendKeeps == ToolInv /\ Tool!Intend => ToolInv'
<1> SUFFICES ASSUME ToolInv, Tool!Intend PROVE ToolInv' OBVIOUS
<1>1. /\ outcome = "none" /\ ToolTyped
      /\ (ForPerson /\ step = 8) \/ (ForNobody /\ step = 3)
      /\ step + 1 \in 1 .. Len(Tool!Plan) /\ Tool!Plan[step + 1] # "check"
  BY Turns DEF ToolInv, Tool!Intend, Tool!Takes
<1>2. step' = step + 1 /\ UNCHANGED <<connection, edits, tool, sent, outcome, prepared, reviewed, raced, late>>
  BY DEF Tool!Intend, Tool!Continue
<1>3. Writes /\ sent = {}
  <2>1. Writes BY <1>1 DEF ForPerson, ForNobody
  <2> QED BY <1>1, <2>1 DEF ToolInv, Outcomes
<1>4. ToolTyped' BY <1>1, <1>2, SameTool DEF ToolInv, ToolTyped
<1>5. Reviews' BY <1>1, <1>2, SameTool DEF ToolInv, Reviews, ForPerson, ForNobody
<1>6. Checks' BY <1>1, <1>2, SameTool DEF ToolInv, Checks
<1>7. Late' BY <1>1, <1>2, SameTool DEF ToolInv, Late, Order, ForPerson, ForNobody
<1>8. Outcomes' BY <1>1, <1>2, <1>3, SameTool DEF ToolInv, Outcomes
<1>9. Tool!SentAsReviewed' /\ Tool!SenderChecked' /\ Tool!UncertainForCause'
  BY <1>2, SameTool DEF ToolInv, Tool!SentAsReviewed, Tool!SenderChecked, Tool!UncertainForCause, Writes
<1> QED BY <1>4, <1>5, <1>6, <1>7, <1>8, <1>9 DEF ToolInv

LEMMA AgainKeeps == ToolInv /\ Tool!Again => ToolInv'
<1> SUFFICES ASSUME ToolInv, Tool!Again PROVE ToolInv' OBVIOUS
<1>1. /\ step' = Tool!Attempt /\ outcome' = "none" /\ step > Tool!Attempt
      /\ UNCHANGED <<connection, edits, tool, prepared, reviewed, sent, raced, late>>
      /\ outcome = "none" \/ (outcome = "transient" /\ ~Writes)
  <2>1. outcome = "none" \/ outcome = "transient" BY DEF Tool!Again
  <2>2. outcome = "transient" => ~Writes BY DEF ToolInv, Outcomes
  <2>3. /\ step' = Tool!Attempt /\ outcome' = "none" /\ step > Tool!Attempt
        /\ UNCHANGED <<connection, edits, tool, prepared, reviewed, sent, raced, late>>
    BY DEF Tool!Again
  <2> QED BY <2>1, <2>2, <2>3
<1>2. Tool!Attempt = IF reviewed # Tool!Nothing THEN 4 ELSE 0 BY DEF Tool!Attempt
<1>3. ToolTyped /\ step \in Nat /\ step <= Len(Tool!Plan) /\ step' <= step /\ step' \in Nat
  BY <1>1, <1>2, Turns DEF ToolInv
<1>4. ToolTyped' BY <1>1, <1>3, SameTool DEF ToolTyped
<1>5. Reviews' BY <1>1, <1>2, <1>3, SameTool DEF ToolInv, Reviews
<1>6. Checks'
  <2>1. step' = 4 => ForPerson BY <1>1, <1>2 DEF ToolInv, Reviews
  <2>2. step' = 4 => Tool!Plan[4] # "check"
    <3>1. ForPerson => Len(Tool!Plan) = 10 /\ DOMAIN Tool!Plan = 1 .. 10 /\ Tool!Plan[4] = "pause"
      <4>1. tool.gated \in BOOLEAN BY <1>3 DEF ToolTyped
      <4>2. ForPerson => Len(Tool!Plan) = 10 BY <4>1, Places DEF ForPerson
      <4>3. ForPerson => 4 \in DOMAIN Tool!Plan BY <4>1, <4>2, Places
      <4> QED BY <4>1, <4>2, <4>3, Places
    <3> QED BY <2>1, <3>1
  <2>3. 0 \notin DOMAIN Tool!Plan BY <1>3, Places DEF ToolTyped
  <2>4. step' = 0 \/ step' = 4 BY <1>1, <1>2
  <2>5. step' >= 3 => step >= 3 BY <1>3
  <2>6. step' > 0 => step > 0 BY <1>3
  <2> QED BY <1>1, <2>2, <2>3, <2>4, <2>5, <2>6, SameTool DEF ToolInv, Checks
<1>7. Late'
  <2>1. ~(step' >= 8) /\ ~(step' >= 6) BY <1>1, <1>2
  <2>2. ~tool.gated => ~(step' >= 2) BY <1>1, <1>2 DEF ToolInv, Reviews, ForPerson
  <2> QED BY <1>1, <2>1, <2>2, SameTool DEF Late
<1>8. Outcomes'
  <2>1. Writes => sent = {} BY <1>1 DEF ToolInv, Outcomes
  <2> QED BY <1>1, <2>1, SameTool DEF Outcomes, ForPerson
<1>9. Tool!SentAsReviewed' /\ Tool!SenderChecked' /\ Tool!UncertainForCause'
  BY <1>1, SameTool DEF ToolInv, Tool!SentAsReviewed, Tool!SenderChecked, Tool!UncertainForCause, Writes
<1> QED BY <1>4, <1>5, <1>6, <1>7, <1>8, <1>9 DEF ToolInv

LEMMA SendKeeps == ToolInv /\ Tool!Send => ToolInv'
<1> SUFFICES ASSUME ToolInv, Tool!Send PROVE ToolInv' OBVIOUS
<1>1. /\ outcome = "none" /\ ToolTyped /\ step \in Nat /\ step + 1 = Len(Tool!Plan)
      /\ Len(Tool!Plan) = IF ~Writes THEN 4 ELSE IF tool.gated THEN 10 ELSE 7
      /\ Tool!Intended <=> (ForPerson /\ step >= 9) \/ (ForNobody /\ step >= 4)
  BY Turns DEF ToolInv, Tool!Send
<1>2. /\ step \in Nat /\ step >= 3 /\ step >= 2 /\ step > 0 /\ step + 1 >= 4 /\ Len(Tool!Plan) \in Nat
      /\ IsRequest(prepared) /\ Sender(prepared)
  <2>1. step \in Nat /\ step >= 3 /\ Len(Tool!Plan) \in Nat BY <1>1
  <2> QED BY <2>1 DEF ToolInv, Checks
<1>3. CASE ~Tool!StillSaved(Tool!Sending)
  <2>1. Tool!Refuse BY <1>3 DEF Tool!Send
  <2>2. Tool!Intended => late
    <3>1. CASE ForPerson
      <4>1. step = 9 /\ reviewed # Tool!Nothing BY <1>1, <3>1 DEF ToolInv, Reviews, ForPerson
      <4> QED BY <1>3, <3>1, <4>1 DEF ToolInv, Late, Tool!StillSaved, Tool!Sending
    <3>2. CASE ForNobody
      <4>1. step = 6 /\ reviewed = Tool!Nothing BY <1>1, <3>2 DEF ToolInv, Reviews, ForPerson, ForNobody
      <4> QED BY <1>3, <3>2, <4>1 DEF ToolInv, Late, Tool!StillSaved, Tool!Sending, ForNobody
    <3> QED BY <1>1, <3>1, <3>2
  <2> QED BY <1>1, <2>1, <2>2, RefusalKeeps
<1>4. CASE Tool!StillSaved(Tool!Sending)
  <2> DEFINE one == [request |-> Tool!Sending, with |-> Tool!Sending.connection, saved |-> connection]
  <2>1. /\ sent' = sent \cup {one} /\ step' = step + 1
        /\ \E answer \in Tool!Answers : outcome' = Tool!Taken(answer)
        /\ UNCHANGED <<connection, edits, tool, prepared, reviewed, raced, late>>
    BY <1>4 DEF Tool!Send
  <2>2. one.request = Tool!Sending /\ one.with = Tool!Sending.connection /\ one.saved = connection OBVIOUS
  <2> HIDE DEF one
  <2>3. /\ outcome' \in {"done", "uncertain", "transient", "failed"}
        /\ Writes => outcome' \in {"done", "uncertain"}
        /\ ~Writes => outcome' # "uncertain"
    BY <2>1 DEF Tool!Taken, Writes
  <2>4. one \in sent' BY <2>1
  <2>5. ToolTyped'
    <3>1. step' = Len(Tool!Plan)' /\ Len(Tool!Plan)' \in Nat BY <1>1, <1>2, <2>1, SameTool
    <3> QED BY <1>1, <2>1, <2>3, <3>1, SameTool DEF ToolTyped
  <2>6. Reviews'
    <3>1. ForPerson => step >= 4 BY <1>1 DEF ForPerson
    <3>2. step' >= 4 BY <1>2, <2>1
    <3> QED BY <2>1, <3>1, <3>2, SameTool DEF ToolInv, Reviews
  <2>7. Checks'
    <3>1. step + 1 \in DOMAIN Tool!Plan => Tool!Plan[step + 1] # "check" BY DEF Tool!Send, Tool!Takes
    <3>2. step > 0 BY <1>2
    <3> QED BY <1>2, <2>1, <3>1, <3>2, SameTool DEF ToolInv, Checks
  <2>8. Late'
    <3>1. ForPerson => step >= 8 BY <1>1 DEF ForPerson
    <3>2. Writes /\ ~tool.gated => step >= 6 BY <1>1
    <3>3. step >= 2 BY <1>2
    <3> QED BY <2>1, <3>1, <3>2, <3>3, SameTool DEF ToolInv, Late, Order
  <2>9. Outcomes'
    <3>1. step' = Len(Tool!Plan)' BY <1>1, <2>1, SameTool
    <3> QED BY <2>1, <2>3, <3>1, SameTool DEF Outcomes
  <2>10. IsRequest(Tool!Sending) /\ Sender(Tool!Sending)
    BY <1>2 DEF ToolInv, Reviews, Tool!Sending
  <2>11. Tool!SentAsReviewed'
    <3>1. /\ one.with = one.saved /\ one.request.payload = Tool!Payload(one.with)
          /\ reviewed # Tool!Nothing => one.request.payload = reviewed.payload /\ one.with = reviewed.connection
          /\ Writes => tool.writes /\ (tool.gated => reviewed # Tool!Nothing)
      <4>1. one.with = one.saved BY <1>4, <2>2 DEF Tool!StillSaved
      <4>2. one.request.payload = Tool!Payload(one.with) BY <2>2, <2>10 DEF IsRequest
      <4>3. reviewed # Tool!Nothing => one.request.payload = reviewed.payload /\ one.with = reviewed.connection
        BY <2>2 DEF Tool!Sending
      <4>4. Writes => tool.writes BY <1>2 DEF ToolInv, Checks
      <4>5. Writes /\ tool.gated => reviewed # Tool!Nothing BY <1>1 DEF ToolInv, Reviews, ForPerson
      <4> QED BY <4>1, <4>2, <4>3, <4>4, <4>5
    <3> QED BY <2>1, <3>1, SameTool DEF ToolInv, Tool!SentAsReviewed, Writes
  <2>12. Tool!SenderChecked'
    <3>1. tool.call[1] = "email" /\ ~one.with.sender => one.request.raced BY <2>2, <2>10 DEF Sender
    <3> QED BY <2>1, <3>1 DEF ToolInv, Tool!SenderChecked
  <2>13. Tool!UncertainForCause' BY <2>3, <2>4 DEF Tool!UncertainForCause
  <2> QED BY <2>5, <2>6, <2>7, <2>8, <2>9, <2>11, <2>12, <2>13 DEF ToolInv
<1> QED BY <1>3, <1>4

\* The invariant holds at the start, and every step keeps it.
LEMMA ToolStart == Tool!Init => ToolInv
<1> SUFFICES ASSUME Tool!Init PROVE ToolInv OBVIOUS
<1>1. /\ step = 0 /\ prepared = Tool!Nothing /\ reviewed = Tool!Nothing /\ sent = {} /\ outcome = "none"
      /\ tool.writes \in BOOLEAN /\ tool.gated \in BOOLEAN
  BY DEF Tool!Init
<1>2. 0 \notin DOMAIN Tool!Plan /\ Len(Tool!Plan) \in Nat BY <1>1, Places
<1>3. ToolTyped BY <1>1, <1>2 DEF ToolTyped
<1>4. Reviews /\ Checks /\ Late /\ Outcomes BY <1>1, <1>2 DEF Reviews, Checks, Late, Outcomes
<1>5. Tool!SentAsReviewed /\ Tool!UncertainForCause /\ Tool!SenderChecked
  BY <1>1 DEF Tool!SentAsReviewed, Tool!UncertainForCause, Tool!SenderChecked
<1> QED BY <1>3, <1>4, <1>5 DEF ToolInv

LEMMA ToolStep == ToolInv /\ [Tool!Next]_(Tool!vars) => ToolInv'
<1>1. CASE UNCHANGED Tool!vars
  BY <1>1 DEF Tool!vars, ToolInv, ToolTyped, Reviews, Checks, Late, Order, Outcomes, IsRequest, Sender, ForPerson, Writes,
       Tool!Plan, Tool!Building, Tool!Payload, Tool!Allowed, Tool!Nothing, Tool!SentAsReviewed, Tool!UncertainForCause, Tool!SenderChecked
<1> QED BY <1>1, EditKeeps, CheckKeeps, ReadKeeps, PauseKeeps, CompareKeeps, IntendKeeps, SendKeeps, AgainKeeps DEF Tool!Next

\* A request is a writing one exactly when its call is held to be a write.
LEMMA WritesKnown == Tool!WritesAreKnown
BY DEF Tool!WritesAreKnown, Tool!Calls, Tool!IsWrite, Tool!Method

\* What leaves goes where it was checked and shown to go, however the connection is
\* edited, and a refusal is told apart from an unknown outcome
\* (execute_prepared, worker.py).
THEOREM SentWhereShown == Tool!Spec => [](Tool!SentAsReviewed /\ Tool!UncertainForCause /\ Tool!SenderChecked)
<1>1. ToolInv => Tool!SentAsReviewed /\ Tool!UncertainForCause /\ Tool!SenderChecked BY DEF ToolInv
<1> QED BY ToolStart, ToolStep, <1>1, PTL DEF Tool!Spec

-----------------------------------------------------------------------------
(***************************************************************************)
(* Conditions: what a Switch decides, and what editing a comparison leaves.*)
(***************************************************************************)
CONSTANTS Scale, Magnitude, Precision, FloatRange, IntDigits, TextDigits, MaxExponent
Decide == INSTANCE Conditions

\* The first case whose comparison does not come out false is the one taken, or
\* fails the Switch.
LEMMA FirstOf ==
  ASSUME NEW value, NEW cases, Len(cases) = 3, NEW k \in 1 .. 3,
         Decide!Evaluate(value, cases[k].when) # "false",
         \A j \in 1 .. k - 1 : Decide!Evaluate(value, cases[j].when) = "false"
  PROVE  Decide!Choose(value, cases) =
           IF Decide!Evaluate(value, cases[k].when) = "error" THEN "error" ELSE cases[k].id
<1> DEFINE Test(x) == Decide!Evaluate(value, x.when) # "false"
           I == {i \in 1 .. Len(cases) : Test(cases[i])}
<1>1. k \in I /\ \A i \in I : k <= i /\ i \in Int OBVIOUS
<1>2. Decide!Min(I) = k
  <2>1. \A y \in I : (\A z \in I : y <= z) => y = k BY <1>1
  <2> HIDE DEF I
  <2> QED BY <1>1, <2>1 DEF Decide!Min
<1>3. Decide!SelectInSeq(cases, Test) = k BY <1>1, <1>2 DEF Decide!SelectInSeq
<1>4. k # 0 OBVIOUS
<1> QED BY <1>3, <1>4 DEF Decide!Choose

\* The comparisons of a Condition (with operands out of texts) and the one a
\* Switch makes of the same field with another operator.
Operators == {"contains", "eq", "ne", "gt", "gte", "lt", "lte", "in", "empty"}
Conditions(texts) ==
  [operator : Operators, field : Seq(STRING), operands : Seq(texts), number : BOOLEAN, sensitive : BOOLEAN]

Tested(c, op) == [c EXCEPT !.operator = op, !.number = TRUE]

\* How two numbers are to be related.
Related(op, a, b) ==
  \/ (op = "eq" /\ a = b) \/ (op = "ne" /\ a # b)
  \/ (op = "gt" /\ a > b) \/ (op = "gte" /\ a >= b)
  \/ (op = "lt" /\ a < b) \/ (op = "lte" /\ a <= b)

\* With one operand, comparing as numbers fails or says how the two are related.
LEMMA Compared ==
  ASSUME NEW texts, NEW c \in Conditions(texts), Len(c.operands) = 1, NEW op \in {"eq", "ne", "gt", "gte", "lt", "lte"},
         NEW value
  PROVE  LET v == Decide!ReadField(value, c.field)
             n == Decide!AsNumber(v)
             m == Decide!ParseNumber(c.operands[1])
         IN  Decide!Evaluate(value, Tested(c, op)) =
               IF v = Decide!NoValue \/ n = Decide!NoNumber THEN "error"
               ELSE Decide!Holds(Related(op, Decide!Amount(n), Decide!Amount(m)))
<1> DEFINE d == Tested(c, op)
           v == Decide!ReadField(value, c.field)
           n == Decide!AsNumber(v)
           m == Decide!ParseNumber(c.operands[1])
<1>1. d.operator = op /\ d.number = TRUE /\ d.field = c.field /\ d.operands = c.operands
  BY DEF Tested, Conditions
<1>2. c.operands \in Seq(texts) BY DEF Conditions
<1>3. Decide!ToSet(c.operands) = {c.operands[1]} BY <1>2 DEF Decide!ToSet
<1>4. {Decide!Amount(Decide!ParseNumber(text)) : text \in Decide!ToSet(d.operands)} = {Decide!Amount(m)}
  BY <1>1, <1>3
<1> HIDE DEF d
<1>5. Decide!Numeric(d) /\ op # "empty" BY <1>1 DEF Decide!Numeric
<1>6. Decide!Evaluate(value, d) =
        IF v = Decide!NoValue \/ n = Decide!NoNumber THEN "error" ELSE Decide!NumberDecides(d, n)
  BY <1>1, <1>5 DEF Decide!Evaluate
<1>7. Decide!NumberDecides(d, n) = Decide!Holds(Related(op, Decide!Amount(n), Decide!Amount(m)))
  <2> DEFINE a == Decide!Amount(n)
             b == Decide!Amount(m)
             targets == {Decide!Amount(Decide!ParseNumber(text)) : text \in Decide!ToSet(d.operands)}
             R == CASE d.operator \in {"in", "eq"} -> a \in targets
                    [] d.operator = "ne" -> a \notin targets
                    [] d.operator = "gt" -> \A t \in targets : a > t
                    [] d.operator = "gte" -> \A t \in targets : a >= t
                    [] d.operator = "lt" -> \A t \in targets : a < t
                    [] d.operator = "lte" -> \A t \in targets : a <= t
  <2>1. Decide!NumberDecides(d, n) = Decide!Holds(R) BY DEF Decide!NumberDecides
  <2>2. targets = {b} BY <1>4
  <2> HIDE DEF a, b, targets
  <2>3. R <=> Related(op, a, b) BY <1>1, <2>2 DEF Related
  <2> HIDE DEF R
  <2>4. Decide!Holds(R) = Decide!Holds(Related(op, a, b)) BY <2>3 DEF Decide!Holds
  <2> QED BY <2>1, <2>4 DEF a, b
<1> QED BY <1>6, <1>7 DEF d

\* A numeral stands for a whole number of the smallest places.
Carried(d) == d # Decide!NoNumber => Decide!Amount(d) \in Int

\* THEOREM: a Switch with a case for less, equal and more than a bound takes the
\* same one of the three whatever the order of its cases, or fails in each; and
\* of a comparison and its opposite exactly one holds, or neither can be made.
\* Of all values, fields and bounds that are carried exactly (switch.py:5-6,
\* conditions.py).
THEOREM OnePathTaken ==
  ASSUME NEW texts, NEW c \in Conditions(texts), NEW value,
         Carried(Decide!AsNumber(Decide!ReadField(value, c.field))),
         \A text \in texts : Carried(Decide!ParseNumber(text))
  PROVE  Decide!PathsSplit(value, c)
<1> DEFINE test(op) == [id |-> op, when |-> [c EXCEPT !.operator = op, !.number = TRUE]]
           taken(ops) == Decide!Choose(value, [k \in 1 .. 3 |-> test(ops[k])])
           orders == {ops \in [1 .. 3 -> {"lt", "eq", "gt"}] : Decide!ToSet(ops) = {"lt", "eq", "gt"}}
           v == Decide!ReadField(value, c.field)
           n == Decide!AsNumber(v)
           m == Decide!ParseNumber(c.operands[1])
           bad == v = Decide!NoValue \/ n = Decide!NoNumber
           a == Decide!Amount(n)
           b == Decide!Amount(m)
           result(op) == Decide!Evaluate(value, test(op).when)
<1> SUFFICES ASSUME Len(c.operands) = 1, Decide!Valid(test("eq").when)
             PROVE  /\ \E route \in {"lt", "eq", "gt", "error"} : \A ops \in orders : taken(ops) = route
                    /\ \A pair \in {<<"lt", "gte">>, <<"gt", "lte">>, <<"eq", "ne">>} :
                         LET one == result(pair[1])
                             other == result(pair[2])
                         IN  IF one = "error" THEN other = "error" ELSE {one, other} = {"true", "false"}
  BY DEF Decide!PathsSplit
<1> DEFINE Ops == {"eq", "ne", "gt", "gte", "lt", "lte"}
<1>1. \A op \in Ops : result(op) = IF bad THEN "error" ELSE Decide!Holds(Related(op, a, b))
  BY Compared DEF Tested
<1>2. ~bad => a \in Int /\ b \in Int
  <2>1. c.operands \in Seq(texts) /\ c.operands[1] \in texts BY DEF Conditions
  <2>2. test("eq").when.operands = c.operands /\ Decide!Numeric(test("eq").when) BY DEF Conditions, Decide!Numeric
  <2>3. c.operands[1] \in Decide!ToSet(c.operands) BY <2>1 DEF Decide!ToSet
  <2>4. m # Decide!NoNumber BY <2>2, <2>3 DEF Decide!Valid
  <2> QED BY <2>1, <2>4 DEF Carried
<1> HIDE DEF bad, a, b, result, taken, test
<1>3. \A op \in Ops : result(op) = IF bad THEN "error" ELSE IF Related(op, a, b) THEN "true" ELSE "false"
  BY <1>1 DEF Decide!Holds
<1>4. ~bad => /\ Related("lt", a, b) <=> a < b
              /\ Related("eq", a, b) <=> a = b
              /\ Related("gt", a, b) <=> a > b
              /\ Related("gte", a, b) <=> ~(a < b)
              /\ Related("lte", a, b) <=> ~(a > b)
              /\ Related("ne", a, b) <=> ~(a = b)
  BY <1>2 DEF Related
<1>5. \A pair \in {<<"lt", "gte">>, <<"gt", "lte">>, <<"eq", "ne">>} :
         LET one == result(pair[1])
             other == result(pair[2])
         IN  IF one = "error" THEN other = "error" ELSE {one, other} = {"true", "false"}
  BY <1>3, <1>4
<1>6. \E route \in {"lt", "eq", "gt", "error"} : \A ops \in orders : taken(ops) = route
  <2> DEFINE route == IF bad THEN "error" ELSE IF a < b THEN "lt" ELSE IF a = b THEN "eq" ELSE "gt"
  <2>1. \A op \in {"lt", "eq", "gt"} :
          /\ bad => result(op) = "error"
          /\ ~bad => result(op) = IF op = route THEN "true" ELSE "false"
    BY <1>2, <1>3, <1>4
  <2>2. route \in {"lt", "eq", "gt", "error"} /\ (~bad => route \in {"lt", "eq", "gt"}) OBVIOUS
  <2> HIDE DEF route
  <2>3. ASSUME NEW ops \in orders PROVE taken(ops) = route
    <3> DEFINE cases == [k \in 1 .. 3 |-> test(ops[k])]
    <3>1. Len(cases) = 3 /\ \A k \in 1 .. 3 : cases[k] = test(ops[k]) OBVIOUS
    <3>2. \A k \in 1 .. 3 : ops[k] \in {"lt", "eq", "gt"} /\ cases[k].id = ops[k]
                             /\ Decide!Evaluate(value, cases[k].when) = result(ops[k])
      BY <3>1 DEF test, result
    <3>3. taken(ops) = Decide!Choose(value, cases) BY DEF taken
    <3> HIDE DEF cases
    <3>4. CASE bad
      <4>1. Decide!Evaluate(value, cases[1].when) = "error" BY <2>1, <3>2, <3>4
      <4>2. \A j \in 1 .. 1 - 1 : Decide!Evaluate(value, cases[j].when) = "false" OBVIOUS
      <4>3. Decide!Choose(value, cases) = "error" BY <3>1, <4>1, <4>2, FirstOf
      <4> QED BY <3>3, <3>4, <4>3 DEF route
    <3>5. CASE ~bad
      <4>1. PICK k \in 1 .. 3 : ops[k] = route /\ \A j \in 1 .. k - 1 : ops[j] # route
        <5>1. \E j \in 1 .. 3 : ops[j] = route BY <2>2, <3>5 DEF Decide!ToSet
        <5>2. ops[1] = route \/ ops[2] = route \/ ops[3] = route BY <5>1
        <5>3. CASE ops[1] = route BY <5>3
        <5>4. CASE ops[1] # route /\ ops[2] = route
          <6>1. \A j \in 1 .. 2 - 1 : j = 1 OBVIOUS
          <6> QED BY <5>4, <6>1
        <5>5. CASE ops[1] # route /\ ops[2] # route /\ ops[3] = route
          <6>1. \A j \in 1 .. 3 - 1 : j = 1 \/ j = 2 OBVIOUS
          <6> QED BY <5>5, <6>1
        <5> QED BY <5>2, <5>3, <5>4, <5>5
      <4>2. Decide!Evaluate(value, cases[k].when) = "true" BY <2>1, <3>2, <3>5, <4>1
      <4>3. \A j \in 1 .. k - 1 : Decide!Evaluate(value, cases[j].when) = "false"
        <5>1. \A j \in 1 .. k - 1 : j \in 1 .. 3 OBVIOUS
        <5> QED BY <2>1, <3>2, <3>5, <4>1, <5>1
      <4>4. Decide!Choose(value, cases) = cases[k].id BY <3>1, <4>2, <4>3, FirstOf
      <4> QED BY <3>2, <3>3, <4>1, <4>4
    <3> QED BY <3>4, <3>5
  <2> QED BY <2>2, <2>3
<1> QED BY <1>5, <1>6

\* THEOREM: switching a comparison to two operators in turn leaves settings the
\* API accepts, unless it asks for an operand that is shown empty or shows one
\* that is not a number: nothing that is not shown is left behind
\* (withConditionOperator, workflow.ts; conditions.py).
THEOREM SwitchingLosesNothing ==
  ASSUME NEW texts, NEW c \in Conditions(texts), Decide!Valid(c)
  PROVE  Decide!SwitchingLeavesNothing(c, Operators)
<1> SUFFICES ASSUME NEW first \in Operators, NEW second \in Operators
             PROVE  LET after == Decide!Switched(Decide!Switched(Decide!Settings(c.operator, c.operands, c.number), first), second)
                        shown == after.operands[Decide!Operand(second)]
                    IN  ~Decide!Accepted(after) =>
                          \/ shown = <<>> /\ second # "empty"
                          \/ Decide!Numeric(after) /\ \E k \in DOMAIN shown : Decide!ParseNumber(shown[k]) = Decide!NoNumber
  BY DEF Decide!SwitchingLeavesNothing
<1> DEFINE old == Decide!Settings(c.operator, c.operands, c.number)
           between == Decide!Switched(old, first)
           after == Decide!Switched(between, second)
           OperandNames == {"contains", "compare_to", "options", "none"}
           shown == after.operands[Decide!Operand(second)]
<1>1. \A op : Decide!Operand(op) \in OperandNames BY DEF Decide!Operand
<1>2. /\ after.operator = second /\ DOMAIN after.operands = OperandNames
      /\ after.number = (c.number /\ first \in {"eq", "ne", "in"} /\ second \in {"eq", "ne", "in"})
      /\ \A x \in OperandNames : after.operands[x] =
           IF x = Decide!Operand(second) /\ x = Decide!Operand(first) /\ x = Decide!Operand(c.operator) THEN c.operands ELSE <<>>
  <2>1. /\ old.operator = c.operator /\ old.number = c.number /\ DOMAIN old.operands = OperandNames
        /\ \A x \in OperandNames : old.operands[x] = IF x = Decide!Operand(c.operator) THEN c.operands ELSE <<>>
        /\ DOMAIN old = {"operator", "number", "operands"}
    BY DEF Decide!Settings
  <2> HIDE DEF old
  <2>2. /\ between.number = (c.number /\ first \in {"eq", "ne", "in"}) /\ DOMAIN between.operands = OperandNames
        /\ \A x \in OperandNames : between.operands[x] = IF x = Decide!Operand(first) THEN old.operands[x] ELSE <<>>
        /\ DOMAIN between = {"operator", "number", "operands"}
    BY <2>1 DEF Decide!Switched
  <2> HIDE DEF between
  <2>3. /\ after.operator = second /\ DOMAIN after.operands = OperandNames
        /\ after.number = (between.number /\ second \in {"eq", "ne", "in"})
        /\ \A x \in OperandNames : after.operands[x] = IF x = Decide!Operand(second) THEN between.operands[x] ELSE <<>>
    BY <2>2 DEF Decide!Switched
  <2> QED BY <2>1, <2>2, <2>3
<1> HIDE DEF after
<1>3. shown = IF Decide!Operand(second) = Decide!Operand(first) /\ Decide!Operand(second) = Decide!Operand(c.operator)
              THEN c.operands ELSE <<>>
  BY <1>1, <1>2
<1> SUFFICES ASSUME shown # <<>> \/ second = "empty",
                    Decide!Numeric(after) => \A k \in DOMAIN shown : Decide!ParseNumber(shown[k]) # Decide!NoNumber
             PROVE  Decide!Accepted(after)
  BY DEF after
<1> HIDE DEF shown
<1> DEFINE kept == [operator |-> after.operator, operands |-> after.operands[Decide!Operand(after.operator)], number |-> after.number]
<1>4. kept.operator = second /\ kept.operands = shown /\ kept.number = after.number BY <1>2 DEF shown
<1>5. Decide!Numeric(kept) <=> Decide!Numeric(after) BY <1>2, <1>4 DEF Decide!Numeric
<1> HIDE DEF kept
<1>6. kept.number => second \in {"eq", "ne", "in"} BY <1>2, <1>4
<1>7. Decide!Numeric(kept) => \A text \in Decide!ToSet(shown) : Decide!ParseNumber(text) # Decide!NoNumber
  BY <1>5 DEF Decide!ToSet
<1>8. Decide!Valid(kept)
  <2>1. CASE second = "empty"
    <3>1. shown = <<>> BY <1>3, <2>1 DEF Decide!Operand, Decide!Valid
    <3>2. ~Decide!Numeric(kept) BY <1>4, <1>6, <2>1 DEF Decide!Numeric, Decide!Ordering
    <3> QED BY <1>4, <1>6, <2>1, <3>1, <3>2 DEF Decide!Valid
  <2>2. CASE second = "in"
    <3>1. kept.operands # <<>> BY <1>4, <2>2
    <3> QED BY <1>4, <1>6, <1>7, <2>2, <3>1 DEF Decide!Valid
  <2>3. CASE second \notin {"empty", "in"}
    <3>1. shown = c.operands /\ Decide!Operand(second) = Decide!Operand(c.operator) BY <1>3, <2>3
    <3>2. c.operator \notin {"empty", "in"}
      <4>1. Decide!Operand(second) \in {"contains", "compare_to"} BY <2>3 DEF Decide!Operand
      <4> QED BY <3>1, <4>1 DEF Decide!Operand
    <3>3. Len(shown) = 1 BY <3>1, <3>2 DEF Decide!Valid
    <3> QED BY <1>4, <1>6, <1>7, <2>3, <3>3 DEF Decide!Valid
  <2> QED BY <2>1, <2>2, <2>3
<1>9. \A other \in DOMAIN after.operands \ {Decide!Operand(second)} : after.operands[other] = <<>> BY <1>2
<1> QED BY <1>2, <1>8, <1>9 DEF Decide!Accepted, kept
-----------------------------------------------------------------------------
(***************************************************************************)
(* Evidence: the passages behind the answers of a run.                     *)
(* The invariant says of every label that is known, in a registry, an      *)
(* answer, a checkpoint or a saved item, that it means one chunk and is    *)
(* not above the counter of the attempt; of what is saved, that it is not  *)
(* above the counter of the row either, from which the next attempt counts.*)
(***************************************************************************)
CONSTANTS Chunks, Capacity, TopK, MaxAttempts
VARIABLES live, counter, saved, deps, attempt, got, cites, response
Passages == INSTANCE Evidence

\* What holds of 0, and of n + 1 if of n, holds of all numbers: the numbers up to one
\* for which it fails would be mapped into themselves, and none of them to 0.
LEMMA SetInduction ==
  ASSUME NEW T, 0 \in T, \A n \in Nat : n \in T => n + 1 \in T
  PROVE  Nat \subseteq T
<1> SUFFICES ASSUME NEW k \in Nat, k \notin T PROVE FALSE
  OBVIOUS
<1> DEFINE S == {n \in 0 .. k : n \in T}
           f == [n \in S |-> n + 1]
<1>1. IsFiniteSet(S)
  <2>1. IsFiniteSet(0 .. k) BY FS_Interval
  <2>2. S \in SUBSET (0 .. k) OBVIOUS
  <2> HIDE DEF S
  <2> QED BY <2>1, <2>2, FS_Subset
<1>2. 0 \in S OBVIOUS
<1>3. \A n \in S : n \in Nat /\ n + 1 \in S /\ n + 1 # 0
  <2> TAKE n \in S
  <2>1. n \in Nat /\ n <= k /\ n # k OBVIOUS
  <2>2. n + 1 \in T BY <2>1
  <2> QED BY <2>1, <2>2
<1> HIDE DEF S
<1>4. f \in Injection(S, S)
  <2>1. f \in [S -> S] BY <1>3
  <2>2. \A a, b \in S : f[a] = f[b] => a = b BY <1>3
  <2> HIDE DEF f
  <2> QED BY <2>1, <2>2 DEF Injection, IsInjective
<1>5. f \in Surjection(S, S) BY <1>1, <1>4, FS_Injection
<1>6. \E n \in S : f[n] = 0
  <2> HIDE DEF f
  <2> QED BY <1>2, <1>5 DEF Surjection
<1> QED BY <1>3, <1>6

\* A set of numbers has a least one.
LEMMA LeastIs ==
  ASSUME NEW S \in SUBSET Nat, S # {}
  PROVE  \E x \in S : \A y \in S : x <= y
<1> SUFFICES ASSUME \A x \in S : \E y \in S : ~(x <= y) PROVE FALSE
  OBVIOUS
<1> DEFINE T == {n \in Nat : \A x \in S : x > n}
<1>1. 0 \in T
  <2>1. 0 \notin S OBVIOUS
  <2> QED BY <2>1
<1>2. ASSUME NEW n \in Nat, n \in T PROVE n + 1 \in T
  <2>1. \A x \in S : x >= n + 1 BY <1>2
  <2>2. n + 1 \notin S BY <2>1
  <2> QED BY <2>1, <2>2
<1> HIDE DEF T
<1>3. Nat \subseteq T BY <1>1, <1>2, SetInduction
<1>4. PICK x \in S : TRUE OBVIOUS
<1>5. x \in T BY <1>3
<1> QED BY <1>4, <1>5 DEF T

\* The values the registry and a run have.
PassageSet == [label : Nat, chunk : Chunks, cited : BOOLEAN]
RunStates == [registry : Seq(PassageSet), pins : SUBSET Nat, rejected : SUBSET Nat, reused : BOOLEAN, counter : Nat]
Entries(ps) == {ps[i] : i \in DOMAIN ps}

\* Labels are distinct; a label is given to a chunk; one is in a registry, is cited
\* there, or is cited there or was rejected.
Distinct(ps) == \A i, j \in DOMAIN ps : ps[i].label = ps[j].label => i = j
Labelled(ps, l, c) == \E e \in Entries(ps) : e.label = l /\ e.chunk = c
Here(r, l) == \E e \in Entries(r.registry) : e.label = l
Cited(r, l) == \E e \in Entries(r.registry) : e.label = l /\ e.cited
Holds(r, l) == Cited(r, l) \/ l \in r.rejected

\* What remembering one source or several leaves of a registry.
Continues(r, s) ==
  /\ s \in RunStates /\ s.pins = r.pins /\ s.reused = r.reused /\ s.counter >= r.counter
  /\ Distinct(s.registry) /\ r.rejected \subseteq s.rejected
  /\ \A l \in r.pins : Here(r, l) => Here(s, l)
  /\ \A l : Cited(r, l) => Cited(s, l)

\* The higher of two counters.
LEMMA MaxOfTwo ==
  ASSUME NEW a \in Nat, NEW b \in Nat
  PROVE  /\ Passages!High({a, b}) \in {a, b} /\ Passages!High({a, b}) >= a /\ Passages!High({a, b}) >= b
<1> DEFINE S == {a, b} \cup {0}
<1>1. \E m \in S : \A y \in S : m >= y
  <2>1. CASE a <= b BY <2>1
  <2>2. CASE b <= a BY <2>2
  <2> QED BY <2>1, <2>2
<1>2. Passages!Max(S) \in S /\ \A y \in S : Passages!Max(S) >= y BY <1>1 DEF Passages!Max
<1> QED BY <1>2 DEF Passages!High

\* What appending to a list makes of it.
LEMMA AppendIs ==
  ASSUME NEW X, NEW g \in Seq(X), NEW e \in X
  PROVE  LET h == Append(g, e) IN
         /\ h \in Seq(X) /\ DOMAIN h = 1 .. Len(g) + 1 /\ DOMAIN g = 1 .. Len(g) /\ Len(g) \in Nat
         /\ h[Len(g) + 1] = e /\ \A i \in 1 .. Len(g) : h[i] = g[i]
OBVIOUS

\* What is left of a list without one of its elements.
LEMMA Removed ==
  ASSUME NEW X, NEW s \in Seq(X), NEW i \in 1 .. Len(s)
  PROVE  /\ Passages!RemoveAt(s, i) \in Seq(X) /\ Len(Passages!RemoveAt(s, i)) = Len(s) - 1
         /\ \A j \in 1 .. Len(s) - 1 : Passages!RemoveAt(s, i)[j] = IF j < i THEN s[j] ELSE s[j + 1]
<1> DEFINE t == SubSeq(s, 1, i - 1)
           u == SubSeq(s, i + 1, Len(s))
<1>1. t \in Seq(X) /\ Len(t) = i - 1 /\ \A j \in 1 .. i - 1 : t[j] = s[j] OBVIOUS
<1>2. u \in Seq(X) /\ Len(u) = Len(s) - i /\ \A j \in 1 .. Len(s) - i : u[j] = s[i + j] OBVIOUS
<1>3. Len(s) \in Nat /\ i \in Nat /\ i >= 1 /\ i <= Len(s) OBVIOUS
<1>4. Passages!RemoveAt(s, i) = t \o u BY DEF Passages!RemoveAt
<1> HIDE DEF t, u
<1>5. /\ t \o u \in Seq(X) /\ Len(t \o u) = Len(t) + Len(u)
      /\ \A j \in 1 .. Len(t) + Len(u) : (t \o u)[j] = IF j <= Len(t) THEN t[j] ELSE u[j - Len(t)]
  <2>1. t \o u \in Seq(X) BY <1>1, <1>2
  <2> QED BY <1>1, <1>2, <2>1, ConcatProperties
<1>6. ASSUME NEW j \in 1 .. Len(s) - 1 PROVE (t \o u)[j] = IF j < i THEN s[j] ELSE s[j + 1]
  <2>1. CASE j < i
    <3>1. j \in 1 .. i - 1 /\ j <= Len(t) /\ j \in 1 .. Len(t) + Len(u) BY <1>1, <1>2, <1>3, <2>1
    <3> QED BY <1>1, <1>5, <2>1, <3>1
  <2>2. CASE ~(j < i)
    <3>1. j - (i - 1) \in 1 .. Len(s) - i /\ ~(j <= Len(t)) /\ j \in 1 .. Len(t) + Len(u) /\ j - Len(t) = j - (i - 1)
      BY <1>1, <1>2, <1>3, <2>2
    <3>2. (t \o u)[j] = u[j - (i - 1)] BY <1>5, <3>1
    <3>3. u[j - (i - 1)] = s[i + (j - (i - 1))] BY <1>2, <3>1
    <3>4. i + (j - (i - 1)) = j + 1 BY <1>3
    <3> QED BY <2>2, <3>2, <3>3, <3>4
  <2> QED BY <2>1, <2>2
<1> QED BY <1>1, <1>2, <1>3, <1>4, <1>5, <1>6

\* An entry that is new is appended: labels stay distinct.
LEMMA Appended ==
  ASSUME NEW g \in Seq(PassageSet), Distinct(g), NEW e \in PassageSet, \A x \in Entries(g) : x.label # e.label
  PROVE  Append(g, e) \in Seq(PassageSet) /\ Distinct(Append(g, e)) /\ Entries(Append(g, e)) = Entries(g) \cup {e}
<1> DEFINE h == Append(g, e)
<1>1. /\ h \in Seq(PassageSet) /\ DOMAIN h = 1 .. Len(g) + 1 /\ DOMAIN g = 1 .. Len(g) /\ Len(g) \in Nat
      /\ h[Len(g) + 1] = e /\ \A i \in 1 .. Len(g) : h[i] = g[i]
  BY AppendIs
<1> HIDE DEF h
<1>2. Entries(h) = Entries(g) \cup {e}
  <2>1. ASSUME NEW x \in Entries(h) PROVE x \in Entries(g) \cup {e}
    <3>1. PICK i \in 1 .. Len(g) + 1 : x = h[i] BY <1>1 DEF Entries
    <3> QED BY <1>1, <3>1 DEF Entries
  <2>2. Entries(g) \subseteq Entries(h) BY <1>1 DEF Entries
  <2>3. e \in Entries(h) BY <1>1 DEF Entries
  <2> QED BY <2>1, <2>2, <2>3
<1>3. \A i \in 1 .. Len(g) : g[i].label # e.label BY <1>1 DEF Entries
<1>4. Distinct(h)
  <2> SUFFICES ASSUME NEW i \in 1 .. Len(g) + 1, NEW j \in 1 .. Len(g) + 1, h[i].label = h[j].label PROVE i = j
    BY <1>1 DEF Distinct
  <2>1. CASE i = Len(g) + 1 BY <1>1, <1>3, <2>1
  <2>2. CASE j = Len(g) + 1 BY <1>1, <1>3, <2>2
  <2>3. CASE i # Len(g) + 1 /\ j # Len(g) + 1
    <3>1. i \in 1 .. Len(g) /\ j \in 1 .. Len(g) BY <1>1, <2>3
    <3> QED BY <1>1, <3>1 DEF Distinct
  <2> QED BY <2>1, <2>2, <2>3
<1> QED BY <1>1, <1>2, <1>4 DEF h

\* An entry is evicted.
LEMMA Evicted ==
  ASSUME NEW g \in Seq(PassageSet), Distinct(g), NEW v \in DOMAIN g
  PROVE  LET t == Passages!RemoveAt(g, v) IN
         t \in Seq(PassageSet) /\ Distinct(t) /\ Entries(t) = Entries(g) \ {g[v]} /\ Len(t) = Len(g) - 1
<1> DEFINE t == Passages!RemoveAt(g, v)
           At(j) == IF j < v THEN j ELSE j + 1
<1>1. DOMAIN g = 1 .. Len(g) /\ Len(g) \in Nat /\ v \in 1 .. Len(g) OBVIOUS
<1>2. /\ t \in Seq(PassageSet) /\ Len(t) = Len(g) - 1
      /\ \A j \in 1 .. Len(g) - 1 : t[j] = IF j < v THEN g[j] ELSE g[j + 1]
  BY <1>1, Removed
<1> HIDE DEF t
<1>3. DOMAIN t = 1 .. Len(g) - 1 BY <1>2
<1>4. \A j \in 1 .. Len(g) - 1 : At(j) \in 1 .. Len(g) /\ At(j) # v /\ t[j] = g[At(j)] BY <1>1, <1>2
<1>5. ASSUME NEW i \in 1 .. Len(g), i # v PROVE \E j \in 1 .. Len(g) - 1 : t[j] = g[i]
  <2>1. CASE i < v
    <3>1. i \in 1 .. Len(g) - 1 /\ t[i] = g[i] BY <1>1, <1>2, <2>1
    <3> QED BY <3>1
  <2>2. CASE i > v
    <3>1. i - 1 \in 1 .. Len(g) - 1 /\ ~(i - 1 < v) /\ (i - 1) + 1 = i BY <1>1, <2>2
    <3>2. t[i - 1] = g[i] BY <1>2, <3>1
    <3> QED BY <3>1, <3>2
  <2> QED BY <1>1, <1>5, <2>1, <2>2
<1>6. Entries(t) = Entries(g) \ {g[v]}
  <2>1. ASSUME NEW x \in Entries(t) PROVE x \in Entries(g) /\ x # g[v]
    <3>1. PICK j \in 1 .. Len(g) - 1 : x = t[j] BY <1>3 DEF Entries
    <3>2. At(j) \in 1 .. Len(g) /\ At(j) # v /\ x = g[At(j)] BY <1>4, <3>1
    <3> HIDE DEF At
    <3>3. g[At(j)] # g[v] BY <1>1, <3>2 DEF Distinct
    <3> QED BY <1>1, <3>2, <3>3 DEF Entries
  <2>2. ASSUME NEW x \in Entries(g), x # g[v] PROVE x \in Entries(t)
    <3>1. PICK i \in 1 .. Len(g) : x = g[i] BY <1>1 DEF Entries
    <3>2. PICK j \in 1 .. Len(g) - 1 : t[j] = x BY <1>5, <2>2, <3>1
    <3> QED BY <1>3, <3>2 DEF Entries
  <2> QED BY <2>1, <2>2
<1>7. Distinct(t)
  <2> SUFFICES ASSUME NEW i \in 1 .. Len(g) - 1, NEW j \in 1 .. Len(g) - 1, t[i].label = t[j].label PROVE i = j
    BY <1>3 DEF Distinct
  <2>1. At(i) \in 1 .. Len(g) /\ At(j) \in 1 .. Len(g) /\ g[At(i)].label = g[At(j)].label BY <1>4
  <2>2. At(i) = At(j)
    <3> HIDE DEF At
    <3> QED BY <1>1, <2>1 DEF Distinct
  <2> QED BY <1>1, <2>2
<1> QED BY <1>2, <1>6, <1>7 DEF t

\* An entry is replaced by one with its label.
LEMMA Replaced ==
  ASSUME NEW g \in Seq(PassageSet), Distinct(g), NEW m \in DOMAIN g, NEW e \in PassageSet, e.label = g[m].label
  PROVE  LET h == [g EXCEPT ![m] = e] IN
         h \in Seq(PassageSet) /\ Distinct(h) /\ Entries(h) = (Entries(g) \ {g[m]}) \cup {e}
<1> DEFINE h == [g EXCEPT ![m] = e]
<1>1. h \in Seq(PassageSet) /\ DOMAIN h = DOMAIN g /\ \A i \in DOMAIN g : h[i] = IF i = m THEN e ELSE g[i] OBVIOUS
<1> HIDE DEF h
<1>2. \A i \in DOMAIN g : i # m => g[i] # g[m] BY DEF Distinct
<1>3. Entries(h) = (Entries(g) \ {g[m]}) \cup {e} BY <1>1, <1>2 DEF Entries
<1>4. Distinct(h) BY <1>1 DEF Distinct
<1> QED BY <1>1, <1>3, <1>4 DEF h

\* What remember_evidence makes of the registry with one source: labels stay distinct,
\* every entry was there or is the source, what is cited or pinned stays, and a cited
\* source is cited there or rejected.
LEMMA AdmitGives ==
  ASSUME NEW r \in RunStates, Distinct(r.registry), NEW p \in PassageSet
  PROVE  LET s == Passages!Admit(r, p) IN
         /\ Continues(r, s) /\ s.counter \in {r.counter, p.label} /\ s.counter >= p.label
         /\ \A e \in Entries(s.registry) :
              Labelled(r.registry, e.label, e.chunk) \/ (e.label = p.label /\ e.chunk = p.chunk)
         /\ p.cited => Holds(s, p.label)
<1> DEFINE g == r.registry
           entry == [p EXCEPT !.cited = @ \/ p.label \in Passages!Reserved]
           here == {i \in DOMAIN g : g[i].label = p.label}
           known == [r EXCEPT !.counter = Passages!High({@, p.label})]
           s == Passages!Admit(r, p)
           Goal == /\ Continues(r, s) /\ s.counter \in {r.counter, p.label} /\ s.counter >= p.label
                   /\ \A e \in Entries(s.registry) :
                        Labelled(r.registry, e.label, e.chunk) \/ (e.label = p.label /\ e.chunk = p.chunk)
                   /\ p.cited => Holds(s, p.label)
<1> SUFFICES Goal OBVIOUS
<1>1. /\ g \in Seq(PassageSet) /\ Distinct(g) /\ r.counter \in Nat /\ r.pins \subseteq Nat /\ r.rejected \subseteq Nat
      /\ DOMAIN g = 1 .. Len(g) /\ \A i \in DOMAIN g : g[i] \in PassageSet
  BY DEF RunStates
<1>2. /\ entry \in PassageSet /\ entry.label = p.label /\ entry.chunk = p.chunk /\ p.label \in Nat
      /\ p.cited => entry.cited
  BY DEF PassageSet
<1>3. /\ known \in RunStates /\ known.registry = g /\ known.pins = r.pins /\ known.reused = r.reused
      /\ known.rejected = r.rejected /\ known.counter \in {r.counter, p.label}
      /\ known.counter >= r.counter /\ known.counter >= p.label
  <2>1. /\ Passages!High({r.counter, p.label}) \in {r.counter, p.label}
        /\ Passages!High({r.counter, p.label}) >= r.counter /\ Passages!High({r.counter, p.label}) >= p.label
    BY <1>1, <1>2, MaxOfTwo
  <2>2. Passages!High({r.counter, p.label}) \in Nat BY <1>1, <1>2, <2>1
  <2> QED BY <2>1, <2>2 DEF RunStates
<1>4. ASSUME NEW h, NEW v, h \in Seq(PassageSet), Distinct(h),
             \A e \in Entries(g) : e = v => ~e.cited /\ e.label \notin r.pins,
             Entries(h) = (Entries(g) \ {v}) \cup {entry},
             s = [known EXCEPT !.registry = h]
      PROVE  Goal
  <2> HIDE DEF entry, known, s, here, g
  <2>1. /\ s \in RunStates /\ s.registry = h /\ s.pins = r.pins /\ s.reused = r.reused /\ s.rejected = r.rejected
        /\ s.counter \in {r.counter, p.label} /\ s.counter >= r.counter /\ s.counter >= p.label
    BY <1>3, <1>4 DEF RunStates
  <2>2. \A l \in r.pins : Here(r, l) => Here(s, l) BY <1>4, <2>1 DEF Here, g
  <2>3. \A l : Cited(r, l) => Cited(s, l) BY <1>4, <2>1 DEF Cited, g
  <2>4. Continues(r, s) BY <1>4, <2>1, <2>2, <2>3 DEF Continues
  <2>5. \A e \in Entries(s.registry) :
          Labelled(r.registry, e.label, e.chunk) \/ (e.label = p.label /\ e.chunk = p.chunk)
    BY <1>2, <1>4, <2>1 DEF Labelled, g
  <2>6. p.cited => Holds(s, p.label) BY <1>2, <1>4, <2>1 DEF Holds, Cited
  <2> QED BY <2>1, <2>4, <2>5, <2>6
<1>5. CASE here # {}
  <2> DEFINE m == Passages!Min(here)
             e2 == [g[m] EXCEPT !.cited = @ \/ entry.cited]
             h == [g EXCEPT ![m] = e2]
  <2>1. here \subseteq Nat BY <1>1
  <2>2. m \in here
    <3> HIDE DEF here
    <3>1. \E x \in here : \A y \in here : x <= y BY <1>5, <2>1, LeastIs
    <3> QED BY <3>1 DEF Passages!Min
  <2>3. m \in DOMAIN g /\ g[m].label = p.label /\ g[m] \in PassageSet BY <1>1, <2>2
  <2>4. s = [known EXCEPT !.registry = h]
    BY <1>3, <1>5 DEF Passages!Admit
  <2> HIDE DEF m, entry, known, s, here
  <2>5. /\ e2 \in PassageSet /\ e2.label = p.label /\ e2.chunk = g[m].chunk
        /\ (g[m].cited => e2.cited) /\ (entry.cited => e2.cited)
    BY <1>2, <2>3 DEF PassageSet
  <2> HIDE DEF e2
  <2>6. h \in Seq(PassageSet) /\ Distinct(h) /\ Entries(h) = (Entries(g) \ {g[m]}) \cup {e2}
    BY <1>1, <2>3, <2>5, Replaced
  <2>7. g[m] \in Entries(g) BY <2>3 DEF Entries
  <2> HIDE DEF h, g
  <2>8. /\ s \in RunStates /\ s.registry = h /\ s.pins = r.pins /\ s.reused = r.reused /\ s.rejected = r.rejected
        /\ s.counter \in {r.counter, p.label} /\ s.counter >= r.counter /\ s.counter >= p.label
    BY <1>3, <2>4, <2>6 DEF RunStates
  <2>9. \A l \in r.pins : Here(r, l) => Here(s, l) BY <2>3, <2>5, <2>6, <2>8 DEF Here, g
  <2>10. ASSUME NEW l, Cited(r, l) PROVE Cited(s, l)
    <3>1. PICK e \in Entries(g) : e.label = l /\ e.cited BY <2>10 DEF Cited, g
    <3>2. CASE e = g[m]
      <4>1. e2.cited /\ e2.label = l BY <2>3, <2>5, <3>1, <3>2
      <4>2. e2 \in Entries(s.registry) BY <2>6, <2>8
      <4> QED BY <4>1, <4>2 DEF Cited
    <3>3. CASE e # g[m]
      <4>1. e \in Entries(s.registry) BY <2>6, <2>8, <3>3
      <4> QED BY <3>1, <4>1 DEF Cited
    <3> QED BY <3>2, <3>3
  <2>11. Continues(r, s) BY <2>6, <2>8, <2>9, <2>10 DEF Continues
  <2>12. \A e \in Entries(s.registry) :
           Labelled(r.registry, e.label, e.chunk) \/ (e.label = p.label /\ e.chunk = p.chunk)
    BY <2>3, <2>5, <2>6, <2>7, <2>8 DEF Labelled, g
  <2>13. ASSUME p.cited PROVE Holds(s, p.label)
    <3>1. e2.cited /\ e2.label = p.label BY <1>2, <2>5, <2>13
    <3>2. e2 \in Entries(s.registry) BY <2>6, <2>8
    <3> QED BY <3>1, <3>2 DEF Holds, Cited
  <2> QED BY <2>8, <2>11, <2>12, <2>13
<1>6. CASE here = {} /\ Len(g) < Capacity
  <2> DEFINE h == Append(g, entry)
             v == [p EXCEPT !.label = 0 - 1]
  <2>1. s = [known EXCEPT !.registry = h] BY <1>3, <1>6 DEF Passages!Admit
  <2>2. \A x \in Entries(g) : x.label # entry.label BY <1>2, <1>6 DEF Entries
  <2> HIDE DEF entry, known, here, s
  <2>3. h \in Seq(PassageSet) /\ Distinct(h) /\ Entries(h) = Entries(g) \cup {entry} BY <1>1, <1>2, <2>2, Appended
  <2>4. \A e \in Entries(g) : e # v
    <3>1. v.label = 0 - 1 BY DEF PassageSet
    <3>2. \A e \in Entries(g) : e.label \in Nat BY <1>1 DEF Entries, PassageSet
    <3> HIDE DEF v
    <3>3. ASSUME NEW e \in Entries(g), e = v PROVE FALSE
      <4>1. e.label \in Nat /\ e.label = 0 - 1 BY <3>1, <3>2, <3>3
      <4> QED BY <4>1
    <3> QED BY <3>3
  <2> HIDE DEF h, v, g
  <2>5. Entries(h) = (Entries(g) \ {v}) \cup {entry} BY <2>3, <2>4
  <2> HIDE DEF Goal
  <2> QED BY <1>4, <2>1, <2>3, <2>4, <2>5
<1>7. CASE here = {} /\ ~(Len(g) < Capacity) /\ Passages!Victims(r) # {}
  <2> DEFINE m == Passages!Min(Passages!Victims(r))
             t == Passages!RemoveAt(g, m)
             h == Append(t, entry)
             v == g[m]
  <2>1. s = [known EXCEPT !.registry = h] BY <1>3, <1>7 DEF Passages!Admit
  <2>2. m \in Passages!Victims(r)
    <3>1. Passages!Victims(r) \subseteq Nat BY <1>1 DEF Passages!Victims
    <3>2. \E x \in Passages!Victims(r) : \A y \in Passages!Victims(r) : x <= y BY <1>7, <3>1, LeastIs
    <3> QED BY <3>2 DEF Passages!Min
  <2>3. m \in DOMAIN g /\ ~v.cited /\ v.label \notin r.pins BY <2>2 DEF Passages!Victims
  <2>4. \A x \in Entries(g) : x.label # entry.label BY <1>2, <1>7 DEF Entries
  <2> HIDE DEF entry, known, here, s, m
  <2>5. t \in Seq(PassageSet) /\ Distinct(t) /\ Entries(t) = Entries(g) \ {v} BY <1>1, <2>3, Evicted
  <2> HIDE DEF t, v
  <2>6. h \in Seq(PassageSet) /\ Distinct(h) /\ Entries(h) = Entries(t) \cup {entry} BY <1>2, <2>4, <2>5, Appended
  <2> HIDE DEF h, g
  <2>7. Entries(h) = (Entries(g) \ {v}) \cup {entry} BY <2>5, <2>6
  <2> HIDE DEF Goal
  <2> QED BY <1>4, <2>1, <2>3, <2>6, <2>7
<1>8. CASE here = {} /\ ~(Len(g) < Capacity) /\ Passages!Victims(r) = {}
  <2>1. s = [known EXCEPT !.rejected = @ \cup {p.label}] BY <1>3, <1>8 DEF Passages!Admit
  <2> HIDE DEF entry, known, here, s
  <2>2. /\ s \in RunStates /\ s.registry = g /\ s.pins = r.pins /\ s.reused = r.reused
        /\ s.rejected = r.rejected \cup {p.label}
        /\ s.counter \in {r.counter, p.label} /\ s.counter >= r.counter /\ s.counter >= p.label
    BY <1>1, <1>2, <1>3, <2>1 DEF RunStates
  <2>3. Continues(r, s) BY <1>1, <2>2 DEF Continues, Here, Cited
  <2>4. \A e \in Entries(s.registry) : Labelled(r.registry, e.label, e.chunk) BY <2>2 DEF Labelled
  <2> QED BY <2>2, <2>3, <2>4 DEF Holds
<1> HIDE DEF Goal
<1> QED BY <1>5, <1>6, <1>7, <1>8

\* remember_evidence takes the sources one after another.
LEMMA RememberIs ==
  ASSUME NEW r \in RunStates, NEW ps \in Seq(PassageSet)
  PROVE  \E after : /\ after[0] = r /\ after[Len(ps)] = Passages!Remember(r, ps)
                    /\ \A k \in 1 .. Len(ps) : after[k] = Passages!Admit(after[k - 1], ps[k])
<1> DEFINE Is(g, m) == g = [k \in 0 .. m |-> IF k = 0 THEN r ELSE Passages!Admit(g[k - 1], ps[k])]
           T == {m \in Nat : \E g : Is(g, m)}
<1>1. 0 \in T
  <2> DEFINE g == [k \in 0 .. 0 |-> r]
  <2>1. \A k \in 0 .. 0 : k = 0 OBVIOUS
  <2>2. Is(g, 0) BY <2>1
  <2> HIDE DEF Is, g
  <2> QED BY <2>2
<1>2. ASSUME NEW m \in Nat, m \in T PROVE m + 1 \in T
  <2> HIDE DEF Is
  <2>0. PICK g : Is(g, m) BY <1>2
  <2> DEFINE h == [k \in 0 .. m + 1 |-> IF k = m + 1 THEN Passages!Admit(g[m], ps[m + 1]) ELSE g[k]]
  <2>1. \A k \in 0 .. m : g[k] = IF k = 0 THEN r ELSE Passages!Admit(g[k - 1], ps[k]) BY <2>0 DEF Is
  <2>2. /\ \A k \in 0 .. m : k \in 0 .. m + 1 /\ k # m + 1
        /\ m + 1 \in 0 .. m + 1 /\ m + 1 # 0 /\ (m + 1) - 1 = m /\ m \in 0 .. m
        /\ \A k \in 1 .. m : k - 1 \in 0 .. m
        /\ \A k \in 0 .. m + 1 : k \in 0 .. m \/ k = m + 1
        /\ \A k \in 0 .. m : k = 0 \/ (k \in 1 .. m /\ 0 \in 0 .. m)
    OBVIOUS
  <2>3. /\ \A k \in 0 .. m : h[k] = g[k]
        /\ h[m + 1] = Passages!Admit(g[m], ps[m + 1])
    BY <2>2
  <2>4. h = [k \in 0 .. m + 1 |-> h[k]] OBVIOUS
  <2> HIDE DEF h
  <2>5. ASSUME NEW k \in 0 .. m + 1 PROVE h[k] = IF k = 0 THEN r ELSE Passages!Admit(h[k - 1], ps[k])
    <3>1. CASE k = m + 1 BY <2>2, <2>3, <3>1
    <3>2. CASE k = 0 BY <2>1, <2>3, <3>2
    <3>3. CASE k # m + 1 /\ k # 0
      <4>1. k \in 0 .. m /\ k - 1 \in 0 .. m BY <2>2, <3>3
      <4> QED BY <2>1, <2>3, <3>3, <4>1
    <3> QED BY <3>1, <3>2, <3>3
  <2>6. Is(h, m + 1) BY <2>4, <2>5 DEF Is
  <2> QED BY <2>6
<1> HIDE DEF T
<1>3. Nat \subseteq T BY <1>1, <1>2, SetInduction
<1>4. Len(ps) \in Nat OBVIOUS
<1> DEFINE after == CHOOSE g : Is(g, Len(ps))
<1>5. Is(after, Len(ps))
  <2> HIDE DEF Is
  <2>1. \E g : Is(g, Len(ps)) BY <1>3, <1>4 DEF T
  <2> QED BY <2>1
<1>6. Passages!Remember(r, ps) = after[Len(ps)] BY DEF Passages!Remember
<1> HIDE DEF after
<1>7. \A k \in 0 .. Len(ps) : after[k] = IF k = 0 THEN r ELSE Passages!Admit(after[k - 1], ps[k]) BY <1>5
<1>8. /\ 0 \in 0 .. Len(ps)
      /\ \A k \in 1 .. Len(ps) : k \in 0 .. Len(ps) /\ k # 0
  BY <1>4
<1> HIDE DEF Is
<1> QED BY <1>6, <1>7, <1>8

\* What is retained of a batch is collected one source after another.
LEMMA RetainedIs ==
  ASSUME NEW r, NEW ps \in Seq(PassageSet)
  PROVE  \E kept : /\ kept[0] = <<>> /\ kept[Len(ps)] = Passages!Retained(r, ps)
                   /\ \A k \in 1 .. Len(ps) :
                        kept[k] = IF ps[k].label \in Passages!Labels(r.registry)
                                  THEN Append(kept[k - 1], ps[k]) ELSE kept[k - 1]
<1> DEFINE Next(x, k) == IF ps[k].label \in Passages!Labels(r.registry) THEN Append(x, ps[k]) ELSE x
           Is(g, m) == g = [k \in 0 .. m |-> IF k = 0 THEN <<>>
                                             ELSE IF ps[k].label \in Passages!Labels(r.registry)
                                             THEN Append(g[k - 1], ps[k]) ELSE g[k - 1]]
           T == {m \in Nat : \E g : Is(g, m)}
<1>1. 0 \in T
  <2> DEFINE g == [k \in 0 .. 0 |-> <<>>]
  <2>1. \A k \in 0 .. 0 : k = 0 OBVIOUS
  <2>2. Is(g, 0) BY <2>1
  <2> HIDE DEF Is, g
  <2> QED BY <2>2
<1>2. ASSUME NEW m \in Nat, m \in T PROVE m + 1 \in T
  <2> HIDE DEF Is
  <2>0. PICK g : Is(g, m) BY <1>2
  <2> DEFINE h == [k \in 0 .. m + 1 |-> IF k = m + 1 THEN Next(g[m], m + 1) ELSE g[k]]
  <2>1. \A k \in 0 .. m : g[k] = IF k = 0 THEN <<>> ELSE Next(g[k - 1], k) BY <2>0 DEF Is
  <2> HIDE DEF Next
  <2>2. /\ \A k \in 0 .. m : k \in 0 .. m + 1 /\ k # m + 1
        /\ m + 1 \in 0 .. m + 1 /\ m + 1 # 0 /\ (m + 1) - 1 = m /\ m \in 0 .. m
        /\ \A k \in 1 .. m : k - 1 \in 0 .. m
        /\ \A k \in 0 .. m + 1 : k \in 0 .. m \/ k = m + 1
        /\ \A k \in 0 .. m : k = 0 \/ (k \in 1 .. m /\ 0 \in 0 .. m)
    OBVIOUS
  <2>3. /\ \A k \in 0 .. m : h[k] = g[k]
        /\ h[m + 1] = Next(g[m], m + 1)
    BY <2>2
  <2>4. h = [k \in 0 .. m + 1 |-> h[k]] OBVIOUS
  <2> HIDE DEF h
  <2>5. ASSUME NEW k \in 0 .. m + 1 PROVE h[k] = IF k = 0 THEN <<>> ELSE Next(h[k - 1], k)
    <3>1. CASE k = m + 1 BY <2>2, <2>3, <3>1
    <3>2. CASE k = 0 BY <2>1, <2>3, <3>2
    <3>3. CASE k # m + 1 /\ k # 0
      <4>1. k \in 0 .. m /\ k - 1 \in 0 .. m BY <2>2, <3>3
      <4> QED BY <2>1, <2>3, <3>3, <4>1
    <3> QED BY <3>1, <3>2, <3>3
  <2>6. Is(h, m + 1) BY <2>4, <2>5 DEF Is, Next
  <2> QED BY <2>6
<1> HIDE DEF T
<1>3. Nat \subseteq T BY <1>1, <1>2, SetInduction
<1>4. Len(ps) \in Nat OBVIOUS
<1> DEFINE kept == CHOOSE g : Is(g, Len(ps))
<1>5. Is(kept, Len(ps))
  <2> HIDE DEF Is
  <2>1. \E g : Is(g, Len(ps)) BY <1>3, <1>4 DEF T
  <2> QED BY <2>1
<1>6. Passages!Retained(r, ps) = kept[Len(ps)] BY DEF Passages!Retained
<1> HIDE DEF kept
<1>7. \A k \in 0 .. Len(ps) : kept[k] = IF k = 0 THEN <<>> ELSE Next(kept[k - 1], k) BY <1>5
<1>8. /\ 0 \in 0 .. Len(ps)
      /\ \A k \in 1 .. Len(ps) : k \in 0 .. Len(ps) /\ k # 0
  BY <1>4
<1> HIDE DEF Is, Next
<1>9. kept[0] = <<>> /\ \A k \in 1 .. Len(ps) : kept[k] = Next(kept[k - 1], k) BY <1>7, <1>8
<1> QED BY <1>6, <1>9 DEF Next

\* What is left of a registry after two sources is left of it after both.
LEMMA ContinuesOn ==
  ASSUME NEW r \in RunStates, NEW s, NEW t, Continues(r, s), Continues(s, t)
  PROVE  Continues(r, t)
<1>1. r.counter \in Nat /\ s.counter \in Nat /\ t.counter \in Nat BY DEF Continues, RunStates
<1>2. t.counter >= r.counter BY <1>1 DEF Continues
<1> QED BY <1>2 DEF Continues

\* What remember_evidence makes of the registry with several sources.
LEMMA RememberGives ==
  ASSUME NEW r \in RunStates, Distinct(r.registry), NEW ps \in Seq(PassageSet)
  PROVE  LET s == Passages!Remember(r, ps) IN
         /\ Continues(r, s)
         /\ \A p \in Entries(ps) : s.counter >= p.label /\ (p.cited => Holds(s, p.label))
         /\ \A e \in Entries(s.registry) :
              Labelled(r.registry, e.label, e.chunk) \/ Labelled(ps, e.label, e.chunk)
<1>1. PICK after : /\ after[0] = r /\ after[Len(ps)] = Passages!Remember(r, ps)
                   /\ \A k \in 1 .. Len(ps) : after[k] = Passages!Admit(after[k - 1], ps[k])
  BY RememberIs
<1> DEFINE Good(k) ==
             /\ Continues(r, after[k])
             /\ \A i \in 1 .. k : /\ after[k].counter >= ps[i].label
                                  /\ ps[i].cited => Holds(after[k], ps[i].label)
             /\ \A e \in Entries(after[k].registry) :
                  Labelled(r.registry, e.label, e.chunk) \/ Labelled(ps, e.label, e.chunk)
           T == {k \in Nat : k <= Len(ps) => Good(k)}
<1>2. Len(ps) \in Nat /\ DOMAIN ps = 1 .. Len(ps) /\ \A i \in DOMAIN ps : ps[i] \in PassageSet OBVIOUS
<1>3. 0 \in T
  <2>1. r.counter \in Nat BY DEF RunStates
  <2>2. Continues(r, r) BY <2>1 DEF Continues
  <2>3. \A e \in Entries(r.registry) : Labelled(r.registry, e.label, e.chunk) BY DEF Labelled
  <2>4. \A i \in 1 .. 0 : FALSE OBVIOUS
  <2>5. Good(0) BY <1>1, <2>2, <2>3, <2>4
  <2> HIDE DEF Good
  <2> QED BY <2>5
<1>4. ASSUME NEW k \in Nat, k \in T PROVE k + 1 \in T
  <2> SUFFICES ASSUME k + 1 <= Len(ps) PROVE Good(k + 1)
    <3> HIDE DEF Good
    <3> QED OBVIOUS
  <2> DEFINE s == after[k]
             t == after[k + 1]
             p == ps[k + 1]
  <2>0. k <= Len(ps) /\ k + 1 \in 1 .. Len(ps) /\ (k + 1) - 1 = k BY <1>2
  <2>1. Good(k)
    <3> HIDE DEF Good
    <3> QED BY <1>4, <2>0
  <2>2. s \in RunStates /\ Distinct(s.registry) /\ p \in PassageSet BY <1>2, <2>0, <2>1 DEF Continues
  <2>3. t = Passages!Admit(s, p) BY <1>1, <2>0
  <2> HIDE DEF t, s, p
  <2>4. /\ Continues(s, t) /\ t.counter >= p.label
        /\ \A e \in Entries(t.registry) :
             Labelled(s.registry, e.label, e.chunk) \/ (e.label = p.label /\ e.chunk = p.chunk)
        /\ p.cited => Holds(t, p.label)
    BY <2>2, <2>3, AdmitGives
  <2>5. Continues(r, t) BY <2>1, <2>4, ContinuesOn DEF s
  <2>6. Labelled(ps, p.label, p.chunk) BY <1>2, <2>0 DEF Labelled, Entries, p
  <2>7. \A e \in Entries(t.registry) : Labelled(r.registry, e.label, e.chunk) \/ Labelled(ps, e.label, e.chunk)
    <3> TAKE e \in Entries(t.registry)
    <3>1. CASE Labelled(s.registry, e.label, e.chunk) BY <2>1, <3>1 DEF Labelled, s
    <3>2. CASE e.label = p.label /\ e.chunk = p.chunk BY <2>6, <3>2
    <3> QED BY <2>4, <3>1, <3>2
  <2>8. ASSUME NEW i \in 1 .. k + 1 PROVE t.counter >= ps[i].label /\ (ps[i].cited => Holds(t, ps[i].label))
    <3>1. CASE i = k + 1 BY <2>4, <3>1 DEF p
    <3>2. CASE i # k + 1
      <4>1. i \in 1 .. k /\ i \in DOMAIN ps BY <1>2, <2>0, <3>2
      <4>2. s.counter >= ps[i].label /\ (ps[i].cited => Holds(s, ps[i].label)) BY <2>1, <4>1 DEF s
      <4>3. s.counter \in Nat /\ t.counter \in Nat /\ t.counter >= s.counter /\ ps[i].label \in Nat
        BY <1>2, <2>2, <2>4, <4>1 DEF Continues, RunStates, PassageSet
      <4>4. t.counter >= ps[i].label BY <4>2, <4>3
      <4>5. ASSUME Holds(s, ps[i].label) PROVE Holds(t, ps[i].label) BY <2>4, <4>5 DEF Holds, Continues
      <4> QED BY <4>2, <4>4, <4>5
    <3> QED BY <3>1, <3>2
  <2> QED BY <2>5, <2>7, <2>8 DEF t
<1> HIDE DEF T
<1>5. Nat \subseteq T BY <1>3, <1>4, SetInduction
<1>6. Good(Len(ps))
  <2> HIDE DEF Good
  <2> QED BY <1>2, <1>5 DEF T
<1>7. \A p \in Entries(ps) : \E i \in 1 .. Len(ps) : p = ps[i] BY <1>2 DEF Entries
<1> QED BY <1>1, <1>6, <1>7

\* What is retained of a batch is of the batch, and in the registry.
LEMMA RetainedGives ==
  ASSUME NEW r, NEW ps \in Seq(PassageSet)
  PROVE  LET kept == Passages!Retained(r, ps) IN
         /\ kept \in Seq(PassageSet) /\ Entries(kept) \subseteq Entries(ps)
         /\ \A e \in Entries(kept) : e.label \in Passages!Labels(r.registry)
<1>1. PICK kept : /\ kept[0] = <<>> /\ kept[Len(ps)] = Passages!Retained(r, ps)
                  /\ \A k \in 1 .. Len(ps) :
                       kept[k] = IF ps[k].label \in Passages!Labels(r.registry)
                                 THEN Append(kept[k - 1], ps[k]) ELSE kept[k - 1]
  BY RetainedIs
<1> DEFINE Good(k) ==
             /\ kept[k] \in Seq(PassageSet) /\ Entries(kept[k]) \subseteq Entries(ps)
             /\ \A e \in Entries(kept[k]) : e.label \in Passages!Labels(r.registry)
           T == {k \in Nat : k <= Len(ps) => Good(k)}
<1>2. Len(ps) \in Nat /\ DOMAIN ps = 1 .. Len(ps) /\ \A i \in DOMAIN ps : ps[i] \in PassageSet OBVIOUS
<1>3. 0 \in T
  <2>1. DOMAIN << >> = {} OBVIOUS
  <2>2. kept[0] \in Seq(PassageSet) BY <1>1
  <2>3. Entries(kept[0]) = {} BY <1>1, <2>1 DEF Entries
  <2>4. Good(0) BY <2>2, <2>3
  <2> HIDE DEF Good
  <2> QED BY <2>4
<1>4. ASSUME NEW k \in Nat, k \in T PROVE k + 1 \in T
  <2> SUFFICES ASSUME k + 1 <= Len(ps) PROVE Good(k + 1)
    <3> HIDE DEF Good
    <3> QED OBVIOUS
  <2> DEFINE g == kept[k]
             p == ps[k + 1]
  <2>0. k <= Len(ps) /\ k + 1 \in 1 .. Len(ps) /\ (k + 1) - 1 = k BY <1>2
  <2>1. Good(k)
    <3> HIDE DEF Good
    <3> QED BY <1>4, <2>0
  <2>2. g \in Seq(PassageSet) /\ p \in PassageSet /\ p \in Entries(ps) BY <1>2, <2>0, <2>1 DEF Entries
  <2>3. kept[k + 1] = IF p.label \in Passages!Labels(r.registry) THEN Append(g, p) ELSE g BY <1>1, <2>0
  <2>4. CASE p.label \in Passages!Labels(r.registry)
    <3> DEFINE h == Append(g, p)
    <3>1. kept[k + 1] = h BY <2>3, <2>4
    <3> HIDE DEF g, p
    <3>2. /\ h \in Seq(PassageSet) /\ DOMAIN h = 1 .. Len(g) + 1 /\ DOMAIN g = 1 .. Len(g) /\ Len(g) \in Nat
          /\ h[Len(g) + 1] = p /\ \A i \in 1 .. Len(g) : h[i] = g[i]
      BY <2>2, AppendIs
    <3> HIDE DEF h
    <3>3. \A e \in Entries(h) : e \in Entries(g) \/ e = p
      <4> TAKE e \in Entries(h)
      <4>1. PICK i \in 1 .. Len(g) + 1 : e = h[i] BY <3>2 DEF Entries
      <4> QED BY <3>2, <4>1 DEF Entries
    <3>4. Entries(g) \subseteq Entries(ps) /\ \A e \in Entries(g) : e.label \in Passages!Labels(r.registry)
      BY <2>1 DEF g
    <3> QED BY <2>2, <2>4, <3>1, <3>2, <3>3, <3>4
  <2>5. CASE p.label \notin Passages!Labels(r.registry) BY <2>1, <2>3, <2>5
  <2> QED BY <2>4, <2>5
<1> HIDE DEF T
<1>5. Nat \subseteq T BY <1>3, <1>4, SetInduction
<1>6. Good(Len(ps))
  <2> HIDE DEF Good
  <2> QED BY <1>2, <1>5 DEF T
<1> QED BY <1>1, <1>6

AnswerNodes == {"item", "query", "agent"}
Stages == {"ready", "found", "returned", "using", "answered", "reported", "restore", "done"}
SavedNodes == [is : BOOLEAN, sources : Seq(PassageSet), cites : SUBSET PassageSet]
Responses == [at : {"waiting", "checking", "published", "refused"}, checked : SUBSET Chunks,
              needed : SUBSET Chunks, registry : Seq(PassageSet)]
PassageTypes ==
  /\ live \subseteq Chunks /\ counter \in Nat
  /\ saved \in [AnswerNodes -> SavedNodes] /\ deps \in [AnswerNodes -> SUBSET Chunks]
  /\ run \in RunStates /\ Distinct(run.registry) /\ step \in [AnswerNodes -> Stages]
  /\ cites \in [AnswerNodes -> SUBSET PassageSet] /\ response \in Responses
  /\ got = [x \in AnswerNodes |-> got[x]]
  /\ \A x \in AnswerNodes : got[x] \in IF step[x] = "found" THEN Seq(Chunks) ELSE Seq(PassageSet)

\* A label is known for a chunk; it is known for one, and not above the counter.
Known(l, c) ==
  \/ Labelled(run.registry, l, c)
  \/ \E x \in AnswerNodes : \/ step[x] # "found" /\ Labelled(got[x], l, c)
                            \/ Labelled(saved[x].sources, l, c)
                            \/ \E e \in cites[x] \cup saved[x].cites : e.label = l /\ e.chunk = c
OneMeaning == \A l, c, d : Known(l, c) /\ Known(l, d) => c = d
Bounded == \A l, c : Known(l, c) => l \in Nat /\ l <= run.counter

\* What is saved, or is about to be, is not above the counter of the row.
Durable ==
  \A x \in AnswerNodes :
    /\ \A e \in saved[x].cites : e.label <= counter
    /\ step[x] = "reported" => \A e \in Entries(got[x]) : e.label <= counter
\* An answer cites what it holds, and a checkpoint has the sources it cites.
Backed ==
  \A x \in AnswerNodes :
    /\ step[x] \in {"answered", "reported"} => cites[x] \subseteq Entries(got[x])
    /\ x # "item" => \A e \in saved[x].cites : \E q \in Entries(saved[x].sources) : q.label = e.label /\ q.cited
\* What the item rests on is recorded for it.
Verified ==
  /\ step["item"] # "found" => \A e \in Entries(got["item"]) : e.chunk \in deps["item"]
  /\ \A e \in cites["item"] \cup saved["item"].cites : e.chunk \in deps["item"]
\* The Response checks what the registry still holds.
Grounded ==
  response.at \in {"checking", "published"} =>
    /\ \A x \in AnswerNodes : step[x] = "done"
    /\ response.registry = run.registry /\ response.needed = Passages!Needed
    /\ response.at = "published" => response.checked = response.needed
KeptOf(x) == \A e \in cites[x] : Holds(run, e.label)
Kept ==
  /\ step["agent"] = "using" => \A e \in Entries(got["agent"]) : e.label \in run.pins /\ Here(run, e.label)
  /\ step["agent"] \in {"answered", "done"} => KeptOf("agent")
  /\ step["query"] = "done" => KeptOf("query")
PassagesInv ==
  PassageTypes /\ OneMeaning /\ Bounded /\ Durable /\ Backed /\ Verified /\ Grounded /\ Kept

\* The nodes of the workflow.
LEMMA NodesAre ==
  /\ Passages!Nodes = AnswerNodes /\ "item" \in AnswerNodes /\ "query" \in AnswerNodes /\ "agent" \in AnswerNodes
  /\ "item" # "query" /\ "item" # "agent" /\ "query" # "agent"
BY DEF Passages!Nodes, AnswerNodes

\* The labels and chunks of a list are those of its entries.
LEMMA LabelsAre ==
  ASSUME NEW ps
  PROVE  /\ \A l : l \in Passages!Labels(ps) <=> \E e \in Entries(ps) : e.label = l
         /\ \A c : c \in Passages!ChunksOf(ps) <=> \E e \in Entries(ps) : e.chunk = c
         /\ \A l : l \in Passages!CitedLabels(ps) => \E e \in Entries(ps) : e.label = l
BY DEF Passages!Labels, Passages!ChunksOf, Passages!CitedLabels, Entries

\* An empty list has no entries.
LEMMA NoEntries == << >> \in Seq(PassageSet) /\ Distinct(<< >>) /\ Entries(<< >>) = {}
<1>1. DOMAIN << >> = {} OBVIOUS
<1> QED BY <1>1 DEF Distinct, Entries

\* The entries of a list of passages are passages.
LEMMA EntriesAre ==
  ASSUME NEW ps \in Seq(PassageSet)
  PROVE  \A e \in Entries(ps) : e \in PassageSet /\ e.label \in Nat /\ e.chunk \in Chunks
<1>1. \A i \in DOMAIN ps : ps[i] \in PassageSet OBVIOUS
<1> QED BY <1>1 DEF Entries, PassageSet

\* The highest of the labels of a bounded set.
LEMMA HighIs ==
  ASSUME NEW L \in SUBSET Nat, NEW b \in Nat, \A l \in L : l <= b
  PROVE  Passages!High(L) \in Nat /\ \A l \in L : l <= Passages!High(L)
<1> DEFINE S == L \cup {0}
           U == {n \in Nat : \A y \in S : y <= n}
<1>1. S \subseteq Nat /\ 0 \in S OBVIOUS
<1>2. b \in U OBVIOUS
<1>3. PICK u \in U : \A y \in U : u <= y
  <2>1. U \in SUBSET Nat /\ U # {} BY <1>2
  <2> HIDE DEF U
  <2> QED BY <2>1, LeastIs
<1>4. u \in Nat /\ \A y \in S : y <= u BY <1>3
<1>5. u \in S
  <2> SUFFICES ASSUME u \notin S PROVE FALSE OBVIOUS
  <2>1. u # 0 /\ u - 1 \in Nat BY <1>1, <1>4
  <2> HIDE DEF S
  <2>2. \A y \in S : y <= u - 1 BY <1>1, <1>4, <2>1
  <2>3. u <= u - 1 BY <1>3, <2>1, <2>2
  <2> QED BY <1>4, <2>3
<1> HIDE DEF U
<1>6. Passages!Max(S) \in S /\ \A y \in S : Passages!Max(S) >= y
  <2> HIDE DEF S
  <2>1. \E m \in S : \A y \in S : m >= y BY <1>1, <1>4, <1>5
  <2> QED BY <2>1 DEF Passages!Max
<1>7. Passages!High(L) = Passages!Max(S) BY DEF Passages!High
<1>8. Passages!Max(S) \in Nat /\ \A l \in L : l \in S /\ l \in Nat BY <1>1, <1>6
<1> HIDE DEF S
<1> QED BY <1>6, <1>7, <1>8

\* The counter of the row with the labels of a list.
LEMMA BoundOf ==
  ASSUME NEW n \in Nat, NEW ps \in Seq(PassageSet), NEW b \in Nat, \A e \in Entries(ps) : e.label <= b
  PROVE  LET h == Passages!High({n} \cup Passages!Labels(ps)) IN
         h \in Nat /\ h >= n /\ \A e \in Entries(ps) : e.label <= h
<1> DEFINE L == {n} \cup Passages!Labels(ps)
<1>1. L \in SUBSET Nat BY LabelsAre, EntriesAre
<1>2. \A l \in L : l <= n + b
  <2>1. n <= n + b OBVIOUS
  <2>2. ASSUME NEW l \in Passages!Labels(ps) PROVE l <= n + b
    <3>1. PICK e \in Entries(ps) : e.label = l BY LabelsAre
    <3>2. e.label \in Nat /\ e.label <= b BY EntriesAre
    <3> QED BY <3>1, <3>2
  <2> QED BY <2>1, <2>2
<1>3. n + b \in Nat OBVIOUS
<1>4. n \in L /\ \A e \in Entries(ps) : e.label \in L BY LabelsAre
<1> HIDE DEF L
<1>5. Passages!High(L) \in Nat /\ \A l \in L : l <= Passages!High(L) BY <1>1, <1>2, <1>3, HighIs
<1>6. Passages!High(L) >= n BY <1>4, <1>5
<1> QED BY <1>4, <1>5, <1>6 DEF L

\* What is known keeps its meaning if nothing new becomes known.
LEMMA NamesStay ==
  ASSUME OneMeaning, Bounded, \A l, c : Known(l, c)' => Known(l, c),
         run.counter \in Nat, run'.counter \in Nat, run'.counter >= run.counter
  PROVE  OneMeaning' /\ Bounded'
<1> HIDE DEF Known
<1>1. OneMeaning' BY DEF OneMeaning
<1>2. ASSUME NEW l, NEW c, Known(l, c)' PROVE l \in Nat /\ l <= run'.counter
  <2>1. l \in Nat /\ l <= run.counter BY <1>2 DEF Bounded
  <2> QED BY <2>1
<1> QED BY <1>1, <1>2 DEF Bounded

\* Nothing is known of a run that starts.
LEMMA InitPassages == Passages!Init => PassagesInv
<1> SUFFICES ASSUME Passages!Init PROVE PassagesInv OBVIOUS
<1>1. /\ live = Chunks /\ counter = 0
      /\ saved = [x \in AnswerNodes |-> Passages!NothingSaved]
      /\ deps = [x \in AnswerNodes |-> {}] /\ run = Passages!FreshRun
      /\ step = [x \in AnswerNodes |-> "ready"] /\ got = [x \in AnswerNodes |-> << >>]
      /\ cites = [x \in AnswerNodes |-> {}] /\ response = Passages!Waiting
  BY NodesAre DEF Passages!Init
<1>2. Passages!NothingSaved = [is |-> FALSE, sources |-> << >>, cites |-> {}] BY DEF Passages!NothingSaved
<1>3. \A x \in AnswerNodes : saved[x].sources = << >> /\ saved[x].cites = {} BY <1>1, <1>2
<1>4. run.registry = << >> /\ run.pins = {} /\ run.rejected = {} /\ run.reused = FALSE /\ run.counter \in Nat
  <2> DEFINE L == {counter} \cup UNION {Passages!Labels(saved[x].sources) : x \in Passages!Nodes}
  <2>1. \A x \in AnswerNodes : Passages!Labels(saved[x].sources) = {} BY <1>3, NoEntries, LabelsAre
  <2>2. L = {0} BY <1>1, <2>1, NodesAre
  <2> HIDE DEF L
  <2>3. L \in SUBSET Nat /\ \A l \in L : l <= 0 BY <2>2
  <2>4. Passages!High(L) \in Nat BY <2>3, HighIs
  <2>5. run = [registry |-> << >>, pins |-> {}, rejected |-> {}, reused |-> FALSE, counter |-> Passages!High(L)]
    BY <1>1 DEF Passages!FreshRun, L
  <2> QED BY <2>4, <2>5
<1>5. run \in RunStates
  <2>1. run = [registry |-> run.registry, pins |-> run.pins, rejected |-> run.rejected,
               reused |-> run.reused, counter |-> run.counter]
    BY <1>1 DEF Passages!FreshRun
  <2> QED BY <1>4, <2>1, NoEntries DEF RunStates
<1>6. response.at = "waiting" /\ response \in Responses
  BY <1>1, NoEntries DEF Passages!Waiting, Responses
<1>7. PassageTypes
  <2>1. saved \in [AnswerNodes -> SavedNodes] BY <1>1, <1>2, NoEntries DEF SavedNodes
  <2>2. \A x \in AnswerNodes : step[x] = "ready" /\ got[x] = << >> BY <1>1
  <2>3. step \in [AnswerNodes -> Stages] BY <1>1 DEF Stages
  <2>4. got = [x \in AnswerNodes |-> got[x]] BY <1>1
  <2>5. deps \in [AnswerNodes -> SUBSET Chunks] /\ cites \in [AnswerNodes -> SUBSET PassageSet] /\ counter \in Nat
    BY <1>1
  <2>6. Distinct(run.registry) BY <1>4, NoEntries
  <2> QED BY <1>1, <1>5, <1>6, <2>1, <2>2, <2>3, <2>4, <2>5, <2>6, NoEntries DEF PassageTypes
<1>8. \A x \in AnswerNodes : step[x] = "ready" /\ Entries(got[x]) = {} /\ cites[x] = {} /\ saved[x].cites = {}
                             /\ Entries(saved[x].sources) = {}
  BY <1>1, <1>3, NoEntries
<1>9. Entries(run.registry) = {} BY <1>4, NoEntries
<1>10. \A l, c : ~Known(l, c) BY <1>8, <1>9 DEF Known, Labelled
<1>11. OneMeaning /\ Bounded
  <2> HIDE DEF Known
  <2> QED BY <1>10 DEF OneMeaning, Bounded
<1>12. Durable /\ Backed BY <1>8 DEF Durable, Backed
<1>13. Verified /\ Kept BY <1>8, NodesAre DEF Verified, Kept
<1>14. Grounded BY <1>6 DEF Grounded
<1> QED BY <1>7, <1>11, <1>12, <1>13, <1>14 DEF PassagesInv

\* What was kept in the registry stays there.
LEMMA KeptStays ==
  ASSUME Kept, Continues(run, run')
  PROVE  /\ step["agent"] = "using" => \A e \in Entries(got["agent"]) : e.label \in run'.pins /\ Here(run', e.label)
         /\ step["agent"] \in {"answered", "done"} => \A e \in cites["agent"] : Holds(run', e.label)
         /\ step["query"] = "done" => \A e \in cites["query"] : Holds(run', e.label)
<1>1. \A l : Holds(run, l) => Holds(run', l) BY DEF Holds, Continues
<1>2. run'.pins = run.pins /\ \A l \in run.pins : Here(run, l) => Here(run', l) BY DEF Continues
<1> QED BY <1>1, <1>2 DEF Kept, KeptOf

\* A search finds chunks; nothing is labelled yet.
LEMMA SearchKeeps ==
  ASSUME PassagesInv, NEW x \in AnswerNodes, Passages!Search(x)
  PROVE  PassagesInv'
<1>1. PassageTypes /\ OneMeaning /\ Bounded /\ Durable /\ Backed /\ Verified /\ Grounded /\ Kept BY DEF PassagesInv
<1>2. /\ response.at = "waiting" /\ step[x] = "ready" /\ step' = [step EXCEPT ![x] = "found"]
      /\ deps' = IF x = "item" THEN deps ELSE [deps EXCEPT ![x] = {}]
      /\ live' = live /\ counter' = counter /\ saved' = saved /\ run' = run
      /\ cites' = cites /\ response' = response
  BY DEF Passages!Search, Passages!Running, Passages!Goto
<1>3. PICK n \in 0 .. TopK : \E found \in [1 .. n -> live] : got' = [got EXCEPT ![x] = found]
  BY DEF Passages!Search
<1>4. PICK found \in [1 .. n -> live] : got' = [got EXCEPT ![x] = found] BY <1>3
<1>5. found \in Seq(Chunks)
  <2>1. live \subseteq Chunks /\ n \in Nat BY <1>1 DEF PassageTypes
  <2> QED BY <2>1
<1>6. /\ step'[x] = "found" /\ got'[x] = found
      /\ \A y \in AnswerNodes : y # x => step'[y] = step[y] /\ got'[y] = got[y] /\ deps'[y] = deps[y]
      /\ deps'["item"] = deps["item"]
  BY <1>1, <1>2, <1>4, NodesAre DEF PassageTypes
<1>7. PassageTypes'
  <2>1. \A y \in AnswerNodes : got'[y] \in IF step'[y] = "found" THEN Seq(Chunks) ELSE Seq(PassageSet)
    BY <1>1, <1>5, <1>6 DEF PassageTypes
  <2>2. got' = [y \in AnswerNodes |-> got'[y]] BY <1>1, <1>4 DEF PassageTypes
  <2>3. step' \in [AnswerNodes -> Stages] BY <1>1, <1>2 DEF PassageTypes, Stages
  <2>4. deps' \in [AnswerNodes -> SUBSET Chunks] BY <1>1, <1>2 DEF PassageTypes
  <2> QED BY <1>1, <1>2, <2>1, <2>2, <2>3, <2>4 DEF PassageTypes
<1>8. \A l, c : Known(l, c)' => Known(l, c) BY <1>2, <1>6 DEF Known
<1>9. OneMeaning' /\ Bounded'
  <2>1. run.counter \in Nat BY <1>1 DEF PassageTypes, RunStates
  <2> QED BY <1>1, <1>2, <1>8, <2>1, NamesStay
<1>10. Durable' BY <1>1, <1>2, <1>6 DEF Durable
<1>11. Backed' BY <1>1, <1>2, <1>6 DEF Backed
<1>12. Verified' BY <1>1, <1>2, <1>6, NodesAre DEF Verified
<1>13. Grounded' BY <1>2 DEF Grounded
<1>14. Kept'
  <2>1. KeptOf("agent") => KeptOf("agent")' BY <1>2 DEF KeptOf
  <2>2. KeptOf("query") => KeptOf("query")' BY <1>2 DEF KeptOf
  <2> QED BY <1>1, <1>2, <1>6, <2>1, <2>2, NodesAre DEF Kept
<1> QED BY <1>7, <1>9, <1>10, <1>11, <1>12, <1>13, <1>14 DEF PassagesInv

\* What a search found is given labels above the counter, each its own.
LEMMA FreshIs ==
  ASSUME NEW n \in Nat, NEW s \in Seq(Chunks)
  PROVE  LET fresh == [i \in DOMAIN s |-> Passages!Passage(n + i, s[i], FALSE)] IN
         /\ fresh \in Seq(PassageSet) /\ Len(fresh) = Len(s) /\ Len(s) \in Nat
         /\ \A e \in Entries(fresh) : /\ e.label > n /\ e.label <= n + Len(s)
                                      /\ \E i \in DOMAIN s : e.chunk = s[i]
         /\ \A e, f \in Entries(fresh) : e.label = f.label => e = f
<1> DEFINE fresh == [i \in DOMAIN s |-> Passages!Passage(n + i, s[i], FALSE)]
<1>1. DOMAIN s = 1 .. Len(s) /\ Len(s) \in Nat /\ \A i \in DOMAIN s : s[i] \in Chunks OBVIOUS
<1>2. \A i \in DOMAIN s : /\ fresh[i] = [label |-> n + i, chunk |-> s[i], cited |-> FALSE]
                          /\ n + i \in Nat /\ n + i > n /\ n + i <= n + Len(s)
  BY <1>1 DEF Passages!Passage
<1>3. fresh = [i \in 1 .. Len(s) |-> fresh[i]] BY <1>1
<1> HIDE DEF fresh
<1>4. ASSUME NEW i \in DOMAIN s PROVE fresh[i] \in PassageSet /\ fresh[i].label = n + i /\ fresh[i].chunk = s[i]
  <2>1. fresh[i] = [label |-> n + i, chunk |-> s[i], cited |-> FALSE] /\ n + i \in Nat /\ s[i] \in Chunks
    BY <1>1, <1>2
  <2> QED BY <2>1 DEF PassageSet
<1>5. fresh \in Seq(PassageSet) /\ Len(fresh) = Len(s) /\ DOMAIN fresh = DOMAIN s BY <1>1, <1>3, <1>4
<1>6. \A e \in Entries(fresh) : \E i \in DOMAIN s : e = fresh[i] BY <1>5 DEF Entries
<1>7. \A e \in Entries(fresh) : /\ e.label > n /\ e.label <= n + Len(s)
                                /\ \E i \in DOMAIN s : e.chunk = s[i]
  BY <1>2, <1>4, <1>6
<1>8. ASSUME NEW e \in Entries(fresh), NEW f \in Entries(fresh), e.label = f.label PROVE e = f
  <2>1. PICK i \in DOMAIN s : e = fresh[i] BY <1>6
  <2>2. PICK j \in DOMAIN s : f = fresh[j] BY <1>6
  <2>3. n + i = n + j BY <1>4, <1>8, <2>1, <2>2
  <2>4. i = j BY <1>1, <2>3
  <2> QED BY <2>1, <2>2, <2>4
<1> QED BY <1>1, <1>5, <1>7, <1>8 DEF fresh

\* The passages of a search are labelled and remembered.
LEMMA RegisterKeeps ==
  ASSUME PassagesInv, NEW x \in AnswerNodes, Passages!Register(x)
  PROVE  PassagesInv'
<1> DEFINE chunks == {got[x][i] : i \in DOMAIN got[x]}
           fresh == [i \in DOMAIN got[x] |-> Passages!Passage(run.counter + i, got[x][i], FALSE)]
           base == [run EXCEPT !.counter = @ + Len(fresh)]
           after == Passages!Remember(base, fresh)
           next == IF x = "agent" THEN "returned" ELSE "using"
<1>1. PassageTypes /\ OneMeaning /\ Bounded /\ Durable /\ Backed /\ Verified /\ Grounded /\ Kept BY DEF PassagesInv
<1>2. /\ response.at = "waiting" /\ step[x] = "found" /\ chunks \subseteq live
      /\ step' = [step EXCEPT ![x] = next] /\ deps' = [deps EXCEPT ![x] = @ \cup chunks]
      /\ run' = after /\ got' = [got EXCEPT ![x] = Passages!Retained(after, fresh)]
      /\ live' = live /\ counter' = counter /\ saved' = saved /\ cites' = cites /\ response' = response
  BY DEF Passages!Register, Passages!Running, Passages!Goto
<1>3. run.counter \in Nat /\ got[x] \in Seq(Chunks) /\ run \in RunStates /\ Distinct(run.registry) /\ live \subseteq Chunks
  BY <1>1, <1>2 DEF PassageTypes, RunStates
<1>4. /\ fresh \in Seq(PassageSet) /\ Len(fresh) = Len(got[x]) /\ Len(got[x]) \in Nat
      /\ \A e \in Entries(fresh) : /\ e.label > run.counter /\ e.label <= run.counter + Len(got[x])
                                   /\ \E i \in DOMAIN got[x] : e.chunk = got[x][i]
      /\ \A e, f \in Entries(fresh) : e.label = f.label => e = f
  BY <1>3, FreshIs
<1>5. \A e \in Entries(fresh) : e.chunk \in chunks BY <1>4
<1> HIDE DEF fresh, chunks
<1>6. /\ base \in RunStates /\ base.registry = run.registry /\ base.pins = run.pins /\ base.reused = run.reused
      /\ base.rejected = run.rejected /\ base.counter = run.counter + Len(got[x])
  <2>1. base = [run EXCEPT !.counter = run.counter + Len(got[x])] BY <1>4
  <2>2. run.counter + Len(got[x]) \in Nat BY <1>3, <1>4
  <2> HIDE DEF base
  <2> QED BY <1>3, <2>1, <2>2 DEF RunStates
<1> HIDE DEF base
<1>7. /\ Continues(base, after)
      /\ \A e \in Entries(after.registry) :
           Labelled(run.registry, e.label, e.chunk) \/ Labelled(fresh, e.label, e.chunk)
  BY <1>3, <1>4, <1>6, RememberGives
<1> DEFINE kept == Passages!Retained(after, fresh)
<1>8. kept \in Seq(PassageSet) /\ Entries(kept) \subseteq Entries(fresh) BY <1>4, RetainedGives
<1> HIDE DEF after, kept
<1>9. /\ step'[x] = next /\ got'[x] = kept /\ deps'[x] = deps[x] \cup chunks
      /\ \A y \in AnswerNodes : y # x => step'[y] = step[y] /\ got'[y] = got[y] /\ deps'[y] = deps[y]
  BY <1>1, <1>2 DEF PassageTypes, kept
<1>10. next \in {"returned", "using"} /\ (x = "agent" => next = "returned") OBVIOUS
<1>11. run'.counter \in Nat /\ run'.counter >= run.counter + Len(got[x]) /\ run'.counter >= run.counter
  BY <1>2, <1>3, <1>4, <1>6, <1>7 DEF Continues, RunStates
<1>12. Continues(run, run')
  BY <1>2, <1>6, <1>7, <1>11 DEF Continues, Here, Cited
<1> HIDE DEF next
<1>13. PassageTypes'
  <2>1. \A y \in AnswerNodes : got'[y] \in IF step'[y] = "found" THEN Seq(Chunks) ELSE Seq(PassageSet)
    BY <1>1, <1>8, <1>9, <1>10 DEF PassageTypes
  <2>2. got' = [y \in AnswerNodes |-> got'[y]] BY <1>1, <1>2 DEF PassageTypes
  <2>3. step' \in [AnswerNodes -> Stages] BY <1>1, <1>2, <1>10 DEF PassageTypes, Stages
  <2>4. deps' \in [AnswerNodes -> SUBSET Chunks] BY <1>1, <1>2, <1>3 DEF PassageTypes
  <2>5. run' \in RunStates /\ Distinct(run'.registry) BY <1>2, <1>7 DEF Continues
  <2> QED BY <1>1, <1>2, <2>1, <2>2, <2>3, <2>4, <2>5 DEF PassageTypes
<1>14. ASSUME NEW l, NEW c, Known(l, c)' PROVE Known(l, c) \/ Labelled(fresh, l, c)
  <2>1. CASE Labelled(run'.registry, l, c)
    <3>1. Labelled(run.registry, l, c) \/ Labelled(fresh, l, c) BY <1>2, <1>7, <2>1 DEF Labelled
    <3> QED BY <3>1 DEF Known
  <2>2. CASE \E y \in AnswerNodes : step'[y] # "found" /\ Labelled(got'[y], l, c)
    <3>1. PICK y \in AnswerNodes : step'[y] # "found" /\ Labelled(got'[y], l, c) BY <2>2
    <3>2. CASE y = x BY <1>8, <1>9, <3>1, <3>2 DEF Labelled
    <3>3. CASE y # x BY <1>9, <3>1, <3>3 DEF Known
    <3> QED BY <3>2, <3>3
  <2>3. CASE \E y \in AnswerNodes : Labelled(saved[y].sources, l, c) BY <2>3 DEF Known
  <2>4. CASE \E y \in AnswerNodes : \E e \in cites[y] \cup saved[y].cites : e.label = l /\ e.chunk = c
    BY <2>4 DEF Known
  <2> QED BY <1>2, <1>14, <2>1, <2>2, <2>3, <2>4 DEF Known
<1>15. \A l, c : Labelled(fresh, l, c) => l > run.counter /\ l <= run'.counter /\ l \in Nat
  <2> TAKE l, c
  <2> HAVE Labelled(fresh, l, c)
  <2>1. PICK e \in Entries(fresh) : e.label = l /\ e.chunk = c BY DEF Labelled
  <2>2. l \in Nat BY <1>4, <2>1, EntriesAre
  <2> QED BY <1>3, <1>4, <1>11, <2>1, <2>2
<1>16. OneMeaning' /\ Bounded'
  <2>1. \A l, c : Known(l, c) => l \in Nat /\ l <= run.counter BY <1>1 DEF Bounded
  <2>2. \A l, c, d : Known(l, c) /\ Known(l, d) => c = d BY <1>1 DEF OneMeaning
  <2>3. \A l, c, d : Labelled(fresh, l, c) /\ Labelled(fresh, l, d) => c = d BY <1>4 DEF Labelled
  <2> HIDE DEF Known
  <2>4. \A l, c, d : ~(Known(l, c) /\ Labelled(fresh, l, d)) BY <1>3, <1>15, <2>1
  <2>5. OneMeaning' BY <1>14, <2>2, <2>3, <2>4 DEF OneMeaning
  <2>6. ASSUME NEW l, NEW c, Known(l, c)' PROVE l \in Nat /\ l <= run'.counter
    BY <1>3, <1>11, <1>14, <1>15, <2>1, <2>6
  <2> QED BY <2>5, <2>6 DEF Bounded
<1>17. Durable' BY <1>1, <1>2, <1>9, <1>10 DEF Durable
<1>18. Backed' BY <1>1, <1>2, <1>9, <1>10 DEF Backed
<1>19. Verified'
  <2>1. deps["item"] \subseteq deps'["item"] BY <1>9, NodesAre
  <2>2. step'["item"] # "found" => \A e \in Entries(got'["item"]) : e.chunk \in deps'["item"]
    <3>1. CASE x = "item" BY <1>5, <1>8, <1>9, <3>1
    <3>2. CASE x # "item" BY <1>1, <1>9, <3>2, NodesAre DEF Verified
    <3> QED BY <3>1, <3>2
  <2> QED BY <1>1, <1>2, <2>1, <2>2 DEF Verified
<1>20. Grounded' BY <1>2 DEF Grounded
<1>21. Kept'
  <2>1. /\ step["agent"] = "using" => \A e \in Entries(got["agent"]) : e.label \in run'.pins /\ Here(run', e.label)
        /\ step["agent"] \in {"answered", "done"} => \A e \in cites["agent"] : Holds(run', e.label)
        /\ step["query"] = "done" => \A e \in cites["query"] : Holds(run', e.label)
    BY <1>1, <1>12, KeptStays
  <2> QED BY <1>2, <1>9, <1>10, <2>1, NodesAre DEF Kept, KeptOf
<1> QED BY <1>13, <1>16, <1>17, <1>18, <1>19, <1>20, <1>21 DEF PassagesInv

\* What is known of the registry after passages that are known are remembered.
LEMMA RememberKnown ==
  ASSUME PassageTypes, NEW ps \in Seq(PassageSet), \A e \in Entries(ps) : Known(e.label, e.chunk)
  PROVE  LET s == Passages!Remember(run, ps) IN
         /\ Continues(run, s) /\ s.counter \in Nat /\ s.counter >= run.counter
         /\ \A l, c : Labelled(s.registry, l, c) => Known(l, c)
         /\ \A p \in Entries(ps) : p.cited => Holds(s, p.label)
<1> DEFINE s == Passages!Remember(run, ps)
<1>1. run \in RunStates /\ Distinct(run.registry) BY DEF PassageTypes
<1>2. /\ Continues(run, s)
      /\ \A p \in Entries(ps) : s.counter >= p.label /\ (p.cited => Holds(s, p.label))
      /\ \A e \in Entries(s.registry) :
           Labelled(run.registry, e.label, e.chunk) \/ Labelled(ps, e.label, e.chunk)
  BY <1>1, RememberGives
<1> HIDE DEF s
<1>3. ASSUME NEW l, NEW c, Labelled(s.registry, l, c) PROVE Known(l, c)
  <2>1. PICK e \in Entries(s.registry) : e.label = l /\ e.chunk = c BY <1>3 DEF Labelled
  <2>2. CASE Labelled(run.registry, l, c) BY <2>2 DEF Known
  <2>3. CASE Labelled(ps, l, c)
    <3>1. PICK p \in Entries(ps) : p.label = l /\ p.chunk = c BY <2>3 DEF Labelled
    <3> HIDE DEF Known
    <3> QED BY <3>1
  <2> HIDE DEF Known
  <2> QED BY <1>2, <2>1, <2>2, <2>3
<1>4. s.counter \in Nat /\ s.counter >= run.counter BY <1>2 DEF Continues, RunStates
<1> QED BY <1>2, <1>3, <1>4 DEF s

\* What a node holds is known, and so is what it cites, once it is labelled.
LEMMA GotIsKnown ==
  ASSUME PassagesInv, NEW x \in AnswerNodes, step[x] # "found"
  PROVE  /\ got[x] \in Seq(PassageSet)
         /\ \A e \in Entries(got[x]) : Known(e.label, e.chunk) /\ e.label \in Nat /\ e.label <= run.counter
         /\ run \in RunStates /\ run.counter \in Nat /\ counter \in Nat
<1>1. PassageTypes /\ Bounded BY DEF PassagesInv
<1>2. got[x] \in Seq(PassageSet) BY <1>1 DEF PassageTypes
<1>3. \A e \in Entries(got[x]) : Known(e.label, e.chunk) BY DEF Known, Labelled
<1> HIDE DEF Known
<1>4. run \in RunStates /\ run.counter \in Nat /\ counter \in Nat BY <1>1 DEF PassageTypes, RunStates
<1> QED BY <1>1, <1>2, <1>3, <1>4 DEF Bounded

\* An agent collects what its tool returned: what is kept is pinned.
LEMMA CollectKeeps ==
  ASSUME PassagesInv, NEW x \in AnswerNodes, Passages!Collect(x)
  PROVE  PassagesInv'
<1> DEFINE after == Passages!Remember(run, got[x])
           kept == Passages!Retained(after, got[x])
<1>1. PassageTypes /\ OneMeaning /\ Bounded /\ Durable /\ Backed /\ Verified /\ Grounded /\ Kept BY DEF PassagesInv
<1>2. /\ response.at = "waiting" /\ step[x] = "returned" /\ step' = [step EXCEPT ![x] = "using"]
      /\ counter' = Passages!High({counter} \cup Passages!Labels(got[x]))
      /\ run' = [after EXCEPT !.pins = @ \cup Passages!Labels(kept)]
      /\ got' = [got EXCEPT ![x] = kept]
      /\ live' = live /\ saved' = saved /\ deps' = deps /\ cites' = cites /\ response' = response
  BY DEF Passages!Collect, Passages!Running, Passages!Goto
<1>3. /\ got[x] \in Seq(PassageSet)
      /\ \A e \in Entries(got[x]) : Known(e.label, e.chunk) /\ e.label \in Nat /\ e.label <= run.counter
      /\ run \in RunStates /\ run.counter \in Nat /\ counter \in Nat
  BY <1>2, GotIsKnown
<1>4. counter' \in Nat /\ counter' >= counter BY <1>2, <1>3, BoundOf
<1>5. /\ Continues(run, after) /\ after.counter \in Nat /\ after.counter >= run.counter
      /\ \A l, c : Labelled(after.registry, l, c) => Known(l, c)
  BY <1>1, <1>3, RememberKnown
<1>6. /\ kept \in Seq(PassageSet) /\ Entries(kept) \subseteq Entries(got[x])
      /\ \A e \in Entries(kept) : e.label \in Passages!Labels(after.registry)
  BY <1>3, RetainedGives
<1> HIDE DEF after, kept
<1>7. /\ step'[x] = "using" /\ got'[x] = kept
      /\ \A y \in AnswerNodes : y # x => step'[y] = step[y] /\ got'[y] = got[y]
  BY <1>1, <1>2 DEF PassageTypes
<1>8. Passages!Labels(kept) \subseteq Nat BY <1>6, LabelsAre, EntriesAre
<1>9. /\ run' \in RunStates /\ run'.registry = after.registry /\ run'.rejected = after.rejected
      /\ run'.counter = after.counter /\ run'.pins = run.pins \cup Passages!Labels(kept) /\ run'.reused = run.reused
  BY <1>2, <1>5, <1>8 DEF Continues, RunStates
<1>10. PassageTypes'
  <2>1. \A y \in AnswerNodes : got'[y] \in IF step'[y] = "found" THEN Seq(Chunks) ELSE Seq(PassageSet)
    BY <1>1, <1>6, <1>7 DEF PassageTypes
  <2>2. got' = [y \in AnswerNodes |-> got'[y]] BY <1>1, <1>2 DEF PassageTypes
  <2>3. step' \in [AnswerNodes -> Stages] BY <1>1, <1>2 DEF PassageTypes, Stages
  <2>4. Distinct(run'.registry) BY <1>5, <1>9 DEF Continues
  <2> QED BY <1>1, <1>2, <1>4, <1>9, <2>1, <2>2, <2>3, <2>4 DEF PassageTypes
<1>11. ASSUME NEW l, NEW c, Known(l, c)' PROVE Known(l, c)
  <2>1. CASE Labelled(run'.registry, l, c)
    <3> HIDE DEF Known
    <3> QED BY <1>5, <1>9, <2>1
  <2>2. CASE \E y \in AnswerNodes : step'[y] # "found" /\ Labelled(got'[y], l, c)
    <3>1. PICK y \in AnswerNodes : step'[y] # "found" /\ Labelled(got'[y], l, c) BY <2>2
    <3>2. CASE y = x
      <4>1. Labelled(got[x], l, c) BY <1>6, <1>7, <3>1, <3>2 DEF Labelled
      <4> QED BY <1>2, <4>1 DEF Known
    <3>3. CASE y # x BY <1>7, <3>1, <3>3 DEF Known
    <3> QED BY <3>2, <3>3
  <2>3. CASE \E y \in AnswerNodes : Labelled(saved[y].sources, l, c) BY <2>3 DEF Known
  <2>4. CASE \E y \in AnswerNodes : \E e \in cites[y] \cup saved[y].cites : e.label = l /\ e.chunk = c
    BY <2>4 DEF Known
  <2> QED BY <1>2, <1>11, <2>1, <2>2, <2>3, <2>4 DEF Known
<1>12. OneMeaning' /\ Bounded' BY <1>1, <1>3, <1>5, <1>9, <1>11, NamesStay
<1>13. Durable'
  <2> SUFFICES ASSUME NEW y \in AnswerNodes
               PROVE  /\ \A e \in saved'[y].cites : e.label <= counter'
                      /\ step'[y] = "reported" => \A e \in Entries(got'[y]) : e.label <= counter'
    BY DEF Durable
  <2>1. ASSUME NEW e \in saved[y].cites PROVE e.label <= counter'
    <3>1. e.label <= counter BY <1>1 DEF Durable
    <3>2. e \in PassageSet BY <1>1 DEF PassageTypes, SavedNodes
    <3>3. e.label \in Nat BY <3>2 DEF PassageSet
    <3> QED BY <1>3, <1>4, <3>1, <3>3
  <2>2. ASSUME y # x, step[y] = "reported", NEW e \in Entries(got[y]) PROVE e.label <= counter'
    <3>1. e.label <= counter BY <1>1, <2>2 DEF Durable
    <3>2. e.label \in Nat BY <2>2, GotIsKnown
    <3> QED BY <1>3, <1>4, <3>1, <3>2
  <2> QED BY <1>2, <1>7, <2>1, <2>2
<1>14. Backed' BY <1>1, <1>2, <1>7 DEF Backed
<1>15. Verified'
  <2>1. step'["item"] # "found" => \A e \in Entries(got'["item"]) : e.chunk \in deps["item"]
    <3>1. CASE x = "item" BY <1>1, <1>2, <1>6, <1>7, <3>1 DEF Verified
    <3>2. CASE x # "item" BY <1>1, <1>7, <3>2, NodesAre DEF Verified
    <3> QED BY <3>1, <3>2
  <2> QED BY <1>1, <1>2, <2>1 DEF Verified
<1>16. Grounded' BY <1>2 DEF Grounded
<1>17. Kept'
  <2>1. \A l : Holds(run, l) => Holds(run', l) BY <1>5, <1>9 DEF Continues, Holds, Cited
  <2>2. \A l \in run.pins : Here(run, l) => Here(run', l) BY <1>5, <1>9 DEF Continues, Here
  <2>3. \A e \in Entries(kept) : e.label \in run'.pins /\ Here(run', e.label)
    <3> TAKE e \in Entries(kept)
    <3>1. e.label \in Passages!Labels(kept) BY LabelsAre
    <3>2. Here(run', e.label) BY <1>6, <1>9, LabelsAre DEF Here
    <3> QED BY <1>9, <3>1, <3>2
  <2>4. ASSUME step'["agent"] = "using", NEW e \in Entries(got'["agent"]) PROVE e.label \in run'.pins /\ Here(run', e.label)
    <3>1. CASE x = "agent" BY <1>7, <2>3, <2>4, <3>1
    <3>2. CASE x # "agent" BY <1>1, <1>7, <1>9, <2>2, <2>4, <3>2, NodesAre DEF Kept
    <3> QED BY <3>1, <3>2
  <2> HIDE DEF Holds, Here
  <2>5. step'["agent"] \in {"answered", "done"} => \A e \in cites["agent"] : Holds(run', e.label)
    BY <1>1, <1>7, <2>1, NodesAre DEF Kept, KeptOf
  <2>6. step'["query"] = "done" => \A e \in cites["query"] : Holds(run', e.label)
    BY <1>1, <1>7, <2>1, NodesAre DEF Kept, KeptOf
  <2> QED BY <1>2, <2>4, <2>5, <2>6 DEF Kept, KeptOf
<1> QED BY <1>10, <1>12, <1>13, <1>14, <1>15, <1>16, <1>17 DEF PassagesInv

\* What is saved, or about to be, stays below a counter that does not fall.
LEMMA DurableStays ==
  ASSUME PassagesInv, counter' \in Nat, counter' >= counter
  PROVE  \A x \in AnswerNodes : /\ \A e \in saved[x].cites : e.label <= counter'
                                /\ step[x] = "reported" => \A e \in Entries(got[x]) : e.label <= counter'
<1>1. PassageTypes /\ Durable BY DEF PassagesInv
<1>2. counter \in Nat BY <1>1 DEF PassageTypes
<1>3. ASSUME NEW x \in AnswerNodes, NEW e \in saved[x].cites PROVE e.label <= counter'
  <2>1. e \in PassageSet /\ e.label <= counter BY <1>1 DEF PassageTypes, SavedNodes, Durable
  <2>2. e.label \in Nat BY <2>1 DEF PassageSet
  <2> QED BY <1>2, <2>1, <2>2
<1>4. ASSUME NEW x \in AnswerNodes, step[x] = "reported", NEW e \in Entries(got[x]) PROVE e.label <= counter'
  <2>1. e.label <= counter BY <1>1, <1>4 DEF Durable
  <2>2. e.label \in Nat BY <1>4, GotIsKnown
  <2> QED BY <1>2, <2>1, <2>2
<1> QED BY <1>3, <1>4

\* An answer cites what it holds; an agent's citations are marked in the registry.
LEMMA AnsweredKeeps ==
  ASSUME PassagesInv, NEW x \in AnswerNodes, Passages!Answer(x)
  PROVE  PassagesInv'
<1>1. PassageTypes /\ OneMeaning /\ Bounded /\ Durable /\ Backed /\ Verified /\ Grounded /\ Kept BY DEF PassagesInv
<1> DEFINE Marked(C) == [i \in DOMAIN got[x] |-> [got[x][i] EXCEPT !.cited = got[x][i] \in C]]
<1>2. /\ response.at = "waiting" /\ step[x] = "using" /\ step' = [step EXCEPT ![x] = "answered"]
      /\ live' = live /\ counter' = counter /\ saved' = saved /\ deps' = deps /\ got' = got /\ response' = response
      /\ \E cited \in SUBSET Entries(got[x]) :
           /\ cites' = [cites EXCEPT ![x] = cited]
           /\ run' = IF x = "agent" THEN [Passages!Remember(run, Marked(cited)) EXCEPT !.pins = {}] ELSE run
  BY DEF Passages!Answer, Passages!Running, Passages!Goto, Entries
<1>3. PICK cited \in SUBSET Entries(got[x]) :
        /\ cites' = [cites EXCEPT ![x] = cited]
        /\ run' = IF x = "agent" THEN [Passages!Remember(run, Marked(cited)) EXCEPT !.pins = {}] ELSE run
  BY <1>2
<1> DEFINE ps == Marked(cited)
           after == Passages!Remember(run, ps)
<1>4. /\ got[x] \in Seq(PassageSet)
      /\ \A e \in Entries(got[x]) : Known(e.label, e.chunk) /\ e.label \in Nat /\ e.label <= run.counter
      /\ run \in RunStates /\ run.counter \in Nat /\ counter \in Nat
  BY <1>2, GotIsKnown
<1>5. /\ ps \in Seq(PassageSet)
      /\ \A q \in Entries(ps) : \E e \in Entries(got[x]) : q.label = e.label /\ q.chunk = e.chunk
      /\ \A e \in Entries(got[x]) : \E q \in Entries(ps) : q.label = e.label /\ (e \in cited => q.cited)
  <2> DEFINE g == got[x]
  <2>1. ps = [i \in DOMAIN g |-> [g[i] EXCEPT !.cited = g[i] \in cited]] OBVIOUS
  <2>2. cited \in SUBSET PassageSet BY <1>4, EntriesAre
  <2> HIDE DEF g, ps, Marked
  <2>3. g \in Seq(PassageSet) /\ \A i \in DOMAIN g : g[i] \in PassageSet BY <1>4 DEF g
  <2>4. ASSUME NEW i \in DOMAIN g
        PROVE  /\ ps[i] \in PassageSet /\ ps[i].label = g[i].label /\ ps[i].chunk = g[i].chunk
               /\ g[i] \in cited => ps[i].cited
    <3> DEFINE b == g[i] \in cited
    <3>1. ps[i] = [g[i] EXCEPT !.cited = b] /\ b \in BOOLEAN /\ g[i] \in PassageSet BY <2>1, <2>3
    <3>2. g[i] \in cited => b OBVIOUS
    <3> HIDE DEF b
    <3>3. ps[i] \in PassageSet /\ ps[i].label = g[i].label /\ ps[i].chunk = g[i].chunk /\ ps[i].cited = b
      BY <3>1 DEF PassageSet
    <3> QED BY <3>2, <3>3
  <2>5. ps \in [DOMAIN g -> PassageSet] BY <2>1, <2>4
  <2>6. ps \in Seq(PassageSet) /\ DOMAIN ps = DOMAIN g BY <2>3, <2>5
  <2>7. \A q \in Entries(ps) : \E e \in Entries(g) : q.label = e.label /\ q.chunk = e.chunk
    BY <2>4, <2>6 DEF Entries
  <2>8. \A e \in Entries(g) : \E q \in Entries(ps) : q.label = e.label /\ (e \in cited => q.cited)
    BY <2>4, <2>6 DEF Entries
  <2> QED BY <2>6, <2>7, <2>8 DEF g
<1> HIDE DEF ps, Marked
<1>6. \A q \in Entries(ps) : Known(q.label, q.chunk)
  <2> HIDE DEF Known
  <2> QED BY <1>4, <1>5
<1>7. /\ Continues(run, after) /\ after.counter \in Nat /\ after.counter >= run.counter
      /\ \A l, c : Labelled(after.registry, l, c) => Known(l, c)
      /\ \A p \in Entries(ps) : p.cited => Holds(after, p.label)
  BY <1>1, <1>5, <1>6, RememberKnown
<1> HIDE DEF after
<1>8. \A e \in cited : Holds(after, e.label)
  <2> TAKE e \in cited
  <2>1. PICK q \in Entries(ps) : q.label = e.label /\ q.cited BY <1>5
  <2> QED BY <1>7, <2>1
<1>9. /\ run' \in RunStates /\ run'.counter \in Nat /\ run'.counter >= run.counter /\ run'.reused = run.reused
      /\ Distinct(run'.registry) /\ \A l, c : Labelled(run'.registry, l, c) => Known(l, c)
      /\ \A l : Holds(run, l) => Holds(run', l)
      /\ x = "agent" => \A e \in cited : Holds(run', e.label)
      /\ x # "agent" => run' = run
  <2>1. CASE x = "agent"
    <3>1. run' = [after EXCEPT !.pins = {}] /\ after \in RunStates BY <1>3, <1>7, <2>1 DEF after, ps, Continues
    <3>2. /\ run' \in RunStates /\ run'.counter = after.counter /\ run'.registry = after.registry
          /\ run'.rejected = after.rejected /\ run'.reused = after.reused
      BY <3>1 DEF RunStates
    <3>3. Distinct(run'.registry) /\ run'.reused = run.reused BY <1>7, <3>2 DEF Continues
    <3>4. \A l : Holds(run, l) => Holds(after, l) BY <1>7 DEF Continues, Holds
    <3>5. \A l : Holds(after, l) => Holds(run', l) BY <3>2 DEF Holds, Cited
    <3> HIDE DEF Known, Holds
    <3> QED BY <1>7, <1>8, <2>1, <3>2, <3>3, <3>4, <3>5
  <2>2. CASE x # "agent"
    <3>1. run' = run BY <1>3, <2>2
    <3>2. \A l, c : Labelled(run.registry, l, c) => Known(l, c) BY DEF Known
    <3>3. Distinct(run.registry) BY <1>1 DEF PassageTypes
    <3> HIDE DEF Known, Holds
    <3> QED BY <1>4, <2>2, <3>1, <3>2, <3>3
  <2> QED BY <2>1, <2>2
<1>10. /\ step'[x] = "answered" /\ cites'[x] = cited
       /\ \A y \in AnswerNodes : y # x => step'[y] = step[y] /\ cites'[y] = cites[y]
  BY <1>1, <1>2, <1>3 DEF PassageTypes
<1>11. PassageTypes'
  <2>1. cited \subseteq PassageSet BY <1>4, EntriesAre
  <2>2. cites' \in [AnswerNodes -> SUBSET PassageSet] BY <1>1, <1>3, <2>1 DEF PassageTypes
  <2>3. step' \in [AnswerNodes -> Stages] BY <1>1, <1>2 DEF PassageTypes, Stages
  <2>4. \A y \in AnswerNodes : got'[y] \in IF step'[y] = "found" THEN Seq(Chunks) ELSE Seq(PassageSet)
    BY <1>1, <1>2, <1>4, <1>10 DEF PassageTypes
  <2>5. got' = [y \in AnswerNodes |-> got'[y]] BY <1>1, <1>2 DEF PassageTypes
  <2> QED BY <1>1, <1>2, <1>9, <2>2, <2>3, <2>4, <2>5 DEF PassageTypes
<1>12. ASSUME NEW l, NEW c, Known(l, c)' PROVE Known(l, c)
  <2>1. CASE Labelled(run'.registry, l, c)
    <3> HIDE DEF Known
    <3> QED BY <1>9, <2>1
  <2>2. CASE \E y \in AnswerNodes : step'[y] # "found" /\ Labelled(got[y], l, c)
    <3>1. PICK y \in AnswerNodes : step'[y] # "found" /\ Labelled(got[y], l, c) BY <2>2
    <3>2. step[y] # "found" BY <1>2, <1>10, <3>1
    <3> QED BY <3>1, <3>2 DEF Known
  <2>3. CASE \E y \in AnswerNodes : Labelled(saved[y].sources, l, c) BY <2>3 DEF Known
  <2>4. CASE \E y \in AnswerNodes : \E e \in cites'[y] \cup saved[y].cites : e.label = l /\ e.chunk = c
    <3>0. PICK y \in AnswerNodes : \E e \in cites'[y] \cup saved[y].cites : e.label = l /\ e.chunk = c BY <2>4
    <3>1. PICK e \in cites'[y] \cup saved[y].cites : e.label = l /\ e.chunk = c BY <3>0
    <3>2. CASE y = x /\ e \in cites'[y]
      <4>1. e \in Entries(got[x]) BY <1>10, <3>2
      <4> HIDE DEF Known
      <4> QED BY <1>4, <3>1, <4>1
    <3>3. CASE ~(y = x /\ e \in cites'[y])
      <4>1. e \in cites[y] \cup saved[y].cites BY <1>10, <3>1, <3>3
      <4> QED BY <3>1, <4>1 DEF Known
    <3> QED BY <3>2, <3>3
  <2> QED BY <1>2, <1>12, <2>1, <2>2, <2>3, <2>4 DEF Known
<1>13. OneMeaning' /\ Bounded' BY <1>1, <1>4, <1>9, <1>12, NamesStay
<1>14. Durable' BY <1>1, <1>2, <1>10 DEF Durable
<1>15. Backed' BY <1>1, <1>2, <1>10 DEF Backed
<1>16. Verified'
  <2>1. \A e \in Entries(got["item"]) : step["item"] # "found" => e.chunk \in deps["item"] BY <1>1 DEF Verified
  <2>2. \A e \in cites'["item"] \cup saved["item"].cites : e.chunk \in deps["item"]
    BY <1>1, <1>2, <1>10, <2>1, NodesAre DEF Verified
  <2>3. step'["item"] # "found" => step["item"] # "found" BY <1>2, <1>10, NodesAre
  <2> QED BY <1>2, <2>1, <2>2, <2>3 DEF Verified
<1>17. Grounded' BY <1>2 DEF Grounded
<1>18. Kept'
  <2> HIDE DEF Holds, Here
  <2>1. step'["agent"] = "using" => \A e \in Entries(got["agent"]) : e.label \in run'.pins /\ Here(run', e.label)
    BY <1>1, <1>9, <1>10, NodesAre DEF Kept
  <2>2. step'["agent"] \in {"answered", "done"} => \A e \in cites'["agent"] : Holds(run', e.label)
    BY <1>1, <1>9, <1>10, NodesAre DEF Kept, KeptOf
  <2>3. step'["query"] = "done" => \A e \in cites'["query"] : Holds(run', e.label)
    BY <1>1, <1>9, <1>10, NodesAre DEF Kept, KeptOf
  <2> QED BY <1>2, <2>1, <2>2, <2>3 DEF Kept, KeptOf
<1> QED BY <1>11, <1>13, <1>14, <1>15, <1>16, <1>17, <1>18 DEF PassagesInv

\* An answer is saved with its sources, those it cites marked.
LEMMA SaveKeeps ==
  ASSUME PassagesInv, NEW x \in AnswerNodes, Passages!Save(x)
  PROVE  PassagesInv'
<1> DEFINE L == {e.label : e \in cites[x]}
           ps == [i \in DOMAIN got[x] |-> [got[x][i] EXCEPT !.cited = got[x][i].label \in L]]
           after == Passages!Remember(run, ps)
           entry == [is |-> TRUE, sources |-> ps, cites |-> cites[x]]
<1>1. PassageTypes /\ OneMeaning /\ Bounded /\ Durable /\ Backed /\ Verified /\ Grounded /\ Kept BY DEF PassagesInv
<1>2. /\ response.at = "waiting" /\ x # "item" /\ step[x] = "answered" /\ step' = [step EXCEPT ![x] = "done"]
      /\ run' = after /\ saved' = [saved EXCEPT ![x] = entry]
      /\ counter' = Passages!High({counter} \cup Passages!Labels(ps))
      /\ live' = live /\ deps' = deps /\ got' = got /\ cites' = cites /\ response' = response
  BY DEF Passages!Save, Passages!Running, Passages!Goto, Passages!Mark, Passages!HighWater
<1>3. /\ got[x] \in Seq(PassageSet)
      /\ \A e \in Entries(got[x]) : Known(e.label, e.chunk) /\ e.label \in Nat /\ e.label <= run.counter
      /\ run \in RunStates /\ run.counter \in Nat /\ counter \in Nat
  BY <1>2, GotIsKnown
<1>4. \A e \in cites[x] : e.label \in L OBVIOUS
<1>5. /\ ps \in Seq(PassageSet)
      /\ \A q \in Entries(ps) : \E e \in Entries(got[x]) : q.label = e.label /\ q.chunk = e.chunk
      /\ \A e \in Entries(got[x]) : \E q \in Entries(ps) : q.label = e.label /\ (e.label \in L => q.cited)
  <2> DEFINE g == got[x]
  <2>1. PICK D \in SUBSET PassageSet : \A e \in PassageSet : e \in D <=> e.label \in L
    <3>1. \A e \in PassageSet : e \in {f \in PassageSet : f.label \in L} <=> e.label \in L OBVIOUS
    <3>2. {f \in PassageSet : f.label \in L} \in SUBSET PassageSet OBVIOUS
    <3> QED BY <3>1, <3>2
  <2>2. ps = [i \in DOMAIN g |-> [g[i] EXCEPT !.cited = g[i].label \in L]] OBVIOUS
  <2> HIDE DEF g, ps, L
  <2>3. g \in Seq(PassageSet) /\ \A i \in DOMAIN g : g[i] \in PassageSet BY <1>3 DEF g
  <2>4. ASSUME NEW i \in DOMAIN g
        PROVE  /\ ps[i] \in PassageSet /\ ps[i].label = g[i].label /\ ps[i].chunk = g[i].chunk
               /\ g[i] \in D => ps[i].cited
    <3> DEFINE b == g[i].label \in L
    <3>1. ps[i] = [g[i] EXCEPT !.cited = b] /\ b \in BOOLEAN /\ g[i] \in PassageSet BY <2>2, <2>3
    <3>2. g[i] \in D => b BY <2>1, <2>3
    <3> HIDE DEF b
    <3>3. ps[i] \in PassageSet /\ ps[i].label = g[i].label /\ ps[i].chunk = g[i].chunk /\ ps[i].cited = b
      BY <3>1 DEF PassageSet
    <3> QED BY <3>2, <3>3
  <2>5. \A e \in Entries(g) : e.label \in L => e \in D BY <2>1, <2>3, EntriesAre
  <2>6. ps \in [DOMAIN g -> PassageSet] BY <2>2, <2>4
  <2>7. ps \in Seq(PassageSet) /\ DOMAIN ps = DOMAIN g BY <2>3, <2>6
  <2>8. \A q \in Entries(ps) : \E e \in Entries(g) : q.label = e.label /\ q.chunk = e.chunk
    BY <2>4, <2>7 DEF Entries
  <2>9. \A e \in Entries(g) : \E q \in Entries(ps) : q.label = e.label /\ (e \in D => q.cited)
    BY <2>4, <2>7 DEF Entries
  <2> QED BY <2>5, <2>7, <2>8, <2>9 DEF g
<1> HIDE DEF ps, L
<1>6. \A q \in Entries(ps) : Known(q.label, q.chunk) /\ q.label <= run.counter
  <2> HIDE DEF Known
  <2> QED BY <1>3, <1>5
<1>7. /\ Continues(run, after) /\ after.counter \in Nat /\ after.counter >= run.counter
      /\ \A l, c : Labelled(after.registry, l, c) => Known(l, c)
      /\ \A p \in Entries(ps) : p.cited => Holds(after, p.label)
  BY <1>1, <1>5, <1>6, RememberKnown
<1> HIDE DEF after
<1>8. /\ counter' \in Nat /\ counter' >= counter /\ \A q \in Entries(ps) : q.label <= counter'
  BY <1>2, <1>3, <1>5, <1>6, BoundOf
<1>9. /\ step'[x] = "done" /\ saved'[x] = entry
      /\ \A y \in AnswerNodes : y # x => step'[y] = step[y] /\ saved'[y] = saved[y]
  BY <1>1, <1>2 DEF PassageTypes
<1>10. entry.is = TRUE /\ entry.sources = ps /\ entry.cites = cites[x] OBVIOUS
<1>11. \A e \in cites[x] : \E q \in Entries(ps) : q.label = e.label /\ q.cited
  <2> TAKE e \in cites[x]
  <2>1. e \in Entries(got[x]) BY <1>1, <1>2 DEF Backed
  <2> QED BY <1>4, <1>5, <2>1
<1>12. PassageTypes'
  <2>1. entry \in SavedNodes BY <1>1, <1>5 DEF PassageTypes, SavedNodes
  <2> HIDE DEF entry
  <2>2. saved' \in [AnswerNodes -> SavedNodes] BY <1>1, <1>2, <2>1 DEF PassageTypes
  <2>3. step' \in [AnswerNodes -> Stages] BY <1>1, <1>2 DEF PassageTypes, Stages
  <2>4. \A y \in AnswerNodes : got'[y] \in IF step'[y] = "found" THEN Seq(Chunks) ELSE Seq(PassageSet)
    BY <1>1, <1>2, <1>3, <1>9 DEF PassageTypes
  <2>5. got' = [y \in AnswerNodes |-> got'[y]] BY <1>1, <1>2 DEF PassageTypes
  <2>6. run' \in RunStates /\ Distinct(run'.registry) BY <1>2, <1>7 DEF Continues
  <2> QED BY <1>1, <1>2, <1>8, <2>2, <2>3, <2>4, <2>5, <2>6 DEF PassageTypes
<1> HIDE DEF entry
<1>13. ASSUME NEW l, NEW c, Known(l, c)' PROVE Known(l, c)
  <2>1. CASE Labelled(run'.registry, l, c)
    <3> HIDE DEF Known
    <3> QED BY <1>2, <1>7, <2>1
  <2>2. CASE \E y \in AnswerNodes : step'[y] # "found" /\ Labelled(got[y], l, c)
    <3>1. PICK y \in AnswerNodes : step'[y] # "found" /\ Labelled(got[y], l, c) BY <2>2
    <3>2. step[y] # "found" BY <1>2, <1>9, <3>1
    <3> QED BY <3>1, <3>2 DEF Known
  <2>3. CASE \E y \in AnswerNodes : Labelled(saved'[y].sources, l, c)
    <3>1. PICK y \in AnswerNodes : Labelled(saved'[y].sources, l, c) BY <2>3
    <3>2. CASE y = x
      <4>1. PICK q \in Entries(ps) : q.label = l /\ q.chunk = c BY <1>9, <1>10, <3>1, <3>2 DEF Labelled
      <4> HIDE DEF Known
      <4> QED BY <1>6, <4>1
    <3>3. CASE y # x BY <1>9, <3>1, <3>3 DEF Known
    <3> QED BY <3>2, <3>3
  <2>4. CASE \E y \in AnswerNodes : \E e \in cites[y] \cup saved'[y].cites : e.label = l /\ e.chunk = c
    <3>0. PICK y \in AnswerNodes : \E e \in cites[y] \cup saved'[y].cites : e.label = l /\ e.chunk = c BY <2>4
    <3>1. PICK e \in cites[y] \cup saved'[y].cites : e.label = l /\ e.chunk = c BY <3>0
    <3>2. e \in cites[y] \cup saved[y].cites BY <1>9, <1>10, <3>1
    <3> QED BY <3>1, <3>2 DEF Known
  <2> QED BY <1>2, <1>13, <2>1, <2>2, <2>3, <2>4 DEF Known
<1>14. OneMeaning' /\ Bounded' BY <1>1, <1>2, <1>3, <1>7, <1>13, NamesStay
<1>15. Durable'
  <2>1. \A y \in AnswerNodes : /\ \A e \in saved[y].cites : e.label <= counter'
                               /\ step[y] = "reported" => \A e \in Entries(got[y]) : e.label <= counter'
    BY <1>8, DurableStays
  <2>2. \A e \in cites[x] : e.label <= counter' BY <1>8, <1>11
  <2>3. \A y \in AnswerNodes : \A e \in saved'[y].cites : e.label <= counter' BY <1>9, <1>10, <2>1, <2>2
  <2>4. \A y \in AnswerNodes : step'[y] = "reported" => \A e \in Entries(got'[y]) : e.label <= counter'
    BY <1>2, <1>9, <2>1
  <2> QED BY <2>3, <2>4 DEF Durable
<1>16. Backed' BY <1>1, <1>2, <1>9, <1>10, <1>11 DEF Backed
<1>17. Verified' BY <1>1, <1>2, <1>9, NodesAre DEF Verified
<1>18. Grounded' BY <1>2 DEF Grounded
<1>19. Kept'
  <2>1. /\ step["agent"] = "using" => \A e \in Entries(got["agent"]) : e.label \in run'.pins /\ Here(run', e.label)
        /\ step["agent"] \in {"answered", "done"} => \A e \in cites["agent"] : Holds(run', e.label)
        /\ step["query"] = "done" => \A e \in cites["query"] : Holds(run', e.label)
    BY <1>1, <1>2, <1>7, KeptStays
  <2>2. \A e \in cites[x] : Holds(run', e.label)
    <3> TAKE e \in cites[x]
    <3>1. PICK q \in Entries(ps) : q.label = e.label /\ q.cited BY <1>11
    <3> QED BY <1>2, <1>7, <3>1
  <2> QED BY <1>2, <1>9, <2>1, <2>2, NodesAre DEF Kept, KeptOf
<1> QED BY <1>12, <1>14, <1>15, <1>16, <1>17, <1>18, <1>19 DEF PassagesInv

\* The answer of an item is reported: the counter of the row covers its labels.
LEMMA ReportItemKeeps ==
  ASSUME PassagesInv, Passages!ReportItem
  PROVE  PassagesInv'
<1>1. PassageTypes /\ OneMeaning /\ Bounded /\ Durable /\ Backed /\ Verified /\ Grounded /\ Kept BY DEF PassagesInv
<1>2. /\ step["item"] = "answered" /\ step' = [step EXCEPT !["item"] = "reported"]
      /\ counter' = Passages!High({counter} \cup Passages!Labels(got["item"]))
      /\ live' = live /\ saved' = saved /\ deps' = deps /\ run' = run /\ got' = got
      /\ cites' = cites /\ response' = response
  BY DEF Passages!ReportItem, Passages!Goto, Passages!HighWater
<1>3. /\ got["item"] \in Seq(PassageSet) /\ run.counter \in Nat /\ counter \in Nat
      /\ \A e \in Entries(got["item"]) : e.label <= run.counter
  BY <1>2, NodesAre, GotIsKnown
<1>4. counter' \in Nat /\ counter' >= counter /\ \A e \in Entries(got["item"]) : e.label <= counter'
  BY <1>2, <1>3, BoundOf
<1>5. step'["item"] = "reported" /\ \A y \in AnswerNodes : y # "item" => step'[y] = step[y]
  BY <1>1, <1>2, NodesAre DEF PassageTypes
<1>6. PassageTypes'
  <2>1. step' \in [AnswerNodes -> Stages] BY <1>1, <1>2 DEF PassageTypes, Stages
  <2>2. \A y \in AnswerNodes : got'[y] \in IF step'[y] = "found" THEN Seq(Chunks) ELSE Seq(PassageSet)
    BY <1>1, <1>2, <1>3, <1>5 DEF PassageTypes
  <2>3. got' = [y \in AnswerNodes |-> got'[y]] BY <1>1, <1>2 DEF PassageTypes
  <2> QED BY <1>1, <1>2, <1>4, <2>1, <2>2, <2>3 DEF PassageTypes
<1>7. \A y \in AnswerNodes : step'[y] # "found" => step[y] # "found" BY <1>2, <1>5
<1>8. \A l, c : Known(l, c)' => Known(l, c) BY <1>2, <1>7 DEF Known
<1>9. OneMeaning' /\ Bounded' BY <1>1, <1>2, <1>3, <1>8, NamesStay
<1>10. Durable'
  <2>1. \A y \in AnswerNodes : /\ \A e \in saved[y].cites : e.label <= counter'
                               /\ step[y] = "reported" => \A e \in Entries(got[y]) : e.label <= counter'
    BY <1>4, DurableStays
  <2>2. \A y \in AnswerNodes : step'[y] = "reported" => \A e \in Entries(got'[y]) : e.label <= counter'
    BY <1>2, <1>4, <1>5, <2>1
  <2> QED BY <1>2, <2>1, <2>2 DEF Durable
<1>11. Backed' BY <1>1, <1>2, <1>5 DEF Backed
<1>12. Verified' BY <1>1, <1>2, <1>5 DEF Verified
<1>13. Grounded' BY <1>1, <1>2, NodesAre DEF Grounded
<1>14. Kept' BY <1>1, <1>2, <1>5, NodesAre DEF Kept, KeptOf
<1> QED BY <1>6, <1>9, <1>10, <1>11, <1>12, <1>13, <1>14 DEF PassagesInv

\* The item of the loop is saved, with what it cites.
LEMMA SaveItemKeeps ==
  ASSUME PassagesInv, Passages!SaveItem
  PROVE  PassagesInv'
<1> DEFINE entry == [Passages!NothingSaved EXCEPT !.is = TRUE, !.cites = cites["item"]]
<1>1. PassageTypes /\ OneMeaning /\ Bounded /\ Durable /\ Backed /\ Verified /\ Grounded /\ Kept BY DEF PassagesInv
<1>2. /\ step["item"] = "reported" /\ step' = [step EXCEPT !["item"] = "done"]
      /\ saved' = [saved EXCEPT !["item"] = entry]
      /\ live' = live /\ counter' = counter /\ deps' = deps /\ run' = run /\ got' = got
      /\ cites' = cites /\ response' = response
  BY DEF Passages!SaveItem, Passages!Goto
<1>3. Passages!NothingSaved \in SavedNodes /\ Passages!NothingSaved.sources = << >>
  <2>1. Passages!NothingSaved = [is |-> FALSE, sources |-> << >>, cites |-> {}] BY DEF Passages!NothingSaved
  <2> QED BY <2>1, NoEntries DEF SavedNodes
<1>4. entry \in SavedNodes /\ entry.sources = << >> /\ entry.cites = cites["item"]
  <2>1. cites["item"] \in SUBSET PassageSet BY <1>1, NodesAre DEF PassageTypes
  <2> QED BY <1>3, <2>1 DEF SavedNodes
<1> HIDE DEF entry
<1>5. /\ step'["item"] = "done" /\ saved'["item"] = entry
      /\ \A y \in AnswerNodes : y # "item" => step'[y] = step[y] /\ saved'[y] = saved[y]
  BY <1>1, <1>2, NodesAre DEF PassageTypes
<1>6. PassageTypes'
  <2>1. step' \in [AnswerNodes -> Stages] BY <1>1, <1>2 DEF PassageTypes, Stages
  <2>2. \A y \in AnswerNodes : got'[y] \in IF step'[y] = "found" THEN Seq(Chunks) ELSE Seq(PassageSet)
    BY <1>1, <1>2, <1>5 DEF PassageTypes
  <2>3. got' = [y \in AnswerNodes |-> got'[y]] BY <1>1, <1>2 DEF PassageTypes
  <2>4. saved' \in [AnswerNodes -> SavedNodes] BY <1>1, <1>2, <1>4 DEF PassageTypes
  <2> QED BY <1>1, <1>2, <2>1, <2>2, <2>3, <2>4 DEF PassageTypes
<1>7. ASSUME NEW l, NEW c, Known(l, c)' PROVE Known(l, c)
  <2>1. CASE Labelled(run.registry, l, c) BY <2>1 DEF Known
  <2>2. CASE \E y \in AnswerNodes : step'[y] # "found" /\ Labelled(got[y], l, c)
    <3>1. PICK y \in AnswerNodes : step'[y] # "found" /\ Labelled(got[y], l, c) BY <2>2
    <3>2. step[y] # "found" BY <1>2, <1>5, <3>1
    <3> QED BY <3>1, <3>2 DEF Known
  <2>3. CASE \E y \in AnswerNodes : Labelled(saved'[y].sources, l, c)
    <3>1. PICK y \in AnswerNodes : Labelled(saved'[y].sources, l, c) BY <2>3
    <3>2. y # "item" BY <1>4, <1>5, <3>1, NoEntries DEF Labelled
    <3> QED BY <1>5, <3>1, <3>2 DEF Known
  <2>4. CASE \E y \in AnswerNodes : \E e \in cites[y] \cup saved'[y].cites : e.label = l /\ e.chunk = c
    <3>1. PICK y \in AnswerNodes : \E e \in cites[y] \cup saved'[y].cites : e.label = l /\ e.chunk = c BY <2>4
    <3>2. PICK e \in cites[y] \cup saved'[y].cites : e.label = l /\ e.chunk = c BY <3>1
    <3>3. e \in cites[y] \cup saved[y].cites BY <1>4, <1>5, <3>2
    <3> QED BY <3>2, <3>3 DEF Known
  <2> QED BY <1>2, <1>7, <2>1, <2>2, <2>3, <2>4 DEF Known
<1>8. OneMeaning' /\ Bounded'
  <2>1. run.counter \in Nat BY <1>1 DEF PassageTypes, RunStates
  <2> QED BY <1>1, <1>2, <1>7, <2>1, NamesStay
<1>9. Durable'
  <2>1. \A e \in cites["item"] : e.label <= counter BY <1>1, <1>2, NodesAre DEF Backed, Durable
  <2>2. \A y \in AnswerNodes : \A e \in saved'[y].cites : e.label <= counter BY <1>1, <1>4, <1>5, <2>1 DEF Durable
  <2>3. \A y \in AnswerNodes : step'[y] = "reported" => \A e \in Entries(got[y]) : e.label <= counter
    BY <1>1, <1>5 DEF Durable
  <2> QED BY <1>2, <2>2, <2>3 DEF Durable
<1>10. Backed'
  <2>1. \A y \in AnswerNodes : step'[y] \in {"answered", "reported"} => cites[y] \subseteq Entries(got[y])
    BY <1>1, <1>5 DEF Backed
  <2>2. \A y \in AnswerNodes : y # "item" =>
          \A e \in saved'[y].cites : \E q \in Entries(saved'[y].sources) : q.label = e.label /\ q.cited
    BY <1>1, <1>5 DEF Backed
  <2> QED BY <1>2, <2>1, <2>2 DEF Backed
<1>11. Verified' BY <1>1, <1>2, <1>4, <1>5 DEF Verified
<1>12. Grounded' BY <1>1, <1>2, NodesAre DEF Grounded
<1>13. Kept' BY <1>1, <1>2, <1>5, NodesAre DEF Kept, KeptOf
<1> QED BY <1>6, <1>8, <1>9, <1>10, <1>11, <1>12, <1>13 DEF PassagesInv

\* A checkpoint is restored: its passages are back, and those it cites are kept.
LEMMA RestoreKeeps ==
  ASSUME PassagesInv, NEW x \in AnswerNodes, Passages!Restore(x)
  PROVE  PassagesInv'
<1> DEFINE ps == saved[x].sources
           after == Passages!Remember(run, ps)
<1>1. PassageTypes /\ OneMeaning /\ Bounded /\ Durable /\ Backed /\ Verified /\ Grounded /\ Kept BY DEF PassagesInv
<1>2. /\ response.at = "waiting" /\ x # "item" /\ step[x] = "restore" /\ step' = [step EXCEPT ![x] = "done"]
      /\ run' = after /\ cites' = [cites EXCEPT ![x] = saved[x].cites]
      /\ live' = live /\ counter' = counter /\ saved' = saved /\ deps' = deps /\ got' = got /\ response' = response
  BY DEF Passages!Restore, Passages!Running, Passages!Goto
<1>3. saved[x] \in SavedNodes /\ ps \in Seq(PassageSet) /\ saved[x].cites \subseteq PassageSet /\ run.counter \in Nat
  BY <1>1 DEF PassageTypes, SavedNodes, RunStates
<1>4. \A q \in Entries(ps) : Known(q.label, q.chunk) BY DEF Known, Labelled
<1> HIDE DEF ps
<1>5. /\ Continues(run, after) /\ after.counter \in Nat /\ after.counter >= run.counter
      /\ \A l, c : Labelled(after.registry, l, c) => Known(l, c)
      /\ \A p \in Entries(ps) : p.cited => Holds(after, p.label)
  BY <1>1, <1>3, <1>4, RememberKnown
<1> HIDE DEF after
<1>6. /\ step'[x] = "done" /\ cites'[x] = saved[x].cites
      /\ \A y \in AnswerNodes : y # x => step'[y] = step[y] /\ cites'[y] = cites[y]
  BY <1>1, <1>2 DEF PassageTypes
<1>7. PassageTypes'
  <2>1. cites' \in [AnswerNodes -> SUBSET PassageSet] BY <1>1, <1>2, <1>3 DEF PassageTypes
  <2>2. step' \in [AnswerNodes -> Stages] BY <1>1, <1>2 DEF PassageTypes, Stages
  <2>3. \A y \in AnswerNodes : got'[y] \in IF step'[y] = "found" THEN Seq(Chunks) ELSE Seq(PassageSet)
    BY <1>1, <1>2, <1>6 DEF PassageTypes
  <2>4. got' = [y \in AnswerNodes |-> got'[y]] BY <1>1, <1>2 DEF PassageTypes
  <2>5. run' \in RunStates /\ Distinct(run'.registry) BY <1>2, <1>5 DEF Continues
  <2> QED BY <1>1, <1>2, <2>1, <2>2, <2>3, <2>4, <2>5 DEF PassageTypes
<1>8. ASSUME NEW l, NEW c, Known(l, c)' PROVE Known(l, c)
  <2>1. CASE Labelled(run'.registry, l, c)
    <3> HIDE DEF Known
    <3> QED BY <1>2, <1>5, <2>1
  <2>2. CASE \E y \in AnswerNodes : step'[y] # "found" /\ Labelled(got[y], l, c)
    <3>1. PICK y \in AnswerNodes : step'[y] # "found" /\ Labelled(got[y], l, c) BY <2>2
    <3>2. step[y] # "found" BY <1>2, <1>6, <3>1
    <3> QED BY <3>1, <3>2 DEF Known
  <2>3. CASE \E y \in AnswerNodes : Labelled(saved[y].sources, l, c) BY <2>3 DEF Known
  <2>4. CASE \E y \in AnswerNodes : \E e \in cites'[y] \cup saved[y].cites : e.label = l /\ e.chunk = c
    <3>1. PICK y \in AnswerNodes : \E e \in cites'[y] \cup saved[y].cites : e.label = l /\ e.chunk = c BY <2>4
    <3>2. PICK e \in cites'[y] \cup saved[y].cites : e.label = l /\ e.chunk = c BY <3>1
    <3>3. e \in cites[y] \cup saved[y].cites BY <1>6, <3>2
    <3> QED BY <3>2, <3>3 DEF Known
  <2> QED BY <1>2, <1>8, <2>1, <2>2, <2>3, <2>4 DEF Known
<1>9. OneMeaning' /\ Bounded' BY <1>1, <1>2, <1>3, <1>5, <1>8, NamesStay
<1>10. Durable' BY <1>1, <1>2, <1>6 DEF Durable
<1>11. Backed' BY <1>1, <1>2, <1>6 DEF Backed
<1>12. Verified' BY <1>1, <1>2, <1>6, NodesAre DEF Verified
<1>13. Grounded' BY <1>2 DEF Grounded
<1>14. Kept'
  <2>1. /\ step["agent"] = "using" => \A e \in Entries(got["agent"]) : e.label \in run'.pins /\ Here(run', e.label)
        /\ step["agent"] \in {"answered", "done"} => \A e \in cites["agent"] : Holds(run', e.label)
        /\ step["query"] = "done" => \A e \in cites["query"] : Holds(run', e.label)
    BY <1>1, <1>2, <1>5, KeptStays
  <2>2. \A e \in saved[x].cites : Holds(run', e.label)
    <3> TAKE e \in saved[x].cites
    <3>1. PICK q \in Entries(ps) : q.label = e.label /\ q.cited BY <1>1, <1>2 DEF Backed, ps
    <3> QED BY <1>2, <1>5, <3>1
  <2> QED BY <1>2, <1>6, <2>1, <2>2, NodesAre DEF Kept, KeptOf
<1> QED BY <1>7, <1>9, <1>10, <1>11, <1>12, <1>13, <1>14 DEF PassagesInv

\* A saved item is reused without its passages.
LEMMA ReuseItemKeeps ==
  ASSUME PassagesInv, Passages!ReuseItem
  PROVE  PassagesInv'
<1>1. PassageTypes /\ OneMeaning /\ Bounded /\ Durable /\ Backed /\ Verified /\ Grounded /\ Kept BY DEF PassagesInv
<1>2. /\ step["item"] = "restore" /\ step' = [step EXCEPT !["item"] = "done"]
      /\ run' = [run EXCEPT !.reused = TRUE] /\ cites' = [cites EXCEPT !["item"] = saved["item"].cites]
      /\ live' = live /\ counter' = counter /\ saved' = saved /\ deps' = deps /\ got' = got /\ response' = response
  BY DEF Passages!ReuseItem, Passages!Goto
<1>3. /\ run' \in RunStates /\ run'.registry = run.registry /\ run'.pins = run.pins /\ run'.rejected = run.rejected
      /\ run'.counter = run.counter /\ run.counter \in Nat
  BY <1>1, <1>2 DEF PassageTypes, RunStates
<1>4. /\ step'["item"] = "done" /\ cites'["item"] = saved["item"].cites
      /\ \A y \in AnswerNodes : y # "item" => step'[y] = step[y] /\ cites'[y] = cites[y]
  BY <1>1, <1>2, NodesAre DEF PassageTypes
<1>5. PassageTypes'
  <2>1. saved["item"].cites \subseteq PassageSet BY <1>1, NodesAre DEF PassageTypes, SavedNodes
  <2>2. cites' \in [AnswerNodes -> SUBSET PassageSet] BY <1>1, <1>2, <2>1 DEF PassageTypes
  <2>3. step' \in [AnswerNodes -> Stages] BY <1>1, <1>2 DEF PassageTypes, Stages
  <2>4. \A y \in AnswerNodes : got'[y] \in IF step'[y] = "found" THEN Seq(Chunks) ELSE Seq(PassageSet)
    BY <1>1, <1>2, <1>4 DEF PassageTypes
  <2>5. got' = [y \in AnswerNodes |-> got'[y]] BY <1>1, <1>2 DEF PassageTypes
  <2>6. Distinct(run'.registry) BY <1>1, <1>3 DEF PassageTypes
  <2> QED BY <1>1, <1>2, <1>3, <2>2, <2>3, <2>4, <2>5, <2>6 DEF PassageTypes
<1>6. ASSUME NEW l, NEW c, Known(l, c)' PROVE Known(l, c)
  <2>1. CASE Labelled(run.registry, l, c) BY <2>1 DEF Known
  <2>2. CASE \E y \in AnswerNodes : step'[y] # "found" /\ Labelled(got[y], l, c)
    <3>1. PICK y \in AnswerNodes : step'[y] # "found" /\ Labelled(got[y], l, c) BY <2>2
    <3>2. step[y] # "found" BY <1>2, <1>4, <3>1
    <3> QED BY <3>1, <3>2 DEF Known
  <2>3. CASE \E y \in AnswerNodes : Labelled(saved[y].sources, l, c) BY <2>3 DEF Known
  <2>4. CASE \E y \in AnswerNodes : \E e \in cites'[y] \cup saved[y].cites : e.label = l /\ e.chunk = c
    <3>1. PICK y \in AnswerNodes : \E e \in cites'[y] \cup saved[y].cites : e.label = l /\ e.chunk = c BY <2>4
    <3>2. PICK e \in cites'[y] \cup saved[y].cites : e.label = l /\ e.chunk = c BY <3>1
    <3>3. e \in cites[y] \cup saved[y].cites BY <1>4, <3>2
    <3> QED BY <3>2, <3>3 DEF Known
  <2> QED BY <1>2, <1>3, <1>6, <2>1, <2>2, <2>3, <2>4 DEF Known
<1>7. OneMeaning' /\ Bounded' BY <1>1, <1>3, <1>6, NamesStay
<1>8. Durable' BY <1>1, <1>2, <1>4 DEF Durable
<1>9. Backed' BY <1>1, <1>2, <1>4 DEF Backed
<1>10. Verified' BY <1>1, <1>2, <1>4 DEF Verified
<1>11. Grounded' BY <1>1, <1>2, NodesAre DEF Grounded
<1>12. Kept'
  <2>1. \A l : (Holds(run, l) <=> Holds(run', l)) /\ (Here(run, l) <=> Here(run', l))
    BY <1>3 DEF Holds, Cited, Here
  <2> HIDE DEF Holds, Here
  <2>2. step'["agent"] = "using" => \A e \in Entries(got["agent"]) : e.label \in run'.pins /\ Here(run', e.label)
    BY <1>1, <1>3, <1>4, <2>1, NodesAre DEF Kept
  <2>3. step'["agent"] \in {"answered", "done"} => \A e \in cites'["agent"] : Holds(run', e.label)
    BY <1>1, <1>4, <2>1, NodesAre DEF Kept, KeptOf
  <2>4. step'["query"] = "done" => \A e \in cites'["query"] : Holds(run', e.label)
    BY <1>1, <1>4, <2>1, NodesAre DEF Kept, KeptOf
  <2> QED BY <1>2, <2>2, <2>3, <2>4 DEF Kept, KeptOf
<1> QED BY <1>5, <1>7, <1>8, <1>9, <1>10, <1>11, <1>12 DEF PassagesInv

\* The next attempt counts from what is saved: above every label that is known.
LEMMA NextAttemptKeeps ==
  ASSUME PassagesInv, Passages!NextAttempt
  PROVE  PassagesInv'
<1>1. PassageTypes /\ OneMeaning /\ Bounded /\ Durable /\ Backed /\ Verified /\ Grounded /\ Kept BY DEF PassagesInv
<1>2. /\ run' = Passages!FreshRun
      /\ step' = [x \in AnswerNodes |-> IF saved[x].is THEN "restore" ELSE "ready"]
      /\ got' = [x \in AnswerNodes |-> << >>] /\ cites' = [x \in AnswerNodes |-> {}]
      /\ live' = live /\ counter' = counter /\ saved' = saved /\ deps' = deps
  BY NodesAre DEF Passages!NextAttempt
<1>3. response' \in Responses /\ response'.at \in {"waiting", "refused"}
  <2>1. response' = Passages!Waiting \/ response' = [Passages!Waiting EXCEPT !.at = "refused"]
    BY DEF Passages!NextAttempt
  <2>2. Passages!Waiting \in Responses /\ Passages!Waiting.at = "waiting"
    BY NoEntries DEF Passages!Waiting, Responses
  <2>3. /\ [Passages!Waiting EXCEPT !.at = "refused"] \in Responses
        /\ [Passages!Waiting EXCEPT !.at = "refused"].at = "refused"
    BY <2>2 DEF Responses
  <2> QED BY <2>1, <2>2, <2>3
<1>4. run.counter \in Nat /\ counter \in Nat /\ \A x \in AnswerNodes : saved[x] \in SavedNodes
  BY <1>1 DEF PassageTypes, RunStates
<1>5. \A x \in AnswerNodes : \A e \in Entries(saved[x].sources) : Known(e.label, e.chunk) /\ e.label \in Nat
  <2> TAKE x \in AnswerNodes
  <2> TAKE e \in Entries(saved[x].sources)
  <2>1. Known(e.label, e.chunk) BY DEF Known, Labelled
  <2> HIDE DEF Known
  <2> QED BY <1>1, <2>1 DEF Bounded
<1> DEFINE L == {counter} \cup UNION {Passages!Labels(saved[x].sources) : x \in Passages!Nodes}
<1>6. L \in SUBSET Nat /\ \A l \in L : l <= run.counter + counter
  <2>1. ASSUME NEW l \in L PROVE l \in Nat /\ l <= run.counter + counter
    <3>1. CASE l = counter BY <1>4, <3>1
    <3>2. CASE l # counter
      <4>1. PICK x \in AnswerNodes : l \in Passages!Labels(saved[x].sources) BY <2>1, <3>2, NodesAre
      <4>2. PICK e \in Entries(saved[x].sources) : e.label = l BY <4>1, LabelsAre
      <4>3. l \in Nat /\ l <= run.counter
        <5> HIDE DEF Known
        <5> QED BY <1>1, <1>5, <4>2 DEF Bounded
      <4> QED BY <1>4, <4>3
    <3> QED BY <3>1, <3>2
  <2> HIDE DEF L
  <2> QED BY <2>1
<1>7. counter \in L /\ \A x \in AnswerNodes : \A e \in Entries(saved[x].sources) : e.label \in L
  BY LabelsAre, NodesAre
<1>8. run' = [registry |-> << >>, pins |-> {}, rejected |-> {}, reused |-> FALSE, counter |-> Passages!High(L)]
  BY <1>2 DEF Passages!FreshRun
<1> HIDE DEF L
<1>9. run.counter + counter \in Nat BY <1>4
<1>10. Passages!High(L) \in Nat /\ \A l \in L : l <= Passages!High(L) BY <1>6, <1>9, HighIs
<1>11. /\ run' \in RunStates /\ run'.registry = << >> /\ run'.counter \in Nat /\ run'.counter >= counter
       /\ \A x \in AnswerNodes : \A e \in Entries(saved[x].sources) : e.label <= run'.counter
  BY <1>4, <1>7, <1>8, <1>10, NoEntries DEF RunStates
<1>12. \A x \in AnswerNodes : step'[x] \in {"restore", "ready"} /\ got'[x] = << >> /\ cites'[x] = {} BY <1>2
<1>13. PassageTypes'
  <2>1. step' \in [AnswerNodes -> Stages] BY <1>2 DEF Stages
  <2>2. \A y \in AnswerNodes : got'[y] \in IF step'[y] = "found" THEN Seq(Chunks) ELSE Seq(PassageSet)
    BY <1>12, NoEntries
  <2>3. got' = [y \in AnswerNodes |-> got'[y]] BY <1>2
  <2>4. cites' \in [AnswerNodes -> SUBSET PassageSet] BY <1>2
  <2>5. Distinct(run'.registry) BY <1>11, NoEntries
  <2> QED BY <1>1, <1>2, <1>3, <1>11, <2>1, <2>2, <2>3, <2>4, <2>5 DEF PassageTypes
<1>14. ASSUME NEW l, NEW c, Known(l, c)' PROVE Known(l, c) /\ l \in Nat /\ l <= run'.counter
  <2>1. ~Labelled(run'.registry, l, c) /\ \A y \in AnswerNodes : ~Labelled(got'[y], l, c)
    BY <1>11, <1>12, NoEntries DEF Labelled
  <2>2. \E y \in AnswerNodes : \/ Labelled(saved[y].sources, l, c)
                               \/ \E e \in saved[y].cites : e.label = l /\ e.chunk = c
    BY <1>2, <1>12, <1>14, <2>1 DEF Known
  <2>3. PICK y \in AnswerNodes : \/ Labelled(saved[y].sources, l, c)
                                 \/ \E e \in saved[y].cites : e.label = l /\ e.chunk = c
    BY <2>2
  <2>4. Known(l, c) BY <2>3 DEF Known
  <2>5. l \in Nat
    <3> HIDE DEF Known
    <3> QED BY <1>1, <2>4 DEF Bounded
  <2>6. l <= run'.counter
    <3>1. CASE Labelled(saved[y].sources, l, c) BY <1>11, <3>1 DEF Labelled
    <3>2. CASE \E e \in saved[y].cites : e.label = l /\ e.chunk = c
      <4>1. l <= counter BY <1>1, <3>2 DEF Durable
      <4> QED BY <1>4, <1>11, <2>5, <4>1
    <3> QED BY <2>3, <3>1, <3>2
  <2> QED BY <2>4, <2>5, <2>6
<1>15. OneMeaning' /\ Bounded'
  <2> HIDE DEF Known
  <2>1. OneMeaning' BY <1>1, <1>14 DEF OneMeaning
  <2>2. Bounded' BY <1>14 DEF Bounded
  <2> QED BY <2>1, <2>2
<1>16. Durable' BY <1>1, <1>2, <1>12 DEF Durable
<1>17. Backed' BY <1>1, <1>2, <1>12 DEF Backed
<1>18. Verified' BY <1>1, <1>2, <1>12, NodesAre, NoEntries DEF Verified
<1>19. Grounded' BY <1>3 DEF Grounded
<1>20. Kept' BY <1>12, NodesAre DEF Kept
<1> QED BY <1>13, <1>15, <1>16, <1>17, <1>18, <1>19, <1>20 DEF PassagesInv

\* The other steps are those of the Response, and of the knowledge base.
LEMMA OthersKeep ==
  ASSUME PassagesInv, counter' = counter, saved' = saved, deps' = deps, run' = run, step' = step, got' = got,
         cites' = cites, live' \subseteq live, response' \in Responses, Grounded'
  PROVE  PassagesInv'
<1>1. PassageTypes /\ OneMeaning /\ Bounded /\ Durable /\ Backed /\ Verified /\ Kept BY DEF PassagesInv
<1>2. PassageTypes' BY <1>1 DEF PassageTypes
<1>3. \A l, c : Known(l, c)' <=> Known(l, c) BY DEF Known
<1>4. OneMeaning' /\ Bounded'
  <2>1. run.counter \in Nat BY <1>1 DEF PassageTypes, RunStates
  <2> HIDE DEF Known
  <2> QED BY <1>1, <1>3, <2>1, NamesStay
<1>5. Durable' /\ Backed' /\ Verified' BY <1>1 DEF Durable, Backed, Verified
<1>6. Kept' BY <1>1 DEF Kept, KeptOf
<1> QED BY <1>2, <1>4, <1>5, <1>6 DEF PassagesInv

\* The Response reads the registry, checks what it rests on, and publishes.
LEMMA ResponseKeeps ==
  ASSUME PassagesInv, Passages!Ground \/ Passages!Verify \/ Passages!Publish \/ Passages!Refused
  PROVE  PassagesInv'
<1>1. PassageTypes /\ Grounded BY DEF PassagesInv
<1>2. /\ live' = live /\ counter' = counter /\ saved' = saved /\ deps' = deps /\ run' = run /\ step' = step
      /\ got' = got /\ cites' = cites
  BY DEF Passages!Ground, Passages!Verify, Passages!Publish, Passages!Refused
<1>3. response \in Responses /\ run.registry \in Seq(PassageSet) /\ live \subseteq Chunks
  BY <1>1 DEF PassageTypes, RunStates
<1>4. Passages!Needed' = Passages!Needed BY <1>2 DEF Passages!Needed
<1>5. Passages!Needed \subseteq Chunks
  <2>1. Passages!ChunksOf(run.registry) \subseteq Chunks BY <1>3, LabelsAre, EntriesAre
  <2>2. deps["item"] \subseteq Chunks BY <1>1, NodesAre DEF PassageTypes
  <2> QED BY <2>1, <2>2 DEF Passages!Needed
<1>6. response' \in Responses /\ Grounded'
  <2>1. CASE Passages!Ground
    <3>1. /\ response' = [at |-> "checking", checked |-> {}, needed |-> Passages!Needed, registry |-> run.registry]
          /\ \A x \in AnswerNodes : step[x] = "done"
      BY <2>1, NodesAre DEF Passages!Ground
    <3>2. response' \in Responses BY <1>3, <1>5, <3>1 DEF Responses
    <3>3. Grounded' BY <1>2, <1>4, <3>1 DEF Grounded
    <3> QED BY <3>2, <3>3
  <2>2. CASE Passages!Verify
    <3>1. response.at = "checking" BY <2>2 DEF Passages!Verify
    <3>2. PICK c \in live : response' = [response EXCEPT !.checked = @ \cup {c}] BY <2>2 DEF Passages!Verify
    <3>3. response' \in Responses /\ response'.at = "checking" /\ response'.needed = response.needed
          /\ response'.registry = response.registry
      BY <1>3, <3>1, <3>2 DEF Responses
    <3>4. Grounded' BY <1>1, <1>2, <1>4, <3>1, <3>3 DEF Grounded
    <3> QED BY <3>3, <3>4
  <2>3. CASE Passages!Publish
    <3>1. /\ response.at = "checking" /\ response.needed = response.checked
          /\ response' = [response EXCEPT !.at = "published"]
      BY <2>3 DEF Passages!Publish
    <3>2. /\ response' \in Responses /\ response'.needed = response.needed /\ response'.checked = response.checked
          /\ response'.registry = response.registry
      BY <1>3, <3>1 DEF Responses
    <3>3. Grounded' BY <1>1, <1>2, <1>4, <3>1, <3>2 DEF Grounded
    <3> QED BY <3>2, <3>3
  <2>4. CASE Passages!Refused
    <3>1. response' = [Passages!Waiting EXCEPT !.at = "refused"] BY <2>4 DEF Passages!Refused
    <3>2. Passages!Waiting \in Responses BY NoEntries DEF Passages!Waiting, Responses
    <3>3. response' \in Responses /\ response'.at = "refused" BY <3>1, <3>2 DEF Responses
    <3>4. Grounded' BY <3>3 DEF Grounded
    <3> QED BY <3>3, <3>4
  <2> QED BY <2>1, <2>2, <2>3, <2>4
<1>7. live' \subseteq live BY <1>2
<1> QED BY <1>2, <1>6, <1>7, OthersKeep

\* Every step keeps the invariant of the passages.
LEMMA StepPassages == PassagesInv /\ [Passages!Next]_(Passages!vars) => PassagesInv'
<1> SUFFICES ASSUME PassagesInv, [Passages!Next]_(Passages!vars) PROVE PassagesInv' OBVIOUS
<1>1. PassageTypes /\ Grounded BY DEF PassagesInv
<1>2. CASE Passages!Next
  <2>1. ASSUME NEW x \in AnswerNodes, Passages!Search(x) PROVE PassagesInv' BY <2>1, SearchKeeps
  <2>2. ASSUME NEW x \in AnswerNodes, Passages!Register(x) PROVE PassagesInv' BY <2>2, RegisterKeeps
  <2>3. ASSUME NEW x \in AnswerNodes, Passages!Collect(x) PROVE PassagesInv' BY <2>3, CollectKeeps
  <2>4. ASSUME NEW x \in AnswerNodes, Passages!Answer(x) PROVE PassagesInv' BY <2>4, AnsweredKeeps
  <2>5. ASSUME NEW x \in AnswerNodes, Passages!Save(x) PROVE PassagesInv' BY <2>5, SaveKeeps
  <2>6. ASSUME NEW x \in AnswerNodes, Passages!Restore(x) PROVE PassagesInv' BY <2>6, RestoreKeeps
  <2>7. CASE Passages!ReportItem BY <2>7, ReportItemKeeps
  <2>8. CASE Passages!SaveItem BY <2>8, SaveItemKeeps
  <2>9. CASE Passages!ReuseItem BY <2>9, ReuseItemKeeps
  <2>10. CASE Passages!Ground \/ Passages!Verify \/ Passages!Publish \/ Passages!Refused BY <2>10, ResponseKeeps
  <2>11. CASE Passages!NextAttempt BY <2>11, NextAttemptKeeps
  <2>12. CASE Passages!RemoveDocument
    <3>1. /\ counter' = counter /\ saved' = saved /\ deps' = deps /\ run' = run /\ step' = step /\ got' = got
          /\ cites' = cites /\ response' = response /\ live' \subseteq live
      BY <2>12 DEF Passages!RemoveDocument
    <3>2. response' \in Responses BY <1>1, <3>1 DEF PassageTypes
    <3>3. Passages!Needed' = Passages!Needed BY <3>1 DEF Passages!Needed
    <3>4. Grounded' BY <1>1, <3>1, <3>3 DEF Grounded
    <3> QED BY <3>1, <3>2, <3>4, OthersKeep
  <2> QED BY <1>2, <2>1, <2>2, <2>3, <2>4, <2>5, <2>6, <2>7, <2>8, <2>9, <2>10, <2>11, <2>12, NodesAre
      DEF Passages!Next
<1>3. CASE UNCHANGED Passages!vars
  <2>1. /\ counter' = counter /\ saved' = saved /\ deps' = deps /\ run' = run /\ step' = step /\ got' = got
        /\ cites' = cites /\ response' = response /\ live' = live
    BY <1>3 DEF Passages!vars
  <2>2. response' \in Responses /\ live' \subseteq live BY <1>1, <2>1 DEF PassageTypes
  <2>3. Passages!Needed' = Passages!Needed BY <2>1 DEF Passages!Needed
  <2>4. Grounded' BY <1>1, <2>1, <2>3 DEF Grounded
  <2> QED BY <2>1, <2>2, <2>4, OthersKeep
<1> QED BY <1>2, <1>3

\* What the invariant says of a published text, and of what the nodes use.
LEMMA PassagesAre == PassagesInv => Passages!PublishedSources /\ Passages!UsedKept
<1> SUFFICES ASSUME PassagesInv PROVE Passages!PublishedSources /\ Passages!UsedKept OBVIOUS
<1>1. PassageTypes /\ OneMeaning /\ Verified /\ Grounded /\ Kept BY DEF PassagesInv
<1>2. Passages!PublishedSources
  <2> SUFFICES ASSUME response.at = "published"
               PROVE  /\ \A x \in AnswerNodes : \A c \in cites[x] : \A i \in DOMAIN response.registry :
                           response.registry[i].label = c.label =>
                             response.registry[i].chunk = c.chunk /\ c.chunk \in response.checked
                      /\ run.reused => \A c \in cites["item"] : c.chunk \in response.checked
    BY NodesAre DEF Passages!PublishedSources
  <2>1. response.registry = run.registry /\ response.checked = Passages!Needed BY <1>1 DEF Grounded
  <2>2. ASSUME NEW x \in AnswerNodes, NEW c \in cites[x], NEW i \in DOMAIN run.registry,
               run.registry[i].label = c.label
        PROVE  run.registry[i].chunk = c.chunk /\ c.chunk \in response.checked
    <3>1. run.registry[i] \in Entries(run.registry) BY DEF Entries
    <3>2. Known(c.label, run.registry[i].chunk) BY <2>2, <3>1 DEF Known, Labelled
    <3>3. Known(c.label, c.chunk) BY DEF Known
    <3>4. run.registry[i].chunk = c.chunk
      <4> HIDE DEF Known
      <4> QED BY <1>1, <3>2, <3>3 DEF OneMeaning
    <3>5. c.chunk \in Passages!ChunksOf(run.registry) BY <3>1, <3>4, LabelsAre
    <3> QED BY <2>1, <3>4, <3>5 DEF Passages!Needed
  <2>3. ASSUME run.reused, NEW c \in cites["item"] PROVE c.chunk \in response.checked
    BY <1>1, <2>1, <2>3 DEF Verified, Passages!Needed
  <2> QED BY <2>1, <2>2, <2>3
<1>3. Passages!UsedKept
  <2>1. \A l : Here(run, l) => l \in Passages!Labels(run.registry) BY LabelsAre DEF Here
  <2>2. \A l : Holds(run, l) => l \in Passages!Labels(run.registry) \cup run.rejected
    BY LabelsAre DEF Holds, Cited
  <2>3. step["agent"] = "using" => Passages!Labels(got["agent"]) \subseteq Passages!Labels(run.registry)
    BY <1>1, <2>1, LabelsAre DEF Kept
  <2> HIDE DEF Holds
  <2>4. /\ step["agent"] \in {"answered", "done"} =>
             {c.label : c \in cites["agent"]} \subseteq Passages!Labels(run.registry) \cup run.rejected
        /\ step["query"] = "done" =>
             {c.label : c \in cites["query"]} \subseteq Passages!Labels(run.registry) \cup run.rejected
    BY <1>1, <2>2 DEF Kept, KeptOf
  <2> QED BY <2>3, <2>4 DEF Passages!UsedKept
<1> QED BY <1>2, <1>3

\* For all knowledge bases, and however small the registry and long the run: a label in
\* a published text that resolves names the passage its author cited, in whichever
\* attempt, and what it rests on was checked; and what an agent uses or a finished
\* answer cites is not evicted (response_node, verify_published, remember_evidence).
THEOREM PublishedIsVerified == Passages!Spec => [](Passages!PublishedSources /\ Passages!UsedKept)
BY InitPassages, StepPassages, PassagesAre, PTL DEF Passages!Spec
=============================================================================
