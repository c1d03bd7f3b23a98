------------------------------ MODULE Accounts ------------------------------
(***************************************************************************)
(* Who may enter a deployment and for how long: registration, invitations, *)
(* sessions and the event streams they keep open (auth.py, main.py).       *)
(* Passwords are right; Access has the others.  What the first account     *)
(* takes over is Workspace.                                                *)
(***************************************************************************)
EXTENDS Integers, FiniteSets, Sequences

CONSTANTS
  Browsers, Emails,
  MaxInvites, \* Bound: invitations the operator issues
  Clock,      \* Bound: time
  Lifetime,   \* SESSION_SECONDS
  MaxTokens   \* Bound: sessions ever made

VARIABLES
  now,
  mode,      \* AUTH_REGISTRATION_MODE of the running server
  accounts,  \* each account's e-mail, and the mode and invitation that let it in
  bootstrap, \* was the local workspace claimed?
  invites,   \* each invitation: for whom, until when, and whether it was used
  sessions,  \* token -> account, expiry and the browser it was made for
  tokens,    \* how many sessions were made
  cookie,    \* each browser's token
  calls,     \* browsers' requests, with the cookie they carry and their answer
  stream,    \* each browser's event stream
  orderly    \* browsers whose answers all came

book == <<mode, accounts, bootstrap, invites>>
held == <<sessions, tokens>>
net == <<cookie, calls, stream, orderly>>
vars == <<now, book, held, net>>

None == 0
Waiting == -1
Refused == -2
Modes == {"open", "invite", "closed"}
Valid(token) == token \in DOMAIN sessions /\ sessions[token].expires > now
Known(email) == \E i \in DOMAIN accounts : accounts[i].email = email
Of(b) == {c \in calls : c.browser = b}

-----------------------------------------------------------------------------
(* A browser's requests, one at a time, and their answers, some of them lost. *)

Send(b, kind, email, invite) ==
  /\ Of(b) = {}
  /\ calls' = calls \cup {[browser |-> b, kind |-> kind, email |-> email, invite |-> invite,
                           carried |-> cookie[b], answer |-> Waiting]}
  /\ UNCHANGED <<now, book, held, cookie, stream, orderly>>

Answered(call, answer) ==
  /\ calls' = (calls \ {call}) \cup {[call EXCEPT !.answer = answer]}
  /\ UNCHANGED <<now, mode, cookie, stream, orderly>>

\* A denied request changes nothing: its sender keeps the cookie it has.
Denied(call) == Answered(call, Refused) /\ UNCHANGED <<accounts, bootstrap, invites, held>>

\* A new session ends the one whose cookie the request carried, and clears away
\* those that have expired.
Ended(call) == {call.carried} \cup {t \in DOMAIN sessions : sessions[t].expires <= now}
CreateSession(call, account) ==
  LET token == tokens + 1
      new == [account |-> account, expires |-> now + Lifetime, browser |-> call.browser] IN
  /\ tokens < MaxTokens /\ tokens' = token
  /\ sessions' = [t \in (DOMAIN sessions \ Ended(call)) \cup {token} |-> IF t = token THEN new ELSE sessions[t]]
  /\ Answered(call, token)

Invited(call) ==
  /\ call.invite \in DOMAIN invites /\ ~invites[call.invite].used /\ invites[call.invite].expires > now
  /\ invites[call.invite].email \in {"", call.email}
Admits(call) ==
  /\ mode = "closed" => ~bootstrap /\ accounts = <<>>
  /\ mode = "invite" => Invited(call)

Redeem(call) == IF mode = "invite" THEN [invites EXCEPT ![call.invite].used = TRUE] ELSE invites

\* The account, the invitation and the claim are one transaction under one lock;
\* an e-mail that is taken undoes it all.
Register(call) ==
  /\ call.answer = Waiting /\ call.kind = "register"
  /\ IF Admits(call) /\ ~Known(call.email)
     THEN /\ accounts' = Append(accounts, [email |-> call.email, mode |-> mode, invite |-> IF mode = "invite" THEN call.invite ELSE None])
          /\ invites' = Redeem(call) /\ bootstrap' = TRUE
          /\ CreateSession(call, Len(accounts'))
     ELSE Denied(call)

Login(call) ==
  /\ call.answer = Waiting /\ call.kind = "login"
  /\ \/ ~Known(call.email) /\ Denied(call)
     \/ \E i \in DOMAIN accounts :
          /\ accounts[i].email = call.email /\ CreateSession(call, i)
          /\ UNCHANGED <<accounts, bootstrap, invites>>

Logout(call) ==
  /\ call.answer = Waiting /\ call.kind = "logout"
  /\ sessions' = [t \in DOMAIN sessions \ {call.carried} |-> sessions[t]]
  /\ Answered(call, None)
  /\ UNCHANGED <<accounts, bootstrap, invites, tokens>>

Deliver(call) ==
  /\ call.answer # Waiting
  /\ calls' = calls \ {call}
  /\ cookie' = IF call.answer = Refused THEN cookie ELSE [cookie EXCEPT ![call.browser] = call.answer]
  /\ UNCHANGED <<now, book, held, stream, orderly>>
Lose(call) ==
  /\ calls' = calls \ {call} /\ orderly' = orderly \ {call.browser}
  /\ UNCHANGED <<now, book, held, cookie, stream>>

-----------------------------------------------------------------------------
(* An event stream checks its session before each batch it reads and sends. *)

Idle == [token |-> None, checked |-> FALSE, late |-> 0]
Follow(b) ==
  /\ stream[b].token = None /\ Valid(cookie[b])
  /\ stream' = [stream EXCEPT ![b] = [Idle EXCEPT !.token = cookie[b]]]
  /\ UNCHANGED <<now, book, held, cookie, calls, orderly>>
Check(b) ==
  /\ stream[b].token # None /\ ~stream[b].checked
  /\ stream' = [stream EXCEPT ![b] = IF Valid(stream[b].token) THEN [@ EXCEPT !.checked = TRUE] ELSE Idle]
  /\ UNCHANGED <<now, book, held, cookie, calls, orderly>>
Batch(b) ==
  /\ stream[b].checked
  /\ stream' = [stream EXCEPT ![b].checked = FALSE, ![b].late = IF Valid(stream[b].token) THEN @ ELSE @ + 1]
  /\ UNCHANGED <<now, book, held, cookie, calls, orderly>>

-----------------------------------------------------------------------------
(* The operator and time. *)

\* Expired invitations are cleared away; nothing tells them from those kept.
Issue(email) ==
  /\ Len(invites) < MaxInvites
  /\ invites' = Append(invites, [email |-> email, expires |-> now + 1, used |-> FALSE])
  /\ UNCHANGED <<now, mode, accounts, bootstrap, held, net>>
\* A restart closes registration; the mode of a running server does not change.
Restart ==
  /\ mode # "closed" /\ mode' = "closed"
  /\ calls' = {} /\ stream' = [b \in Browsers |-> Idle] /\ orderly' = {b \in orderly : Of(b) = {}}
  /\ UNCHANGED <<now, accounts, bootstrap, invites, held, cookie>>
Tick == now < Clock /\ now' = now + 1 /\ UNCHANGED <<book, held, net>>

\* An older deployment may have an account and no record of a claim.
Init ==
  /\ now = 0 /\ mode \in Modes /\ bootstrap = FALSE
  /\ accounts \in {<<>>, <<[email |-> "a", mode |-> "old", invite |-> None]>>}
  /\ invites = <<>> /\ sessions = <<>> /\ tokens = 0
  /\ cookie = [b \in Browsers |-> None] /\ calls = {} /\ orderly = Browsers
  /\ stream = [b \in Browsers |-> Idle]

Next ==
  \/ \E b \in Browsers, e \in Emails :
       Send(b, "login", e, None) \/ \E i \in 1..MaxInvites : Send(b, "register", e, i)
  \/ \E b \in Browsers : Send(b, "logout", "", None) \/ Follow(b) \/ Check(b) \/ Batch(b)
  \/ \E c \in calls : Register(c) \/ Login(c) \/ Logout(c) \/ Deliver(c) \/ Lose(c)
  \/ \E e \in Emails \cup {""} : Issue(e)
  \/ Restart \/ Tick

Spec == Init /\ [][Next]_vars

-----------------------------------------------------------------------------
\* A closed deployment admits its first account and no other, and an invitation
\* admits one account, however its requests are repeated or race.
EnteredByRight ==
  \A i, j \in DOMAIN accounts :
    /\ accounts[i].mode = "closed" => i = 1
    /\ accounts[i].invite # None /\ i # j => accounts[i].invite # accounts[j].invite
    /\ i # j => accounts[i].email # accounts[j].email

\* A browser that got all its answers can leave nothing behind: of the
\* sessions made for it, the one in its cookie is the only one that still opens
\* the door, and none does after it signed out.
OneSessionEach ==
  \A b \in orderly : Of(b) = {} => \A t \in DOMAIN sessions : sessions[t].browser = b /\ Valid(t) => cookie[b] = t

\* A stream sends at most the batch it was reading when its session ended.
StreamsEnd == \A b \in Browsers : stream[b].late <= 1
=============================================================================
