----------------------------- MODULE SwitchCases ----------------------------
(***************************************************************************)
(* The cases of a Switch in the editor, and the connections that start at  *)
(* them (lib/switch.ts, switch-cases.tsx).  A draft may hold entries that  *)
(* are no cases, as an imported file has them; each stays until its author *)
(* repairs or removes it.  Labels are left out.                            *)
(***************************************************************************)
EXTENDS Integers, Sequences, FiniteSets, SequencesExt

CONSTANTS
  MaxCases,   \* MAX_CASES
  Ids,        \* the route ids that are valid
  Rules,      \* what a rule may be
  MaxEdges,   \* Bound: connections of the Switch in the draft that is opened
  MaxWho      \* Bound: entries ever made

VARIABLES
  list,      \* are the saved cases a list?
  entries,   \* the entries, each with the identity its author knows it by
  edges,     \* connections, each with the entry it was drawn from
  made       \* how many entries were made

vars == <<list, entries, edges, made>>

None == 0
Default == -1      \* the two routes that are the Switch's own
Reserved == {Default, -2}
BadId == -3        \* a text that is no valid route id
NoRule == 0        \* no rule, or one of a wrong shape
Nobody == 0

Entry(who, kind, id, rule) == [who |-> who, kind |-> kind, id |-> id, rule |-> rule]
Kinds == {"case", "record", "other"}   \* has id, label and rule; lacks some; no record at all
Edge(key, node, handle, of) == [key |-> key, node |-> node, handle |-> handle, of |-> of]
Here(e) == e.node = "switch"

-----------------------------------------------------------------------------
Shared(es, i) == \E j \in DOMAIN es \ {i} : es[j].id = es[i].id

\* Mutant: a shared or reserved id belongs to its entry too.
AnyId(es, i) == es[i].id

\* ownedId: the route that belongs to an entry alone, valid or not.
OwnedId(es, i) == IF es[i].id \in Reserved \cup {None} \/ Shared(es, i) THEN None ELSE es[i].id

\* caseProblem
Editable(es, i) == es[i].kind = "case" /\ es[i].id \in Ids /\ ~Shared(es, i)

\* CONFIGURED_ROUTES.switch: the handles that are drawn.
Routes ==
  IF list /\ Len(entries) \in 1 .. MaxCases /\ \A i \in DOMAIN entries : entries[i].id \in Ids /\ ~Shared(entries, i)
  THEN {entries[i].id : i \in DOMAIN entries} \cup {Default} ELSE {}

\* entryConnections
Connections(i) == {e \in edges : Here(e) /\ e.handle = OwnedId(entries, i)}

\* newCaseId: an id that no entry has.  It is drawn from 36^6: that it is by
\* chance one that an orphaned connection still mentions is left out.
FreshIds == Ids \ ({entries[i].id : i \in DOMAIN entries} \cup {e.handle : e \in edges})

-----------------------------------------------------------------------------
Add ==
  /\ list /\ Len(entries) < MaxCases /\ made < MaxWho /\ made' = made + 1
  /\ \E id \in FreshIds : entries' = Append(entries, Entry(made + 1, "case", id, NoRule))
  /\ UNCHANGED <<list, edges>>
Update(i) ==
  /\ Editable(entries, i) /\ \E rule \in Rules : entries' = [entries EXCEPT ![i].rule = rule]
  /\ UNCHANGED <<list, edges, made>>
Move(i, to) ==
  /\ Editable(entries, i) /\ to \in DOMAIN entries
  /\ entries' = [entries EXCEPT ![i] = entries[to], ![to] = entries[i]]
  /\ UNCHANGED <<list, edges, made>>

\* The connections at an id go with it.
Follows(id, new) ==
  {IF Here(e) /\ id # None /\ e.handle = id THEN [e EXCEPT !.handle = new] ELSE e : e \in edges}

\* replaceEntry: a valid id of its own is kept; the connections at any other id
\* of its own move with it.
Repair(i) ==
  LET owned == OwnedId(entries, i) IN
  /\ ~Editable(entries, i)
  /\ \E id \in IF owned \in Ids THEN {owned} ELSE FreshIds :
       /\ entries' = [entries EXCEPT ![i] = Entry(@.who, "case", id, @.rule)]
       /\ edges' = Follows(owned, id)
  /\ UNCHANGED <<list, made>>

\* removeCase, removeEntry: with the connections at its own id.
Drop(i) ==
  /\ Len(entries) > 1
  /\ entries' = RemoveAt(entries, i) /\ edges' = edges \ Connections(i)
  /\ UNCHANGED <<list, made>>

\* resetCases: nobody knows what the old routes meant.
Reset ==
  /\ ~list /\ list' = TRUE /\ made < MaxWho /\ made' = made + 1
  /\ \E id \in FreshIds : entries' = <<Entry(made + 1, "case", id, NoRule)>>
  /\ edges' = {e \in edges : ~Here(e) \/ e.handle = Default}

\* A connection is drawn from a handle that is shown, or deleted.
Drawer(handle) ==
  IF handle = Default THEN Default
  ELSE LET at == {i \in DOMAIN entries : OwnedId(entries, i) = handle /\ handle # None}
       IN  IF at = {} THEN Nobody ELSE entries[CHOOSE i \in at : TRUE].who
Connect ==
  /\ \E handle \in Routes, key \in 1 .. MaxEdges :
       /\ \A e \in edges : e.key # key
       /\ edges' = edges \cup {Edge(key, "switch", handle, Drawer(handle))}
  /\ UNCHANGED <<list, entries, made>>
Disconnect ==
  /\ \E e \in {x \in edges : Here(x)} : edges' = edges \ {e}
  /\ UNCHANGED <<list, entries, made>>

\* A draft as it is imported; another node has a connection of the same name.
Drafts ==
  UNION {{es \in [1 .. n -> [who : 1 .. n, kind : Kinds, id : Ids \cup Reserved \cup {None, BadId}, rule : Rules \cup {NoRule}]] :
            \A i \in 1 .. n : es[i].who = i /\ (es[i].kind = "other" => es[i].id = None)
                              /\ (es[i].kind = "case" => es[i].id # None)
                              /\ es[i].rule = IF es[i].kind = "case" THEN 1 ELSE NoRule} : n \in 0 .. 2}
Init ==
  /\ list \in BOOLEAN /\ entries \in Drafts /\ (list <=> entries # <<>>) /\ made = Len(entries)
  /\ \E handles \in [1 .. MaxEdges -> {1, Default, BadId, None}] :
       edges = {Edge(0, "another", 1, Nobody)} \cup
         {Edge(k, "switch", handles[k], Drawer(handles[k])) : k \in {x \in 1 .. MaxEdges : handles[x] # None}}

Next ==
  \/ Add \/ Reset \/ Connect \/ Disconnect
  \/ \E i \in DOMAIN entries : Update(i) \/ Move(i, i - 1) \/ Move(i, i + 1) \/ Repair(i) \/ Drop(i)

Spec == Init /\ [][Next]_vars

-----------------------------------------------------------------------------
Whos(es) == {es[i].who : i \in DOMAIN es}

\* A connection means what it meant when it was drawn: it starts at the case it
\* was drawn from, through every rename, move and repair, never at another one,
\* and the Default stays the Default (switch.ts:1-6).
RoutesKept ==
  \A e \in edges : Here(e) =>
    /\ e.of = Default <=> e.handle = Default
    /\ \A i \in DOMAIN entries :
         /\ OwnedId(entries, i) = e.handle => e.of \in {Nobody, entries[i].who}
         /\ e.of = entries[i].who => e.handle = entries[i].id

\* No connection goes but with its own case, or by itself; nothing that is
\* repaired loses its rule, and other nodes' connections are not touched.  A
\* connection that two entries shared goes with the one that keeps the id.
NothingDropped ==
  LET gone == {e \in edges : \A f \in edges' : f.key # e.key} IN
  /\ \A e \in gone :
       /\ Here(e)
       /\ \/ entries' = entries /\ gone = {e}
          \/ ~list /\ e.of # Default
          \/ e.of \notin Whos(entries') \cup {Nobody, Default}
          \/ e.of = Nobody /\ \E i \in DOMAIN entries :
               OwnedId(entries, i) = e.handle /\ entries[i].who \notin Whos(entries')
  /\ \A e \in edges : ~Here(e) => e \in edges'
  /\ \A i \in DOMAIN entries, j \in DOMAIN entries' :
       entries[i].who = entries'[j].who /\ entries[i].rule # entries'[j].rule => Editable(entries, i)
=============================================================================
