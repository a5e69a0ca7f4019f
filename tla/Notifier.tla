------------------------------- MODULE Notifier -------------------------------
(***************************************************************************)
(* The live events (main.py, ConnectionManager): a set of sockets per      *)
(* tenant.  A broadcast goes through the set with an await per socket and  *)
(* then puts the set without the dead ones in its place.  Meanwhile        *)
(* sockets come and go, and other scans of the tenant broadcast.           *)
(*                                                                         *)
(* A set is an object: while it is by_tenant's, a broadcast that goes      *)
(* through it sees it change, and Python raises at the next step if its    *)
(* size has; once another set has taken its place, nothing changes it any  *)
(* more ("own" is what such a broadcast has left).                         *)
(***************************************************************************)
EXTENDS Access

CONSTANTS
  Sockets,       \* sockets, each used once
  MaxScans       \* bound on broadcasts (TLC)

ASSUME NotifierAssumption == MaxScans \in Nat /\ IsFiniteSet(Sockets)

VARIABLES
  socket,        \* per socket: "new", "open", "broken" or "gone", and its tenant
  byTenant,      \* per tenant: its sockets; the absent key is the empty set
  broadcast,     \* per handler: the broadcast it is at
  scans,         \* how many there were
  rewound        \* history: tenants a broadcast gave back an older set

notifierVars == <<socket, byTenant, broadcast, scans, rewound>>

\* A broadcast goes through its tenant's set, or through its own; of a size and
\* of sockets it began with; and remembers whom it has seen, and found dead.
Silent == [on |-> FALSE]
Broadcasts ==
  [on : {TRUE}, of : Tenants, shared : BOOLEAN, own : SUBSET Sockets, size : Nat,
   first : SUBSET Sockets, seen : SUBSET Sockets, dead : SUBSET Sockets]

NotifierTypeOK ==
  /\ socket \in [Sockets -> [is : {"new", "open", "broken", "gone"}, tenant : Tenants \cup {None}]]
  /\ byTenant \in [Tenants -> SUBSET Sockets]
  /\ broadcast \in [Handlers -> {Silent} \cup Broadcasts]
  /\ scans \in 0..MaxScans
  /\ rewound \subseteq Tenants

NotifierInit ==
  /\ socket = [s \in Sockets |-> [is |-> "new", tenant |-> None]]
  /\ byTenant = [t \in Tenants |-> {}]
  /\ broadcast = [h \in Handlers |-> Silent]
  /\ scans = 0
  /\ rewound = {}

\* The socket is accepted, and bound to the tenant its user has then.
Connect(s, t) ==
  /\ socket[s].is = "new"
  /\ socket' = [socket EXCEPT ![s] = [is |-> "open", tenant |-> t]]
  /\ byTenant' = [byTenant EXCEPT ![t] = @ \cup {s}]
  /\ UNCHANGED <<broadcast, scans, rewound>>

Breaks(s) ==
  /\ socket[s].is = "open"
  /\ socket' = [socket EXCEPT ![s].is = "broken"]
  /\ UNCHANGED <<byTenant, broadcast, scans, rewound>>

\* Leaving empties the key: the set object is dropped, and a broadcast going
\* through it is left with it, empty.
Leave(t, s) ==
  /\ byTenant' = [byTenant EXCEPT ![t] = @ \ {s}]
  /\ broadcast' = [h \in Handlers |->
       IF broadcast[h].on /\ broadcast[h].of = t /\ broadcast[h].shared /\ byTenant[t] = {s}
       THEN [broadcast[h] EXCEPT !.shared = FALSE, !.own = {}] ELSE broadcast[h]]

Disconnect(s) ==
  /\ socket[s].is = "broken"
  /\ socket' = [socket EXCEPT ![s].is = "gone"]
  /\ Leave(socket[s].tenant, s)
  /\ UNCHANGED <<scans, rewound>>

\* The handler ends with another exception: nobody takes the socket out.
HandlerFails(s) ==
  /\ socket[s].is \in {"open", "broken"}
  /\ socket' = [socket EXCEPT ![s].is = "gone"]
  /\ UNCHANGED <<byTenant, broadcast, scans, rewound>>

-------------------------------------------------------------------------------
\* The set a broadcast goes through, as it is now.
Conns(b) == IF b.shared THEN byTenant[b.of] ELSE b.own

BroadcastBegin(h, t) ==
  /\ ~broadcast[h].on /\ byTenant[t] # {} /\ scans < MaxScans
  /\ scans' = scans + 1
  /\ broadcast' = [broadcast EXCEPT ![h] =
       [on |-> TRUE, of |-> t, shared |-> TRUE, own |-> {}, size |-> Cardinality(byTenant[t]),
        first |-> byTenant[t], seen |-> {}, dead |-> {}]]
  /\ UNCHANGED <<socket, byTenant, rewound>>

Resized(b) == Cardinality(Conns(b)) # b.size

\* Sending to a socket that is no longer open may fail, or not yet.
BroadcastSend(h, s, fails) ==
  LET b == broadcast[h]
  IN  /\ b.on /\ ~Resized(b) /\ s \in Conns(b) \ b.seen
      /\ fails => socket[s].is # "open"
      /\ broadcast' = [broadcast EXCEPT ![h].seen = @ \cup {s},
                                        ![h].dead = IF fails THEN @ \cup {s} ELSE @]
      /\ UNCHANGED <<socket, byTenant, scans, rewound>>

\* "Set changed size during iteration": the scan swallows it, and the rest of
\* its events with it.
BroadcastRaises(h) ==
  /\ broadcast[h].on /\ Resized(broadcast[h])
  /\ broadcast' = [broadcast EXCEPT ![h] = Silent]
  /\ UNCHANGED <<socket, byTenant, scans, rewound>>

\* Mutant: every socket that was written to is dropped.
RemainingUnseen(b) == Conns(b) \ b.seen
Remaining(b) == Conns(b) \ b.dead

\* A new set takes the place; the broadcasts that go through the old one keep
\* that to themselves.  A socket that took another's place may be passed over.
BroadcastEnd(h) ==
  LET b == broadcast[h]
  IN  /\ b.on /\ ~Resized(b) /\ b.first \cap Conns(b) \subseteq b.seen
      /\ byTenant' = [byTenant EXCEPT ![b.of] = Remaining(b)]
      /\ rewound' = IF b.shared THEN rewound ELSE rewound \cup {b.of}
      /\ broadcast' = [k \in Handlers |->
           LET o == broadcast[k]
           IN  IF k = h THEN Silent
               ELSE IF o.on /\ o.of = b.of /\ o.shared
               THEN [o EXCEPT !.shared = FALSE, !.own = byTenant[b.of]] ELSE o]
      /\ UNCHANGED <<socket, scans>>

NotifierNext ==
  \/ \E s \in Sockets :
       \/ \E t \in Tenants : Connect(s, t)
       \/ Breaks(s)
       \/ Disconnect(s)
       \/ HandlerFails(s)
       \/ \E h \in Handlers, fails \in BOOLEAN : BroadcastSend(h, s, fails)
  \/ \E h \in Handlers :
       \/ \E t \in Tenants : BroadcastBegin(h, t)
       \/ BroadcastRaises(h)
       \/ BroadcastEnd(h)

NotifierSpec == NotifierInit /\ [][NotifierNext]_notifierVars

\* An open socket gets its tenant's events and no other's: it stays in its
\* tenant's set and in no broadcast of another tenant, unless a broadcast that
\* was overtaken by another put an older set back (main.py, line 45).
SocketsServed ==
  /\ \A t \in Tenants, s \in Sockets :
       s \in byTenant[t] => socket[s].tenant = t
  /\ \A s \in Sockets :
       socket[s].is = "open" => s \in byTenant[socket[s].tenant] \/ socket[s].tenant \in rewound
  /\ \A h \in Handlers : broadcast[h].on =>
       \A s \in broadcast[h].seen : socket[s].tenant = broadcast[h].of
===============================================================================
