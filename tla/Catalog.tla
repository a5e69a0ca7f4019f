-------------------------------- MODULE Catalog --------------------------------
(***************************************************************************)
(* Frameworks and their controls (api/routes/frameworks_admin.py): those   *)
(* of the code, copied into the database at startup and shared by every    *)
(* tenant (services/framework_store.py), and those a tenant defines.       *)
(*                                                                         *)
(* A request reads what it checks, is suspended, and commits.  The         *)
(* database is PostgreSQL: it enforces foreign keys and gives no id twice. *)
(***************************************************************************)
EXTENDS Naturals, FiniteSets

CONSTANTS
  Owners,        \* tenants
  Shared,        \* what stands for no tenant: a framework of everyone's
  Releases,      \* the keys of the code's frameworks, release by release
  Names,         \* keys of the names tenants give
  ControlNames,  \* ids of controls, as standards number them
  Editors,       \* request slots, numbered
  MaxEdits,      \* bound on requests (TLC)
  MaxSecond      \* the seconds a request may come in (TLC)

ASSUME CatalogAssumption ==
  /\ Shared \notin Owners /\ Editors \subseteq Nat /\ MaxEdits \in Nat /\ MaxSecond \in Nat \ {0}
  /\ IsFiniteSet(ControlNames) /\ ControlNames # {} /\ \A n \in DOMAIN Releases : IsFiniteSet(Releases[n])
  /\ DOMAIN Releases = 1..Cardinality(DOMAIN Releases) /\ 1 \in DOMAIN Releases /\ Releases[1] # {}
  /\ \A n, m \in DOMAIN Releases : n <= m => Releases[n] \subseteq Releases[m]

VARIABLES
  release,       \* the release that runs
  frameworks,    \* their rows
  controls,      \* their rows, each with the tenant that wrote it
  lastId,        \* the last id given to a framework and to a control
  edit,          \* per slot: what its request has read
  edits,         \* how many requests there were
  excused        \* history: pairs of frameworks that could not see one another
catalogVars == <<release, frameworks, controls, lastId, edit, edits, excused>>

NoEdit == [op |-> "none"]
\* The plain key of a name, or the one stamped with the time.
FreeKeys == (Names \cup UNION {Releases[n] : n \in DOMAIN Releases}) \X (0..MaxSecond)
FrameworkRow == [id : Nat, key : FreeKeys, owner : Owners \cup {Shared}, builtin : BOOLEAN]
ControlRow == [id : Nat, of : Nat, name : ControlNames, by : Owners \cup {Shared}]

CatalogTypeOK ==
  /\ release \in DOMAIN Releases /\ edits \in 0..MaxEdits
  /\ frameworks \subseteq FrameworkRow /\ controls \subseteq ControlRow
  /\ \A f, g \in frameworks : f.id = g.id => f = g
  /\ \A c, d \in controls : c.id = d.id => c = d
  /\ \A c \in controls : \E f \in frameworks : c.of = f.id

\* One framework of the code per key: a key some built-in has is passed over.
Missing(keys) == {k \in keys : \A f \in frameworks : f.builtin => f.key # <<k, 0>>}

\* It stands for the controls a framework of the code comes with.
OneControl == CHOOSE c \in ControlNames : TRUE

\* Startup: copies what is missing, with its controls, in one commit.  Requests
\* of the platform that stopped are gone.
Startup(n) ==
  LET new == Missing(Releases[n])
      numbered == CHOOSE s \in [new -> 1..Cardinality(new)] : \A j, k \in new : s[j] = s[k] => j = k
      id(k) == lastId.framework + numbered[k]
      born == {[id |-> id(k), key |-> <<k, 0>>, owner |-> Shared, builtin |-> TRUE] : k \in new}
  IN  /\ release' = n
      /\ frameworks' = frameworks \cup born
      /\ controls' = controls \cup
           {[id |-> lastId.control + numbered[k], of |-> id(k), name |-> OneControl,
             by |-> Shared] : k \in new}
      /\ lastId' = [framework |-> lastId.framework + Cardinality(new),
                    control |-> lastId.control + Cardinality(new)]
      /\ excused' = excused \cup {{f.id, g.id} : f \in born, g \in frameworks}
      /\ edit' = [e \in Editors |-> NoEdit]
      /\ UNCHANGED edits

CatalogInit ==
  /\ release = 1 /\ frameworks = {} /\ controls = {} /\ excused = {}
  /\ lastId = [framework |-> 0, control |-> 0]
  /\ edit = [e \in Editors |-> NoEdit] /\ edits = 0

-------------------------------------------------------------------------------
(* What a tenant is shown, and may edit.                                   *)

Visible(t) == {f \in frameworks : f.owner \in {t, Shared}}
ControlsOf(f) == {c \in controls : c.of = f}
\* By key.  Where two share one, the views that want all take the last the
\* database lists, and those that want one the first.
Framework(k, t) == {f \in Visible(t) : f.key = k}

\* Anyone may edit what is everyone's.
Editable(t) == Visible(t)

\* Slots are taken in order.
Takes(e, r) ==
  /\ edit[e] = NoEdit /\ \A d \in Editors : d < e => edit[d] # NoEdit
  /\ edits < MaxEdits /\ edits' = edits + 1 /\ edit' = [edit EXCEPT ![e] = r]
Ends(e) == edit' = [edit EXCEPT ![e] = NoEdit] /\ UNCHANGED <<edits, release>>
Untouched == UNCHANGED <<release, frameworks, controls, lastId, excused>>

\* The name's key, if it is free; otherwise one with the time appended, which
\* is not looked up again.
\* Mutant: only the tenant's own frameworks are looked at.
CreateBeginsOwn(e, t, k) ==
  /\ Takes(e, [op |-> "create", by |-> t, key |-> k, seen |-> {f.id : f \in frameworks},
               clash |-> \E f \in frameworks : f.owner = t /\ f.key = <<k, 0>>])
  /\ Untouched
CreateBegins(e, t, k) ==
  /\ Takes(e, [op |-> "create", by |-> t, key |-> k, seen |-> {f.id : f \in frameworks},
               clash |-> Framework(<<k, 0>>, t) # {}])
  /\ Untouched

CreateEnds(e, second) ==
  LET r == edit[e]
      new == [id |-> lastId.framework + 1, owner |-> r.by, builtin |-> FALSE,
              key |-> IF r.clash THEN <<r.key, second>> ELSE <<r.key, 0>>]
  IN  /\ r.op = "create" /\ (~r.clash => second = 1) /\ Ends(e)
      /\ frameworks' = frameworks \cup {new} /\ lastId' = [lastId EXCEPT !.framework = @ + 1]
      \* Those created meanwhile, and one stamped in the same second.
      /\ excused' = excused \cup
           {{new.id, f.id} : f \in {g \in frameworks : g.id \notin r.seen \/ (r.clash /\ g.key = new.key)}}
      /\ UNCHANGED controls

\* Its owner's admin.
DeleteBegins(e, t, f) ==
  /\ f.owner = t /\ ~f.builtin
  /\ Takes(e, [op |-> "delete", by |-> t, of |-> f.id, read |-> {c.id : c \in ControlsOf(f.id)}])
  /\ Untouched

\* The controls that were read and the framework.  No relationship tells the
\* session which to delete first, and the framework first is refused while it
\* has controls; either way it is with one that was not read.
DeleteEnds(e) ==
  LET r == edit[e]
      kept == {c \in controls : c.id \notin r.read}
  IN  /\ r.op = "delete" /\ Ends(e)
      /\ \/ /\ \A c \in kept : c.of # r.of
            /\ controls' = kept /\ frameworks' = {f \in frameworks : f.id # r.of}
         \/ ControlsOf(r.of) # {} /\ UNCHANGED <<controls, frameworks>>
      /\ UNCHANGED <<lastId, excused>>

\* New controls: one, or a file's; a file may replace those there are.
WriteBegins(e, t, f, replace) ==
  /\ Takes(e, [op |-> "write", by |-> t, of |-> f.id, replace |-> replace,
               read |-> IF replace THEN {c.id : c \in ControlsOf(f.id)} ELSE {}])
  /\ Untouched

Numbered(r, names) ==
  LET place == CHOOSE s \in [names -> 1..Cardinality(names)] : \A j, k \in names : s[j] = s[k] => j = k
  IN  {[id |-> lastId.control + place[n], of |-> r.of, name |-> n, by |-> r.by] : n \in names}

WriteEnds(e, names) ==
  LET r == edit[e]
  IN  /\ r.op = "write" /\ (names = {} => r.replace) /\ Ends(e)
      /\ IF names = {} \/ \E f \in frameworks : f.id = r.of
         THEN controls' = {c \in controls : c.id \notin r.read} \cup Numbered(r, names)
         ELSE UNCHANGED controls
      /\ lastId' = [lastId EXCEPT !.control = @ + Cardinality(names)]
      /\ UNCHANGED <<frameworks, excused>>

\* One control is rewritten, or deleted.
ChangeBegins(e, t, c, op) ==
  /\ \E f \in Editable(t) : f.id = c.of
  /\ Takes(e, [op |-> op, by |-> t, control |-> c.id])
  /\ Untouched

\* Rewriting a row that is gone is an error, deleting it is not.
ChangeEnds(e, name) ==
  LET r == edit[e]
      old == {c \in controls : c.id = r.control}
      new == {[c EXCEPT !.name = name, !.by = r.by] : c \in old}
  IN  /\ r.op \in {"rewrite", "remove"} /\ Ends(e)
      /\ controls' = (controls \ old) \cup IF r.op = "rewrite" THEN new ELSE {}
      /\ UNCHANGED <<frameworks, lastId, excused>>

CatalogNext ==
  \/ \E n \in {m \in DOMAIN Releases : m >= release} :
       (frameworks = {} \/ n > release \/ \E e \in Editors : edit[e] # NoEdit) /\ Startup(n)
  \/ /\ frameworks # {}
     /\ \E e \in Editors :
          \/ \E t \in Owners :
               \/ \E k \in Names : CreateBegins(e, t, k)
               \/ \E f \in frameworks : DeleteBegins(e, t, f)
               \/ \E f \in Editable(t), replace \in BOOLEAN : WriteBegins(e, t, f, replace)
               \/ \E c \in controls, op \in {"rewrite", "remove"} : ChangeBegins(e, t, c, op)
          \/ \E second \in 1..MaxSecond : CreateEnds(e, second)
          \/ DeleteEnds(e)
          \/ \E names \in SUBSET ControlNames : WriteEnds(e, names)
          \/ \E name \in ControlNames : ChangeEnds(e, name)

CatalogSpec == CatalogInit /\ [][CatalogNext]_catalogVars

-------------------------------------------------------------------------------
\* Two frameworks a tenant is shown have different keys, so that every view
\* means the same one: but for those created over one another, twice stamped in
\* one second, or a built-in that came with a later release.
KeysDistinct ==
  \A t \in Owners : \A f, g \in Visible(t) : f # g /\ f.key = g.key => {f.id, g.id} \in excused

\* Every framework of the code is there once, however often the platform
\* starts and whatever tenants do.
BuiltinsStay ==
  frameworks # {} =>
    \A k \in Releases[release] : Cardinality({f \in frameworks : f.builtin /\ f.key = <<k, 0>>}) = 1

\* What stands in a tenant's own framework its own users wrote.
OwnControls ==
  \A f \in frameworks : f.owner # Shared => \A c \in ControlsOf(f.id) : c.by = f.owner

CatalogSound == KeysDistinct /\ BuiltinsStay /\ OwnControls
===============================================================================
