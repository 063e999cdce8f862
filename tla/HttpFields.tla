----------------------------- MODULE HttpFields -----------------------------
(***************************************************************************)
(* The header collections of one HTTP invocation: wasi:http/types fields   *)
(* (engine/wasi/http/host/types.rs) in the resource table of the guest.    *)
(* A collection is shared by reference count (WithChildren, engine/mod.rs) *)
(* between the request and the handles that `headers` makes of it, which   *)
(* are children of the request in the table and cannot be written through; *)
(* every other handle is the parent of a collection of its own.            *)
(*                                                                         *)
(* wasmtime's table refuses to delete an entry that has children: the call *)
(* traps, and the guest is done.                                           *)
(***************************************************************************)
EXTENDS Integers, SequencesExt

CONSTANTS
  Handle,        \* indices of the table
  Coll,          \* collections
  RequestColl,   \* the collection of the incoming request
  RequestMap,    \* what it holds
  Name,          \* names that are valid, forbidden ones included
  Forbidden,     \* names that guests may not use
  BadName,       \* a name that does not parse
  Raw,           \* values as guests give them
  Parsed,        \* Parsed[n, v]: the value that v is for n, or BadValue
  BadValue,
  MaxValues      \* how many values a name has at most

Value == {Parsed[x] : x \in Name \X Raw} \ {BadValue}
HeaderMap == [Name -> BoundedSeq(Value, MaxValues)]

ASSUME FieldsAssumption ==
  /\ RequestColl \in Coll
  /\ Forbidden \subseteq Name /\ BadName \notin Name
  /\ DOMAIN Parsed = Name \X Raw
  /\ MaxValues \in Nat /\ RequestMap \in HeaderMap
  /\ IsFiniteSet(Handle) /\ IsFiniteSet(Coll)
  /\ Cardinality(Coll) > Cardinality(Handle) + 1

VARIABLES
  map,         \* the contents of each collection
  handle,      \* the handles of the guest
  request,     \* the incoming request: "live" or "dropped"
  response,    \* the outgoing response
  result,      \* how the last call went
  created      \* history: the headers that the response was created with

fieldsVars == <<map, handle, request, response, result, created>>

None == [kind |-> "none", coll |-> RequestColl]
Handles == [kind : {"none", "parent", "child"}, coll : Coll]
Empty == [n \in Name |-> <<>>]
Errors == {"invalid-syntax", "forbidden", "immutable"}

FieldsTypeOK ==
  /\ map \in [Coll -> HeaderMap]
  /\ handle \in [Handle -> Handles]
  /\ request \in {"live", "dropped"}
  /\ response \in [at : {"none", "held", "dropped", "sent"}, coll : Coll]
  /\ result \in {"ok", "trap"} \cup Errors
  /\ created \in HeaderMap

FieldsInit ==
  /\ map = [c \in Coll |-> IF c = RequestColl THEN RequestMap ELSE Empty]
  /\ handle = [h \in Handle |-> None]
  /\ request = "live"
  /\ response = [at |-> "none", coll |-> RequestColl]
  /\ result = "ok"
  /\ created = Empty

Free(h) == handle[h].kind = "none"
Live(h) == handle[h].kind # "none"
Guest == result # "trap"

\* A collection lives as long as somebody refers to it; that of the request
\* is not used again.
ReferredBy(hs, r) ==
  {hs[h].coll : h \in {k \in Handle : hs[k].kind # "none"}}
    \cup {RequestColl}
    \cup (IF r.at = "held" THEN {r.coll} ELSE {})

Referred == ReferredBy(handle, response)

Collected(hs, r) ==
  [c \in Coll |-> IF c \in ReferredBy(hs, r) THEN map[c] ELSE Empty]

\* A free index of the table, and a collection that is not in use.
HasRoom == Guest /\ \E h \in Handle : Free(h)
Index == CHOOSE h \in Handle : Free(h)
Fresh == CHOOSE c \in Coll : c \notin Referred

Fails(how) ==
  /\ result' = how
  /\ UNCHANGED <<map, handle, request, response, created>>

-----------------------------------------------------------------------------
(***************************************************************************)
(* push_fields: a new collection with a parent handle.                     *)
(***************************************************************************)
Push(m) ==
  /\ HasRoom
  /\ handle' = [handle EXCEPT ![Index] = [kind |-> "parent", coll |-> Fresh]]
  /\ map' = [map EXCEPT ![Fresh] = m]
  /\ result' = "ok"
  /\ UNCHANGED <<request, response, created>>

New == Push(Empty)

(***************************************************************************)
(* What is wrong with a list of entries, each checked in turn: its name,   *)
(* whether it is forbidden, its value.                                     *)
(***************************************************************************)
NameError(n) ==
  CASE n = BadName -> "invalid-syntax"
    [] n \in Forbidden -> "forbidden"
    [] n \in Name \ Forbidden -> "ok"

ValueError(n, v) == IF Parsed[n, v] = BadValue THEN "invalid-syntax" ELSE "ok"

EntryError(e) == IF NameError(e.name) # "ok" THEN NameError(e.name)
                 ELSE ValueError(e.name, e.value)

FirstError(errors) ==
  LET bad == {i \in DOMAIN errors : errors[i] # "ok"}
  IN IF bad = {} THEN "ok" ELSE errors[Min(bad)]

ListError(entries) ==
  FirstError([i \in DOMAIN entries |-> EntryError(entries[i])])

ValuesOf(n, vs) == [i \in DOMAIN vs |-> Parsed[n, vs[i]]]

\* append: the values of a name are in the order of the list.
Nth(at, k) == CHOOSE i \in at : Cardinality({j \in at : j <= i}) = k

MapOf(entries) ==
  [n \in Name |->
     LET at == {i \in DOMAIN entries : entries[i].name = n}
     IN ValuesOf(n, [k \in 1 .. Cardinality(at) |-> entries[Nth(at, k)].value])]

FromList(entries) ==
  \/ ListError(entries) = "ok" /\ Push(MapOf(entries))
  \/ Guest /\ ListError(entries) # "ok" /\ Fails(ListError(entries))

\* Mutant: the clone shares the collection of the original.
CloneShares(h) ==
  /\ Live(h) /\ HasRoom
  /\ handle' = [handle EXCEPT ![Index] = [kind |-> "parent",
                                          coll |-> handle[h].coll]]
  /\ result' = "ok"
  /\ UNCHANGED <<map, request, response, created>>

Clone(h) == Live(h) /\ Push(map[handle[h].coll])

-----------------------------------------------------------------------------
(***************************************************************************)
(* Writing.  The arguments are checked before the handle is, and nothing   *)
(* is written unless everything is in order.                               *)
(***************************************************************************)
\* Mutant: get_mut does not tell a child from a parent.
ImmutableNever(h) == FALSE

Immutable(h) == handle[h].kind = "child"

Write(h, n, error, values) ==
  /\ Guest /\ Live(h)
  /\ LET e == FirstError(<<NameError(n), error,
                           IF Immutable(h) THEN "immutable" ELSE "ok">>)
     IN \/ e # "ok" /\ Fails(e)
        \/ /\ e = "ok"
           /\ map' = [map EXCEPT ![handle[h].coll][n] = values]
           /\ result' = "ok"
           /\ UNCHANGED <<handle, request, response, created>>

ValuesError(n, vs) ==
  IF n \notin Name THEN "ok"
  ELSE FirstError([i \in DOMAIN vs |-> ValueError(n, vs[i])])

Set(h, n, vs) ==
  Write(h, n, ValuesError(n, vs), IF n \in Name THEN ValuesOf(n, vs) ELSE <<>>)

Delete(h, n) == Write(h, n, "ok", <<>>)

Append1(h, n, v) ==
  /\ n \in Name => Len(map[handle[h].coll][n]) < MaxValues
  /\ Write(h, n, ValuesError(n, <<v>>),
           IF n \in Name THEN Append(map[handle[h].coll][n], Parsed[n, v])
           ELSE <<>>)

DropFields(h) ==
  /\ Guest /\ Live(h)
  /\ handle' = [handle EXCEPT ![h] = None]
  /\ map' = Collected(handle', response)
  /\ result' = "ok"
  /\ UNCHANGED <<request, response, created>>

-----------------------------------------------------------------------------
(***************************************************************************)
(* The handles of the request's headers are its children: it cannot be     *)
(* dropped before they are.                                                *)
(***************************************************************************)
Headers ==
  /\ HasRoom /\ request = "live"
  /\ handle' = [handle EXCEPT ![Index] = [kind |-> "child", coll |-> RequestColl]]
  /\ result' = "ok"
  /\ UNCHANGED <<map, request, response, created>>

Children == {h \in Handle : handle[h].kind = "child"}

DropRequest ==
  /\ Guest /\ request = "live"
  /\ \/ Children # {} /\ Fails("trap")
     \/ /\ Children = {}
        /\ request' = "dropped"
        /\ result' = "ok"
        /\ UNCHANGED <<map, handle, response, created>>

-----------------------------------------------------------------------------
(***************************************************************************)
(* The response takes the handle of its headers, whichever kind it is, and *)
(* the outparam takes the collection out of it, or copies it when it is    *)
(* shared.                                                                 *)
(***************************************************************************)
\* Mutant: the guest keeps the handle.
NewResponseCopiesHandle(h) ==
  /\ Guest /\ Live(h) /\ response.at = "none"
  /\ response' = [at |-> "held", coll |-> handle[h].coll]
  /\ created' = map[handle[h].coll]
  /\ result' = "ok"
  /\ UNCHANGED <<map, handle, request>>

NewResponse(h) ==
  /\ Guest /\ Live(h) /\ response.at = "none"
  /\ response' = [at |-> "held", coll |-> handle[h].coll]
  /\ handle' = [handle EXCEPT ![h] = None]
  /\ created' = map[handle[h].coll]
  /\ result' = "ok"
  /\ UNCHANGED <<map, request>>

EndResponse(how) ==
  /\ Guest /\ response.at = "held"
  /\ response' = [at |-> how, coll |-> RequestColl]
  /\ map' = Collected(handle, response')
  /\ created' = Empty
  /\ result' = "ok"
  /\ UNCHANGED <<handle, request>>

-----------------------------------------------------------------------------
Names == Name \cup {BadName}
Entry == [name : Names, value : Raw]

FieldsNext ==
  \/ New \/ Headers
  \/ \E es \in BoundedSeq(Entry, MaxValues) : FromList(es)
  \/ \E h \in Handle :
       \/ Clone(h) \/ DropFields(h) \/ NewResponse(h)
       \/ \E n \in Names : \/ Delete(h, n)
                           \/ \E v \in Raw : Append1(h, n, v)
                           \/ \E vs \in BoundedSeq(Raw, MaxValues) : Set(h, n, vs)
  \/ DropRequest \/ EndResponse("sent") \/ EndResponse("dropped")

FieldsSpec == FieldsInit /\ [][FieldsNext]_fieldsVars

-----------------------------------------------------------------------------
Seen(h) == IF Live(h) THEN map[handle[h].coll] ELSE Empty

\* A call changes what one handle shows at most, and nothing if it fails.
OwnWrite ==
  /\ result' \in Errors => UNCHANGED map
  /\ UNCHANGED handle =>
       \A h, k \in Handle : Seen(h)' # Seen(h) /\ Seen(k)' # Seen(k) => h = k

(***************************************************************************)
(* Although collections are shared between the request, its handles and    *)
(* the responses made of them, no guest changes what the host holds: the   *)
(* headers of the request, and those of a response once it is created; a   *)
(* name that is forbidden to guests is nowhere but where it came with the  *)
(* request.  A write through one handle is seen through that handle only,  *)
(* and a call that fails has changed nothing, although set removes what it *)
(* replaces.                                                               *)
(***************************************************************************)
HeadersKept ==
  /\ [](/\ map[RequestColl] = RequestMap
        /\ response.at = "held" => map[response.coll] = created
        /\ \A c \in Referred, n \in Forbidden :
             map[c][n] \in {<<>>, RequestMap[n]})
  /\ [][OwnWrite]_fieldsVars
=============================================================================
