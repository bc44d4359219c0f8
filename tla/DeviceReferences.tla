-------------------------- MODULE DeviceReferences --------------------------
(***************************************************************************)
(* The short references by which a model names the devices of a user:      *)
(* DeviceReferenceService (src/tools/services), which assigns them and     *)
(* keeps them in Redis, and the tools of ToolExecutorService that list     *)
(* devices, control one or delete one.  Groups and locations have a        *)
(* service each that differs in names only.                                *)
(*                                                                         *)
(* A reference is normalised text.  What matters of it is whether it ends  *)
(* in a number, because the second device of a name gets the suffix -2: a  *)
(* reference is a word and the numbers behind it.  Devices are the numbers *)
(* 1 .. N in the order of their uuids.                                     *)
(*                                                                         *)
(* External: the inventory, which the user's app changes at any time, and  *)
(* Redis, where a command may fail and a key runs out.  One connection     *)
(* carries the SETs of a listing together.                                 *)
(***************************************************************************)
EXTENDS Naturals, Sequences, FiniteSets

CONSTANTS
  N,             \* the devices there can be
  Words,         \* what a name can begin with
  LongWords,     \* those of 47 or 48 characters, the most a reference has
  Numbers,       \* the numbers a user's own name can end in
  Absent,        \* the name of a device that is not in the inventory
  NoDevice,      \* a reference Redis does not know
  Requests,      \* bound: tool calls in flight at once
  MaxChanges     \* bound: changes of the inventory by the app

Devices == 1 .. N

(* baseRef: a name is a word, or a word and a number if there is room. *)
BaseRefs ==
  {<<w>> : w \in Words} \cup {<<w, n>> : w \in Words \ LongWords, n \in Numbers}

ASSUME ReferencesAssumption ==
  /\ LongWords \subseteq Words
  /\ N \in Nat \ {0} /\ Numbers \subseteq Nat /\ MaxChanges \in Nat
  /\ NoDevice \notin Devices /\ Absent \notin BaseRefs

WithNumber(base, n) == IF n = 1 THEN base ELSE Append(base, n)
Refs == {WithNumber(base, n) : base \in BaseRefs, n \in Devices}

(* normalizeRef of a reference: what does not fit is cut off, and then a   *)
(* hyphen at the end.  Of a number behind a long word nothing is left.     *)
(* (Behind 46 characters the second digit of -12 would go: a name of that  *)
(* length, with ten devices or more, is left out.)                         *)
Normalize(ref) == IF Head(ref) \in LongWords THEN <<Head(ref)>> ELSE ref

VARIABLES
  inventory,   \* the name of each device in the user's account
  cache,       \* Redis: the device of each reference
  request,     \* the tool calls in flight
  assigned,    \* history: <<ref, device>> of every inventory so far
  changes      \* history: changes of the inventory by the app

vars == <<inventory, cache, request, assigned, changes>>

(***************************************************************************)
(* assignRefs: the devices of a name are numbered in the order of their    *)
(* uuids, and the first has no number.                                     *)
(***************************************************************************)
Present(inv) == {d \in Devices : inv[d] # Absent}

(* Mutation: every further device of a name gets the same number. *)
AssignRefsCountsAll(inv) ==
  [d \in Present(inv) |->
     LET alike == {e \in Present(inv) : inv[e] = inv[d]}
     IN  WithNumber(inv[d], IF \A e \in alike : d <= e THEN 1 ELSE Cardinality(alike))]

AssignRefs(inv) ==
  [d \in Present(inv) |->
     WithNumber(inv[d], Cardinality({e \in Present(inv) : inv[e] = inv[d] /\ e <= d}))]

Named(refs) == {<<refs[d], d>> : d \in DOMAIN refs}

(* storeMappings: a SET for each device listed.  Of several devices with   *)
(* one reference any may be the last; a SET that fails leaves its key.     *)
StoreMappings(refs) ==
  \E last \in SUBSET DOMAIN refs :
    /\ \A d, e \in last : refs[d] = refs[e] => d = e
    /\ cache' = [ref \in Refs |->
                   IF \E d \in last : refs[d] = ref
                   THEN CHOOSE d \in last : refs[d] = ref ELSE cache[ref]]

(***************************************************************************)
(* A tool call: where it is, the reference it was given, the references of *)
(* the listing it has fetched and the device it has resolved.              *)
(***************************************************************************)
Call(pc, ref, refs, device) == [pc |-> pc, ref |-> ref, refs |-> refs, device |-> device]
Idle == Call("idle", << >>, << >>, NoDevice)

Init ==
  /\ inventory \in [Devices -> BaseRefs \cup {Absent}]
  /\ cache = [ref \in Refs |-> NoDevice]
  /\ request = [r \in Requests |-> Idle]
  /\ assigned = Named(AssignRefs(inventory))
  /\ changes = 0

At(r, pc) == request[r].pc = pc
Becomes(r, call) == request' = [request EXCEPT ![r] = call]

(* list_devices and search: fetch the inventory, ... *)
ListFetch(r) ==
  /\ At(r, "idle")
  /\ Becomes(r, Call("list", << >>, AssignRefs(inventory), NoDevice))
  /\ UNCHANGED <<inventory, cache, assigned, changes>>

(* ... and after other lookups assign the references and store them. *)
ListStore(r) ==
  /\ At(r, "list")
  /\ StoreMappings(request[r].refs)
  /\ Becomes(r, Idle)
  /\ UNCHANGED <<inventory, assigned, changes>>

(* Mutation: the answer of Redis is taken as it is. *)
ResolveUnchecked(r) ==
  /\ At(r, "idle")
  /\ \E ref \in Refs : Becomes(r, Call("act", ref, << >>, cache[Normalize(ref)]))
  /\ UNCHANGED <<inventory, cache, assigned, changes>>

(* resolveDeviceUuid: the cached device, or, for an unknown reference and  *)
(* for a GET that fails, the inventory.                                    *)
Resolve(r) ==
  /\ At(r, "idle")
  /\ \E ref \in Refs :
       \/ /\ cache[Normalize(ref)] # NoDevice
          /\ Becomes(r, Call("act", ref, << >>, cache[Normalize(ref)]))
       \/ Becomes(r, Call("load", ref, << >>, NoDevice))
  /\ UNCHANGED <<inventory, cache, assigned, changes>>

Load(r) ==
  /\ At(r, "load")
  /\ Becomes(r, Call("store", request[r].ref, AssignRefs(inventory), NoDevice))
  /\ UNCHANGED <<inventory, cache, assigned, changes>>

(* Mutation: a device of the same word will do. *)
MatchAnyNumber(r) ==
  /\ At(r, "store")
  /\ LET refs == request[r].refs  ref == request[r].ref
         matches == {d \in DOMAIN refs : Head(refs[d]) = Head(ref)}
     IN  /\ StoreMappings(refs)
         /\ \/ matches = {} /\ Becomes(r, Idle)
            \/ \E d \in matches : Becomes(r, Call("act", ref, << >>, d))
  /\ UNCHANGED <<inventory, assigned, changes>>

(* The whole listing is stored again, and searched for the reference.      *)
Match(r) ==
  /\ At(r, "store")
  /\ LET refs == request[r].refs  ref == request[r].ref
         matches == {d \in DOMAIN refs : refs[d] = Normalize(ref)}
     IN  /\ StoreMappings(refs)
         /\ \/ matches = {} /\ Becomes(r, Idle)
            \/ \E d \in matches : Becomes(r, Call("act", ref, << >>, d))
  /\ UNCHANGED <<inventory, assigned, changes>>

(* Mutation: what was resolved is stored again, to renew its TTL. *)
ControlRenews(r) ==
  /\ At(r, "act")
  /\ cache' = [cache EXCEPT ![request[r].ref] = request[r].device]
  /\ Becomes(r, Idle)
  /\ UNCHANGED <<inventory, assigned, changes>>

(* A control, an update or a state query of the device.  A call that fails *)
(* at the IoT cloud, here or before, is answered with an error.            *)
Control(r) ==
  /\ ~At(r, "idle") /\ Becomes(r, Idle)
  /\ UNCHANGED <<inventory, cache, assigned, changes>>

(* delete_device.  The keys of its references stay. *)
Delete(r) ==
  /\ At(r, "act")
  /\ inventory' = [inventory EXCEPT ![request[r].device] = Absent]
  /\ assigned' = assigned \cup Named(AssignRefs(inventory'))
  /\ Becomes(r, Idle)
  /\ UNCHANGED <<cache, changes>>

(***************************************************************************)
(* The environment: the user's app adds, renames or removes a device; the  *)
(* key of a reference runs out, an hour after it was last stored.          *)
(***************************************************************************)
Change ==
  /\ changes < MaxChanges /\ changes' = changes + 1
  /\ \E d \in Devices : \E name \in (BaseRefs \cup {Absent}) \ {inventory[d]} :
       inventory' = [inventory EXCEPT ![d] = name]
  /\ assigned' = assigned \cup Named(AssignRefs(inventory'))
  /\ UNCHANGED <<cache, request>>

Expire(ref) ==
  /\ cache[ref] # NoDevice
  /\ cache' = [cache EXCEPT ![ref] = NoDevice]
  /\ UNCHANGED <<inventory, request, assigned, changes>>

Step(r) ==
  \/ ListFetch(r) \/ ListStore(r) \/ Resolve(r) \/ Load(r) \/ Match(r)
  \/ Control(r) \/ Delete(r)

Next ==
  \/ \E r \in Requests : Step(r)
  \/ Change
  \/ \E ref \in Refs : Expire(ref)

(* Fairness: a key with a TTL runs out.  No call need proceed. *)
Spec == Init /\ [][Next]_vars /\ \A ref \in Refs : WF_vars(Expire(ref))

-----------------------------------------------------------------------------
Listings == UNION {[S -> Refs] : S \in SUBSET Devices}

(* Type invariant: a call that acts has resolved a device. *)
TypeOK ==
  /\ inventory \in [Devices -> BaseRefs \cup {Absent}]
  /\ cache \in [Refs -> Devices \cup {NoDevice}]
  /\ \A r \in Requests :
       /\ request[r].pc \in {"idle", "list", "load", "store", "act"}
       /\ request[r].ref \in Refs \cup {<< >>}
       /\ request[r].refs \in Listings
       /\ At(r, "act") => request[r].device \in Devices
  /\ assigned \subseteq Refs \X Devices
  /\ changes \in 0 .. MaxChanges

(* Devices of one name always get references of their own.  Two devices    *)
(* share one only if it is the whole name of one of them, and that of the  *)
(* other with the number it was given.                                     *)
OnlyNumberedNamesCollide ==
  LET refs == AssignRefs(inventory)
  IN  \A d, e \in Present(inventory) : refs[d] = refs[e] /\ d # e =>
        /\ inventory[d] # inventory[e]
        /\ refs[d] \in {inventory[d], inventory[e]}

(* A tool acts on a device only under a reference that, cut to its length, *)
(* was that device's in some inventory, however late the call, the listing *)
(* it came from and the key in Redis.                                      *)
ActsWhereTheRefPointed ==
  \A r \in Requests : At(r, "act") =>
    <<Normalize(request[r].ref), request[r].device>> \in assigned

(* Once the inventory stays as it is, Redis comes to agree with it: every  *)
(* misleading key, also one that a late listing of an old inventory put    *)
(* back, runs out or is corrected for good.                                *)
Agrees ==
  \A ref \in Refs : cache[ref] # NoDevice =>
    <<ref, cache[ref]>> \in Named(AssignRefs(inventory))
CacheHeals == <>[]Agrees

-----------------------------------------------------------------------------
(* What the tools say of their parameter: it is the "device reference      *)
(* returned by list_devices".  The second device of a name of 48           *)
(* characters is listed with the suffix -2; the lookup cuts it off and the *)
(* tool acts on the first.                                                 *)
ActsOnTheReferenceGiven ==
  \A r \in Requests :
    At(r, "act") /\ (\E d \in Devices : <<request[r].ref, d>> \in assigned)
      => <<request[r].ref, request[r].device>> \in assigned
=============================================================================
