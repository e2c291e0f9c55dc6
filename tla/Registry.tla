------------------------------ MODULE Registry ------------------------------
(***************************************************************************)
(* Names in the ledger.  Policies, routes and owners are char arrays of 48 *)
(* and assets of 16: pdtl_copy_string of src/pdtl_ledger.c cuts what does  *)
(* not fit, silently, after the call has looked up and compared the whole  *)
(* name.  Ledger has names that fit; here they are texts, and the calls    *)
(* are reduced to what they do with them.  Their other checks, which are   *)
(* in Ledger, only make them refuse more.                                  *)
(***************************************************************************)
EXTENDS Naturals, Sequences, SequencesExt

CONSTANTS
    PolicyTexts, RouteTexts, AssetTexts, OwnerTexts,    \* what callers pass
    NameRoom,       \* PDTL_NAME_LEN less the terminator
    AssetRoom,      \* PDTL_ASSET_LEN less the terminator
    MaxPolicies, MaxRoutes, MaxCells,                   \* PDTL_MAX_*
    Period          \* 31: after how many bytes of a text the hash repeats itself

ASSUME RegistryAssumption ==
    /\ NameRoom \in Nat \ {0} /\ AssetRoom \in Nat \ {0} /\ Period \in Nat \ {0}
    /\ MaxPolicies \in Nat /\ MaxRoutes \in Nat /\ MaxCells \in Nat
    /\ \A t \in PolicyTexts \cup RouteTexts \cup AssetTexts \cup OwnerTexts :
          t \in Seq({t[k] : k \in DOMAIN t})

(***************************************************************************)
(* The arrays of the ledger.  Four fields are not in the structs: given    *)
(* remembers the text the caller passed, under the policy that a route was *)
(* checked against, on the route that a cell was checked against, and into *)
(* the cell that a consolidation moved everything to, 0 while it is open.  *)
(***************************************************************************)
VARIABLES policies, routes, cells

registryVars == <<policies, routes, cells>>

Empty == <<>>

RegistryInit == policies = <<>> /\ routes = <<>> /\ cells = <<>>

-----------------------------------------------------------------------------
\* pdtl_copy_string
Cut(text, room) == IF Len(text) <= room THEN text ELSE SubSeq(text, 1, room)

Fits(text, room) == Len(text) <= room

\* the last entry of that name
FaultyFind(table, text) == SelectLastInSeq(table, LAMBDA entry : entry.name = text)

\* the position of the first entry of that name, 0 if there is none
Find(table, text) == SelectInSeq(table, LAMBDA entry : entry.name = text)

AddPolicy(name) ==
    /\ name # Empty /\ Find(policies, name) = 0
    /\ Len(policies) < MaxPolicies
    /\ policies' = Append(policies, [name |-> Cut(name, NameRoom), given |-> name])
    /\ UNCHANGED <<routes, cells>>

\* does not look for the name
FaultyNewRouteName(name) == name # Empty

NewRouteName(name) == name # Empty /\ Find(routes, name) = 0

AddRoute(name, asset, policy) ==
    /\ NewRouteName(name) /\ asset # Empty
    /\ Find(policies, policy) # 0
    /\ Len(routes) < MaxRoutes
    /\ routes' = Append(routes, [name |-> Cut(name, NameRoom), given |-> name,
                                 asset |-> Cut(asset, AssetRoom),
                                 policy |-> Cut(policy, NameRoom),
                                 under |-> Find(policies, policy)])
    /\ UNCHANGED <<policies, cells>>

CreateCell(owner, asset, route, policy) ==
    LET r == Find(routes, route)
        p == Find(policies, policy)
    IN  /\ owner # Empty /\ r # 0 /\ p # 0
        /\ routes[r].asset = asset
        /\ routes[r].policy = policies[p].name
        /\ Len(cells) < MaxCells
        /\ cells' = Append(cells, [owner |-> Cut(owner, NameRoom), given |-> owner,
                                   asset |-> Cut(asset, AssetRoom),
                                   route |-> Cut(route, NameRoom),
                                   policy |-> Cut(policy, NameRoom),
                                   on |-> r, into |-> 0])
        /\ UNCHANGED <<policies, routes>>

\* whoever owns them
FaultySameTerms(target, source) ==
    target.asset = source.asset /\ target.route = source.route /\ target.policy = source.policy

SameTerms(target, source) ==
    /\ target.owner = source.owner
    /\ target.asset = source.asset /\ target.route = source.route
    /\ target.policy = source.policy

ConsolidateCell(t, s) ==
    /\ t # s /\ cells[t].into = 0 /\ cells[s].into = 0
    /\ Find(policies, cells[t].policy) # 0
    /\ SameTerms(cells[t], cells[s])
    /\ cells' = [cells EXCEPT ![s].into = t]
    /\ UNCHANGED <<policies, routes>>

RegistryNext ==
    \/ \E n \in PolicyTexts : AddPolicy(n)
    \/ \E n \in RouteTexts, a \in AssetTexts, p \in PolicyTexts : AddRoute(n, a, p)
    \/ \E o \in OwnerTexts, a \in AssetTexts, n \in RouteTexts, p \in PolicyTexts :
          CreateCell(o, a, n, p)
    \/ \E t, s \in DOMAIN cells : ConsolidateCell(t, s)

RegistrySpec == RegistryInit /\ [][RegistryNext]_registryVars

-----------------------------------------------------------------------------
(* What pdtl_route_digest of src/pdtl_hash.c feeds to the hash.  One half  *)
(* of the hash depends on the bytes, the other also on the place that a    *)
(* byte has in its text, up to a period: equal feeds have equal digests,   *)
(* and different ones are taken to differ.  The three numbers that follow  *)
(* the names have a fixed length and are left out.                         *)

UpdateBytes(bytes) == [k \in DOMAIN bytes |-> <<bytes[k], (k - 1) % Period>>]

UpdateStr(text) == UpdateBytes(text) \o UpdateBytes(<<"|">>)

\* forgets the asset
FaultyRouteDigest(route) == UpdateStr(route.name) \o UpdateStr(route.policy)

RouteDigest(route) == UpdateStr(route.name) \o UpdateStr(route.asset) \o UpdateStr(route.policy)

-----------------------------------------------------------------------------
(* Properties.                                                             *)

(***************************************************************************)
(* A name never changes its meaning: what it finds once it finds for ever, *)
(* although a longer name may be cut to the same text later.               *)
(***************************************************************************)
LookupsStable ==
    [][/\ \A n \in PolicyTexts : Find(policies, n) # 0 => Find(policies', n) = Find(policies, n)
       /\ \A n \in RouteTexts : Find(routes, n) # 0 => Find(routes', n) = Find(routes, n)]_registryVars

(***************************************************************************)
(* A name that fits is as good as its entry: no other entry, not even one  *)
(* cut to the same text before it, stands between the two.                 *)
(***************************************************************************)
FittingNamesFound ==
    /\ \A i \in DOMAIN policies : Fits(policies[i].given, NameRoom) =>
          Find(policies, policies[i].given) = i
    /\ \A i \in DOMAIN routes : Fits(routes[i].given, NameRoom) =>
          Find(routes, routes[i].given) = i

(***************************************************************************)
(* What a struct has copied still means what the call has checked: cutting *)
(* a name never turns a stored reference into another entry's.  A route    *)
(* keeps the policy, and a cell the route, that it was checked against,    *)
(* and the cell has the asset and the policy of that route.                *)
(***************************************************************************)
CopiesKeepMeaning ==
    /\ \A i \in DOMAIN routes : Find(policies, routes[i].policy) = routes[i].under
    /\ \A c \in DOMAIN cells :
          /\ Find(routes, cells[c].route) = cells[c].on
          /\ cells[c].asset = routes[cells[c].on].asset
          /\ cells[c].policy = routes[cells[c].on].policy

(***************************************************************************)
(* Consolidation does not merge the cells of two owners, if both names     *)
(* fit.  (An owner whose name is too long is taken for any other owner     *)
(* whose name begins alike and is as long or longer.)                      *)
(***************************************************************************)
MergesKeepOwner ==
    \A s \in DOMAIN cells : cells[s].into # 0 =>
        LET target == cells[cells[s].into]
        IN  Fits(target.given, NameRoom) /\ Fits(cells[s].given, NameRoom) =>
                target.given = cells[s].given

(***************************************************************************)
(* Routes that differ in a name, an asset or a policy have different       *)
(* digests, also when a name has the separator in it.                      *)
(***************************************************************************)
DigestTellsRoutes ==
    \A i, j \in DOMAIN routes :
        RouteDigest(routes[i]) = RouteDigest(routes[j]) =>
            /\ routes[i].name = routes[j].name
            /\ routes[i].asset = routes[j].asset
            /\ routes[i].policy = routes[j].policy

=============================================================================
