--------------------------- MODULE RegistryProofs ---------------------------
(***************************************************************************)
(* Names that are cut still mean what they meant, for texts and rooms of   *)
(* any length and tables of any size.  The argument: a name that finds an  *)
(* entry is equal to a name that was cut, so it fits and is not cut again  *)
(* when it is copied; entries are only appended, and Find takes the first. *)
(* Nothing is assumed of which texts fit or which of them begin alike.     *)
(* At the end: the digest of a route tells its texts, since the places     *)
(* that the hash adds to the bytes tell where each text ends.              *)
(***************************************************************************)
EXTENDS Registry, PrefixSumsProofs, SequenceTheorems

-----------------------------------------------------------------------------
(* Types.                                                                  *)

Texts == PolicyTexts \cup RouteTexts \cup AssetTexts \cup OwnerTexts

Letters == UNION {{t[k] : k \in DOMAIN t} : t \in Texts}

Text == Seq(Letters)

PolicyEntry == [name: Text, given: Text]

RouteEntry == [name: Text, given: Text, asset: Text, policy: Text, under: Nat]

CellEntry == [owner: Text, given: Text, asset: Text, route: Text, policy: Text,
              on: Nat, into: Nat]

RegistryTyped ==
    policies \in Seq(PolicyEntry) /\ routes \in Seq(RouteEntry) /\ cells \in Seq(CellEntry)

\* What callers pass are texts.
LEMMA TextsTyped == Texts \subseteq Text
<1> SUFFICES ASSUME NEW t \in Texts PROVE t \in Text
  OBVIOUS
<1>1. t \in Seq({t[k] : k \in DOMAIN t})
  BY RegistryAssumption DEF Texts
<1>2. {t[k] : k \in DOMAIN t} \subseteq Letters
  BY DEF Letters
<1> QED
  BY <1>1, <1>2 DEF Text

\* A cut text is a text that fits, and one that fits is not cut.
LEMMA CutText ==
    ASSUME NEW t \in Text, NEW room \in Nat
    PROVE  /\ Cut(t, room) \in Text /\ Fits(Cut(t, room), room)
           /\ Fits(t, room) => Cut(t, room) = t
<1>1. CASE Len(t) <= room
  BY <1>1 DEF Cut, Fits, Text
<1>2. CASE ~(Len(t) <= room)
  <2>1. Len(t) \in Nat /\ room \in 0..Len(t)
    BY <1>2 DEF Text
  <2>2. SubSeq(t, 1, room) \in Seq(Letters) /\ Len(SubSeq(t, 1, room)) = room
    BY <2>1 DEF Text
  <2> QED
    BY <1>2, <2>2 DEF Cut, Fits, Text
<1> QED
  BY <1>1, <1>2

-----------------------------------------------------------------------------
(* The search (pdtl_find_policy, pdtl_find_route).                         *)

Hits(table, text) == {i \in 1..Len(table) : table[i].name = text}

\* Find is the first entry of the name, or 0.
LEMMA FindMeans ==
    ASSUME NEW table, NEW text, Len(table) \in Nat
    PROVE  /\ Find(table, text) = 0 <=> Hits(table, text) = {}
           /\ Hits(table, text) # {} =>
                 /\ Find(table, text) \in Hits(table, text)
                 /\ \A i \in Hits(table, text) : Find(table, text) <= i
<1> DEFINE hits == Hits(table, text)
<1>1. hits \in SUBSET Nat /\ 0 \notin hits
  BY DEF Hits
<1>2. Find(table, text) = IF hits # {} THEN Min(hits) ELSE 0
  BY DEF Find, SelectInSeq, Hits
<1>3. hits # {} => Min(hits) \in hits /\ \A i \in hits : Min(hits) <= i
  <2> SUFFICES ASSUME hits # {} PROVE Min(hits) \in hits /\ \A i \in hits : Min(hits) <= i
    OBVIOUS
  <2>1. \E m \in hits : \A i \in hits : m <= i
    BY <1>1, LeastNatural
  <2> QED
    BY <2>1 DEF Min
<1> HIDE DEF hits
<1> QED
  BY <1>1, <1>2, <1>3 DEF hits

Longer(table, entry, longer) ==
    /\ Len(table) \in Nat /\ Len(longer) = Len(table) + 1
    /\ longer[Len(table) + 1] = entry
    /\ \A i \in 1..Len(table) : longer[i] = table[i]

\* A new entry is found only by a name that found nothing before.
LEMMA FindLonger ==
    ASSUME NEW table, NEW entry, NEW longer, Longer(table, entry, longer), NEW text
    PROVE  /\ Find(table, text) # 0 => Find(longer, text) = Find(table, text)
           /\ Find(table, text) = 0 /\ entry.name = text => Find(longer, text) = Len(table) + 1
<1> DEFINE n == Len(table)
           old == Hits(table, text)
           new == Hits(longer, text)
<1>1. /\ n \in Nat /\ Len(longer) = n + 1 /\ longer[n + 1] = entry
      /\ \A i \in 1..n : longer[i] = table[i]
  BY DEF Longer
<1>2. /\ old \subseteq 1..n /\ new \subseteq 1..(n + 1)
      /\ \A i \in 1..n : i \in old <=> i \in new
      /\ n + 1 \in new <=> entry.name = text
  BY <1>1 DEF Hits
<1> DEFINE a == Find(table, text)
           b == Find(longer, text)
<1>3. /\ a = 0 <=> old = {}
      /\ old # {} => a \in old /\ \A i \in old : a <= i
  BY <1>1, FindMeans
<1>4. /\ b = 0 <=> new = {}
      /\ new # {} => b \in new /\ \A i \in new : b <= i
  BY <1>1, FindMeans
<1> HIDE DEF old, new, n, a, b
<1>5. ASSUME old # {} PROVE b = a
  <2>1. a \in old /\ a \in 1..n /\ a \in new
    BY <1>2, <1>3, <1>5
  <2>2. b \in new /\ b <= a /\ b \in 1..(n + 1)
    BY <1>2, <1>4, <2>1
  <2>3. b \in 1..n
    BY <1>1, <2>1, <2>2
  <2>4. b \in old /\ a <= b
    BY <1>2, <1>3, <1>5, <2>2, <2>3
  <2> QED
    BY <1>1, <2>1, <2>2, <2>3, <2>4
<1>6. ASSUME old = {}, entry.name = text PROVE b = n + 1
  <2>1. n + 1 \in new /\ \A i \in new : i = n + 1
    BY <1>1, <1>2, <1>6
  <2> QED
    BY <1>4, <2>1
<1> QED
  BY <1>3, <1>5, <1>6 DEF n, a, b

\* Appending makes a table longer.
LEMMA AppendLonger ==
    ASSUME NEW Entries, NEW table \in Seq(Entries), NEW entry \in Entries
    PROVE  Longer(table, entry, Append(table, entry))
BY DEF Longer

-----------------------------------------------------------------------------
(***************************************************************************)
(* The invariant: the properties, how each struct came by its texts, and   *)
(* that the indexes stay in their tables.                                  *)
(***************************************************************************)
PoliciesCut == \A i \in DOMAIN policies : policies[i].name = Cut(policies[i].given, NameRoom)

RoutesCut == \A i \in DOMAIN routes : /\ routes[i].name = Cut(routes[i].given, NameRoom)
                                      /\ Fits(routes[i].asset, AssetRoom)
                                      /\ routes[i].under \in DOMAIN policies

CellsCut == \A c \in DOMAIN cells : /\ cells[c].owner = Cut(cells[c].given, NameRoom)
                                    /\ cells[c].on \in DOMAIN routes
                                    /\ cells[c].into \in 0..Len(cells)

RegistryInv ==
    /\ RegistryTyped
    /\ PoliciesCut /\ RoutesCut /\ CellsCut
    /\ FittingNamesFound /\ CopiesKeepMeaning /\ MergesKeepOwner

\* The rooms are numbers, and the indexes those of the sequences.
LEMMA Tables ==
    ASSUME RegistryInv
    PROVE  /\ NameRoom \in Nat /\ AssetRoom \in Nat
           /\ policies \in Seq(PolicyEntry) /\ Len(policies) \in Nat
           /\ DOMAIN policies = 1..Len(policies)
           /\ routes \in Seq(RouteEntry) /\ Len(routes) \in Nat
           /\ DOMAIN routes = 1..Len(routes)
           /\ cells \in Seq(CellEntry) /\ Len(cells) \in Nat
           /\ DOMAIN cells = 1..Len(cells)
           /\ \A i \in DOMAIN policies : policies[i] \in PolicyEntry
           /\ \A i \in DOMAIN routes : routes[i] \in RouteEntry
           /\ \A c \in DOMAIN cells : cells[c] \in CellEntry
BY RegistryAssumption DEF RegistryInv, RegistryTyped

\* A name that finds something fits: what is stored was cut.
LEMMA FoundFits ==
    ASSUME RegistryInv, NEW text
    PROVE  /\ Find(policies, text) # 0 =>
                 /\ Find(policies, text) \in DOMAIN policies
                 /\ policies[Find(policies, text)].name = text
                 /\ text \in Text /\ Fits(text, NameRoom)
           /\ Find(routes, text) # 0 =>
                 /\ Find(routes, text) \in DOMAIN routes
                 /\ routes[Find(routes, text)].name = text
                 /\ text \in Text /\ Fits(text, NameRoom)
<1>1. ASSUME Find(policies, text) # 0
      PROVE  /\ Find(policies, text) \in DOMAIN policies
             /\ policies[Find(policies, text)].name = text
             /\ text \in Text /\ Fits(text, NameRoom)
  <2> DEFINE i == Find(policies, text)
  <2>1. i \in DOMAIN policies /\ policies[i].name = text
    BY <1>1, Tables, FindMeans DEF Hits
  <2> HIDE DEF i
  <2>2. policies[i].given \in Text /\ text = Cut(policies[i].given, NameRoom)
    BY <2>1, Tables DEF RegistryInv, PoliciesCut, PolicyEntry
  <2> QED
    BY <2>1, <2>2, Tables, CutText DEF i
<1>2. ASSUME Find(routes, text) # 0
      PROVE  /\ Find(routes, text) \in DOMAIN routes
             /\ routes[Find(routes, text)].name = text
             /\ text \in Text /\ Fits(text, NameRoom)
  <2> DEFINE i == Find(routes, text)
  <2>1. i \in DOMAIN routes /\ routes[i].name = text
    BY <1>2, Tables, FindMeans DEF Hits
  <2> HIDE DEF i
  <2>2. routes[i].given \in Text /\ text = Cut(routes[i].given, NameRoom)
    BY <2>1, Tables DEF RegistryInv, RoutesCut, RouteEntry
  <2> QED
    BY <2>1, <2>2, Tables, CutText DEF i
<1> QED
  BY <1>1, <1>2

-----------------------------------------------------------------------------
(* The calls.                                                              *)

\* A new policy (pdtl_add_policy).
LEMMA AddPolicyStep ==
    ASSUME RegistryInv, NEW name \in PolicyTexts, AddPolicy(name)
    PROVE  RegistryInv'
<1> DEFINE entry == [name |-> Cut(name, NameRoom), given |-> name]
           n == Len(policies)
<1>1. /\ Find(policies, name) = 0 /\ policies' = Append(policies, entry)
      /\ UNCHANGED <<routes, cells>>
  BY DEF AddPolicy
<1>2. name \in Text /\ Cut(name, NameRoom) \in Text
      /\ (Fits(name, NameRoom) => Cut(name, NameRoom) = name)
  BY TextsTyped, CutText, Tables DEF Texts
<1>3. entry \in PolicyEntry
  BY <1>2 DEF PolicyEntry
<1>4. entry.name = Cut(name, NameRoom) /\ entry.given = name
  OBVIOUS
<1> HIDE DEF entry
<1>5. policies' \in Seq(PolicyEntry) /\ Longer(policies, entry, policies')
  BY <1>1, <1>3, Tables, AppendLonger
<1>6. /\ n \in Nat /\ DOMAIN policies = 1..n /\ DOMAIN policies' = 1..(n + 1)
      /\ policies'[n + 1] = entry /\ \A i \in 1..n : policies'[i] = policies[i]
  <2>1. DOMAIN policies' = 1..Len(policies')
    BY <1>5
  <2> QED
    BY <1>5, <2>1, Tables DEF Longer
<1>7. /\ \A text : Find(policies, text) # 0 => Find(policies', text) = Find(policies, text)
      /\ entry.name = name => Find(policies', name) = n + 1
  BY <1>1, <1>5, FindLonger
<1>8. RegistryTyped' /\ PoliciesCut' /\ RoutesCut' /\ CellsCut' /\ MergesKeepOwner'
  <2>1. PoliciesCut'
    BY <1>4, <1>6 DEF RegistryInv, PoliciesCut
  <2>2. RoutesCut'
    BY <1>1, <1>6 DEF RegistryInv, RoutesCut
  <2> QED
    BY <1>1, <1>5, <2>1, <2>2
       DEF RegistryInv, RegistryTyped, CellsCut, MergesKeepOwner
<1>9. FittingNamesFound'
  <2>1. ASSUME NEW i \in 1..(n + 1), Fits(policies'[i].given, NameRoom)
        PROVE  Find(policies', policies'[i].given) = i
    <3>1. CASE i \in 1..n
      <4>1. Find(policies, policies[i].given) = i /\ i # 0
        BY <1>6, <2>1, <3>1 DEF RegistryInv, FittingNamesFound
      <4> QED
        BY <1>6, <1>7, <3>1, <4>1
    <3>2. CASE i = n + 1
      BY <1>2, <1>4, <1>6, <1>7, <2>1, <3>2
    <3> QED
      BY <1>6, <3>1, <3>2
  <2> QED
    BY <1>1, <1>6, <2>1 DEF RegistryInv, FittingNamesFound
<1>10. CopiesKeepMeaning'
  <2>1. ASSUME NEW i \in DOMAIN routes
        PROVE  Find(policies', routes[i].policy) = routes[i].under
    <3>1. routes[i].under \in 1..n
      BY <1>6 DEF RegistryInv, RoutesCut
    <3>2. Find(policies, routes[i].policy) = routes[i].under /\ routes[i].under # 0
      BY <1>6, <3>1 DEF RegistryInv, CopiesKeepMeaning
    <3> QED
      BY <1>7, <3>2
  <2> QED
    BY <1>1, <2>1 DEF RegistryInv, CopiesKeepMeaning
<1> QED
  BY <1>8, <1>9, <1>10 DEF RegistryInv

\* A new route (pdtl_add_route).
LEMMA AddRouteStep ==
    ASSUME RegistryInv, NEW name \in RouteTexts, NEW asset \in AssetTexts,
           NEW policy \in PolicyTexts, AddRoute(name, asset, policy)
    PROVE  RegistryInv'
<1> DEFINE entry == [name |-> Cut(name, NameRoom), given |-> name,
                     asset |-> Cut(asset, AssetRoom), policy |-> Cut(policy, NameRoom),
                     under |-> Find(policies, policy)]
           n == Len(routes)
<1>1. /\ Find(routes, name) = 0 /\ Find(policies, policy) # 0
      /\ routes' = Append(routes, entry) /\ UNCHANGED <<policies, cells>>
  BY DEF AddRoute, NewRouteName
<1>2. /\ name \in Text /\ Cut(name, NameRoom) \in Text
      /\ Fits(name, NameRoom) => Cut(name, NameRoom) = name
      /\ Cut(asset, AssetRoom) \in Text /\ Fits(Cut(asset, AssetRoom), AssetRoom)
  BY TextsTyped, CutText, Tables DEF Texts
<1>3. /\ Cut(policy, NameRoom) = policy /\ policy \in Text
      /\ Find(policies, policy) \in DOMAIN policies /\ Find(policies, policy) \in Nat
  BY <1>1, FoundFits, CutText, Tables
<1>4. entry \in RouteEntry
  BY <1>2, <1>3 DEF RouteEntry
<1>5. /\ entry.name = Cut(name, NameRoom) /\ entry.given = name
      /\ entry.asset = Cut(asset, AssetRoom) /\ entry.policy = policy
      /\ entry.under = Find(policies, policy)
  BY <1>3
<1> HIDE DEF entry
<1>6. routes' \in Seq(RouteEntry) /\ Longer(routes, entry, routes')
  BY <1>1, <1>4, Tables, AppendLonger
<1>7. /\ n \in Nat /\ DOMAIN routes = 1..n /\ DOMAIN routes' = 1..(n + 1)
      /\ routes'[n + 1] = entry /\ \A i \in 1..n : routes'[i] = routes[i]
  BY <1>6, Tables DEF Longer
<1>8. /\ \A text : Find(routes, text) # 0 => Find(routes', text) = Find(routes, text)
      /\ entry.name = name => Find(routes', name) = n + 1
  BY <1>1, <1>6, FindLonger
<1>9. RegistryTyped' /\ PoliciesCut' /\ RoutesCut' /\ CellsCut' /\ MergesKeepOwner'
  <2>1. RoutesCut'
    BY <1>1, <1>2, <1>3, <1>5, <1>7 DEF RegistryInv, RoutesCut
  <2>2. CellsCut'
    BY <1>1, <1>7 DEF RegistryInv, CellsCut
  <2> QED
    BY <1>1, <1>6, <2>1, <2>2 DEF RegistryInv, RegistryTyped, PoliciesCut, MergesKeepOwner
<1>10. FittingNamesFound'
  <2>1. ASSUME NEW i \in 1..(n + 1), Fits(routes'[i].given, NameRoom)
        PROVE  Find(routes', routes'[i].given) = i
    <3>1. CASE i \in 1..n
      <4>1. Find(routes, routes[i].given) = i /\ i # 0
        BY <1>7, <2>1, <3>1 DEF RegistryInv, FittingNamesFound
      <4> QED
        BY <1>7, <1>8, <3>1, <4>1
    <3>2. CASE i = n + 1
      BY <1>2, <1>5, <1>7, <1>8, <2>1, <3>2
    <3> QED
      BY <1>7, <3>1, <3>2
  <2> QED
    BY <1>1, <1>7, <2>1 DEF RegistryInv, FittingNamesFound
<1>11. CopiesKeepMeaning'
  <2>1. \A i \in 1..(n + 1) : Find(policies, routes'[i].policy) = routes'[i].under
    BY <1>1, <1>5, <1>7 DEF RegistryInv, CopiesKeepMeaning
  <2>2. ASSUME NEW c \in DOMAIN cells
        PROVE  /\ Find(routes', cells[c].route) = cells[c].on
               /\ cells[c].asset = routes'[cells[c].on].asset
               /\ cells[c].policy = routes'[cells[c].on].policy
    <3>1. cells[c].on \in 1..n /\ cells[c].on # 0
      BY <1>7 DEF RegistryInv, CellsCut
    <3>2. /\ Find(routes, cells[c].route) = cells[c].on
          /\ cells[c].asset = routes[cells[c].on].asset
          /\ cells[c].policy = routes[cells[c].on].policy
      BY DEF RegistryInv, CopiesKeepMeaning
    <3> QED
      BY <1>7, <1>8, <3>1, <3>2
  <2> QED
    BY <1>1, <1>7, <2>1, <2>2 DEF CopiesKeepMeaning
<1> QED
  BY <1>9, <1>10, <1>11 DEF RegistryInv

\* A new cell (pdtl_create_cell).
LEMMA CreateCellStep ==
    ASSUME RegistryInv, NEW owner \in OwnerTexts, NEW asset \in AssetTexts,
           NEW route \in RouteTexts, NEW policy \in PolicyTexts,
           CreateCell(owner, asset, route, policy)
    PROVE  RegistryInv'
<1> DEFINE r == Find(routes, route)
           p == Find(policies, policy)
           entry == [owner |-> Cut(owner, NameRoom), given |-> owner,
                     asset |-> Cut(asset, AssetRoom), route |-> Cut(route, NameRoom),
                     policy |-> Cut(policy, NameRoom), on |-> r, into |-> 0]
           n == Len(cells)
<1>1. /\ r # 0 /\ p # 0 /\ routes[r].asset = asset /\ routes[r].policy = policies[p].name
      /\ cells' = Append(cells, entry) /\ UNCHANGED <<policies, routes>>
  BY DEF CreateCell
<1>2. owner \in Text /\ Cut(owner, NameRoom) \in Text
  BY TextsTyped, CutText, Tables DEF Texts
<1>3. /\ Cut(route, NameRoom) = route /\ route \in Text /\ r \in DOMAIN routes /\ r \in Nat
      /\ Cut(policy, NameRoom) = policy /\ policy \in Text /\ routes[r].policy = policy
  BY <1>1, FoundFits, CutText, Tables
<1>4. Cut(asset, AssetRoom) = asset /\ asset \in Text
  <2>1. Fits(asset, AssetRoom) /\ asset \in Text
    BY <1>1, <1>3, TextsTyped DEF RegistryInv, RoutesCut, Texts
  <2> QED
    BY <2>1, CutText, Tables
<1>5. entry \in CellEntry
  BY <1>2, <1>3, <1>4 DEF CellEntry
<1>6. /\ entry.owner = Cut(owner, NameRoom) /\ entry.given = owner /\ entry.asset = asset
      /\ entry.route = route /\ entry.policy = policy /\ entry.on = r /\ entry.into = 0
  BY <1>3, <1>4
<1> HIDE DEF entry
<1>7. cells' \in Seq(CellEntry) /\ Longer(cells, entry, cells')
  BY <1>1, <1>5, Tables, AppendLonger
<1>8. /\ n \in Nat /\ DOMAIN cells = 1..n /\ DOMAIN cells' = 1..(n + 1) /\ Len(cells') = n + 1
      /\ cells'[n + 1] = entry /\ \A i \in 1..n : cells'[i] = cells[i]
  BY <1>7, Tables DEF Longer
<1>9. RegistryTyped' /\ PoliciesCut' /\ RoutesCut' /\ FittingNamesFound'
  BY <1>1, <1>7 DEF RegistryInv, RegistryTyped, PoliciesCut, RoutesCut, FittingNamesFound
<1>10. CellsCut'
  <2>1. ASSUME NEW c \in 1..(n + 1)
        PROVE  /\ cells'[c].owner = Cut(cells'[c].given, NameRoom)
               /\ cells'[c].on \in DOMAIN routes
               /\ cells'[c].into \in 0..(n + 1)
    <3>1. CASE c \in 1..n
      BY <1>8, <3>1 DEF RegistryInv, CellsCut
    <3>2. CASE c = n + 1
      BY <1>3, <1>6, <1>8, <3>2
    <3> QED
      BY <1>8, <3>1, <3>2
  <2> QED
    BY <1>1, <1>8, <2>1 DEF CellsCut
<1>11. CopiesKeepMeaning'
  <2>1. ASSUME NEW c \in 1..(n + 1)
        PROVE  /\ Find(routes, cells'[c].route) = cells'[c].on
               /\ cells'[c].asset = routes[cells'[c].on].asset
               /\ cells'[c].policy = routes[cells'[c].on].policy
    <3>1. CASE c \in 1..n
      BY <1>8, <3>1 DEF RegistryInv, CopiesKeepMeaning
    <3>2. CASE c = n + 1
      BY <1>1, <1>3, <1>6, <1>8, <3>2
    <3> QED
      BY <1>8, <3>1, <3>2
  <2> QED
    BY <1>1, <1>8, <2>1 DEF RegistryInv, CopiesKeepMeaning
<1>12. MergesKeepOwner'
  <2>1. ASSUME NEW s \in 1..(n + 1), cells'[s].into # 0
        PROVE  s \in 1..n /\ cells'[s] = cells[s] /\ cells[s].into \in 1..n
    <3>1. s \in 1..n
      BY <1>6, <1>8, <2>1
    <3>2. cells[s].into \in 0..n /\ cells'[s] = cells[s]
      BY <1>8, <3>1 DEF RegistryInv, CellsCut
    <3> QED
      BY <1>8, <2>1, <3>1, <3>2
  <2> QED
    BY <1>8, <2>1 DEF RegistryInv, MergesKeepOwner
<1> QED
  BY <1>9, <1>10, <1>11, <1>12 DEF RegistryInv

\* A consolidation (pdtl_consolidate_cell).
LEMMA ConsolidateCellStep ==
    ASSUME RegistryInv, NEW t \in DOMAIN cells, NEW s \in DOMAIN cells, ConsolidateCell(t, s)
    PROVE  RegistryInv'
<1> DEFINE merged == [cells[s] EXCEPT !.into = t]
           n == Len(cells)
<1>1. /\ cells' = [cells EXCEPT ![s].into = t] /\ UNCHANGED <<policies, routes>>
      /\ cells[t].owner = cells[s].owner
  BY DEF ConsolidateCell, SameTerms
<1>2. /\ n \in Nat /\ DOMAIN cells = 1..n /\ cells[s] \in CellEntry
      /\ \A c \in 1..n : cells[c] \in CellEntry
  BY Tables
<1>3. /\ merged \in CellEntry /\ merged.owner = cells[s].owner /\ merged.given = cells[s].given
      /\ merged.asset = cells[s].asset /\ merged.route = cells[s].route
      /\ merged.policy = cells[s].policy /\ merged.on = cells[s].on /\ merged.into = t
  BY <1>2 DEF CellEntry
<1>4. /\ cells'[s] = merged /\ DOMAIN cells' = 1..n
      /\ \A c \in 1..n : c # s => cells'[c] = cells[c]
  BY <1>1, <1>2
<1> HIDE DEF merged
<1>5. cells' \in Seq(CellEntry) /\ Len(cells') = n
  <2>1. cells' = [c \in 1..n |-> cells'[c]] /\ \A c \in 1..n : cells'[c] \in CellEntry
    BY <1>1, <1>2, <1>3, <1>4
  <2> QED
    BY <1>2, <1>4, <2>1
<1>6. \A c \in 1..n : /\ cells'[c].owner = cells[c].owner /\ cells'[c].given = cells[c].given
                      /\ cells'[c].asset = cells[c].asset /\ cells'[c].route = cells[c].route
                      /\ cells'[c].policy = cells[c].policy /\ cells'[c].on = cells[c].on
                      /\ cells'[c].into = IF c = s THEN t ELSE cells[c].into
  BY <1>3, <1>4
<1>7. RegistryTyped' /\ PoliciesCut' /\ RoutesCut' /\ FittingNamesFound'
  BY <1>1, <1>5 DEF RegistryInv, RegistryTyped, PoliciesCut, RoutesCut, FittingNamesFound
<1>8. CellsCut' /\ CopiesKeepMeaning'
  <2>1. CellsCut'
    BY <1>1, <1>2, <1>4, <1>5, <1>6 DEF RegistryInv, CellsCut
  <2>2. CopiesKeepMeaning'
    BY <1>1, <1>2, <1>4, <1>6 DEF RegistryInv, CopiesKeepMeaning
  <2> QED
    BY <2>1, <2>2
<1>9. MergesKeepOwner'
  <2>1. ASSUME NEW c \in 1..n, cells'[c].into # 0, Fits(cells'[c].given, NameRoom),
               Fits(cells'[cells'[c].into].given, NameRoom)
        PROVE  cells'[cells'[c].into].given = cells'[c].given
    <3>1. CASE c = s
      <4>1. /\ cells'[c].into = t /\ cells'[c].given = cells[s].given
            /\ cells'[t].given = cells[t].given
        BY <1>2, <1>6, <3>1
      <4>2. /\ Fits(cells[s].given, NameRoom) /\ Fits(cells[t].given, NameRoom)
            /\ cells[s].given \in Text /\ cells[t].given \in Text
        BY <1>2, <2>1, <4>1 DEF CellEntry
      <4>3. /\ cells[s].owner = Cut(cells[s].given, NameRoom)
            /\ cells[t].owner = Cut(cells[t].given, NameRoom)
        BY DEF RegistryInv, CellsCut
      <4> QED
        BY <1>1, <4>1, <4>2, <4>3, CutText, Tables
    <3>2. CASE c # s
      <4>1. cells'[c] = cells[c] /\ cells[c].into \in 1..n
        BY <1>2, <1>4, <2>1, <3>2 DEF RegistryInv, CellsCut
      <4> QED
        BY <1>2, <1>6, <2>1, <4>1 DEF RegistryInv, MergesKeepOwner
    <3> QED
      BY <3>1, <3>2
  <2> QED
    BY <1>4, <2>1 DEF MergesKeepOwner
<1> QED
  BY <1>7, <1>8, <1>9 DEF RegistryInv

-----------------------------------------------------------------------------
(* The theorems.                                                           *)

\* Empty tables have the invariant.
LEMMA InitRegistry == RegistryInit => RegistryInv
BY DEF RegistryInit, RegistryInv, RegistryTyped, PoliciesCut, RoutesCut, CellsCut,
       FittingNamesFound, CopiesKeepMeaning, MergesKeepOwner

\* Every call keeps it.
LEMMA NextRegistry == RegistryInv /\ [RegistryNext]_registryVars => RegistryInv'
<1> SUFFICES ASSUME RegistryInv, [RegistryNext]_registryVars PROVE RegistryInv'
  OBVIOUS
<1>1. ASSUME NEW name \in PolicyTexts, AddPolicy(name) PROVE RegistryInv'
  BY <1>1, AddPolicyStep
<1>2. ASSUME NEW name \in RouteTexts, NEW asset \in AssetTexts, NEW policy \in PolicyTexts,
             AddRoute(name, asset, policy)
      PROVE  RegistryInv'
  BY <1>2, AddRouteStep
<1>3. ASSUME NEW owner \in OwnerTexts, NEW asset \in AssetTexts, NEW route \in RouteTexts,
             NEW policy \in PolicyTexts, CreateCell(owner, asset, route, policy)
      PROVE  RegistryInv'
  BY <1>3, CreateCellStep
<1>4. ASSUME NEW t \in DOMAIN cells, NEW s \in DOMAIN cells, ConsolidateCell(t, s)
      PROVE  RegistryInv'
  BY <1>4, ConsolidateCellStep
<1>5. CASE UNCHANGED registryVars
  BY <1>5 DEF registryVars, RegistryInv, RegistryTyped, PoliciesCut, RoutesCut, CellsCut,
              FittingNamesFound, CopiesKeepMeaning, MergesKeepOwner
<1> QED
  BY <1>1, <1>2, <1>3, <1>4, <1>5 DEF RegistryNext

\* The invariant holds in every state.
LEMMA RegistryInvAlways == RegistrySpec => []RegistryInv
BY InitRegistry, NextRegistry, PTL DEF RegistrySpec

\* A name that fits always finds its own entry: pdtl_find_policy and pdtl_find_route
\* take the first of that name, and no entry cut to the same text is before it.
THEOREM NamesAlwaysFound == RegistrySpec => []FittingNamesFound
<1>1. RegistryInv => FittingNamesFound
  BY DEF RegistryInv
<1> QED
  BY <1>1, RegistryInvAlways, PTL

\* What pdtl_add_route and pdtl_create_cell have copied into a struct always means what
\* they checked, whatever is registered later.
THEOREM CopiesAlwaysMean == RegistrySpec => []CopiesKeepMeaning
<1>1. RegistryInv => CopiesKeepMeaning
  BY DEF RegistryInv
<1> QED
  BY <1>1, RegistryInvAlways, PTL

\* pdtl_consolidate_cell, which compares names that were cut, never merges the cells of
\* two owners whose names fit.
THEOREM OwnersNeverMerge == RegistrySpec => []MergesKeepOwner
<1>1. RegistryInv => MergesKeepOwner
  BY DEF RegistryInv
<1> QED
  BY <1>1, RegistryInvAlways, PTL

\* No step changes what a lookup has found.
LEMMA LookupStep ==
    ASSUME RegistryInv, RegistryNext
    PROVE  /\ \A n \in PolicyTexts : Find(policies, n) # 0 => Find(policies', n) = Find(policies, n)
           /\ \A n \in RouteTexts : Find(routes, n) # 0 => Find(routes', n) = Find(routes, n)
<1> DEFINE Goal == /\ \A n \in PolicyTexts : Find(policies, n) # 0 =>
                          Find(policies', n) = Find(policies, n)
                   /\ \A n \in RouteTexts : Find(routes, n) # 0 =>
                          Find(routes', n) = Find(routes, n)
<1>1. ASSUME NEW entry, Longer(policies, entry, policies'), routes' = routes
      PROVE  Goal
  BY <1>1, FindLonger
<1>2. ASSUME NEW entry, Longer(routes, entry, routes'), policies' = policies
      PROVE  Goal
  BY <1>2, FindLonger
<1>3. ASSUME policies' = policies, routes' = routes PROVE Goal
  BY <1>3
<1> HIDE DEF Goal
<1>4. ASSUME NEW name \in PolicyTexts, AddPolicy(name) PROVE Goal
  <2> DEFINE entry == [name |-> Cut(name, NameRoom), given |-> name]
  <2>1. entry \in PolicyEntry
    BY TextsTyped, CutText, Tables DEF Texts, PolicyEntry
  <2>2. policies' = Append(policies, entry) /\ routes' = routes
    BY <1>4 DEF AddPolicy
  <2> HIDE DEF entry
  <2> QED
    BY <1>1, <2>1, <2>2, Tables, AppendLonger
<1>5. ASSUME NEW name \in RouteTexts, NEW asset \in AssetTexts, NEW policy \in PolicyTexts,
             AddRoute(name, asset, policy)
      PROVE  Goal
  <2> DEFINE entry == [name |-> Cut(name, NameRoom), given |-> name,
                       asset |-> Cut(asset, AssetRoom), policy |-> Cut(policy, NameRoom),
                       under |-> Find(policies, policy)]
  <2>1. entry \in RouteEntry
    <3>1. Find(policies, policy) \in Nat
      BY <1>5, FoundFits, Tables DEF AddRoute
    <3> QED
      BY <3>1, TextsTyped, CutText, Tables DEF Texts, RouteEntry
  <2>2. routes' = Append(routes, entry) /\ policies' = policies
    BY <1>5 DEF AddRoute
  <2> HIDE DEF entry
  <2> QED
    BY <1>2, <2>1, <2>2, Tables, AppendLonger
<1>6. ASSUME NEW owner \in OwnerTexts, NEW asset \in AssetTexts, NEW route \in RouteTexts,
             NEW policy \in PolicyTexts, CreateCell(owner, asset, route, policy)
      PROVE  Goal
  BY <1>3, <1>6 DEF CreateCell
<1>7. ASSUME NEW t \in DOMAIN cells, NEW s \in DOMAIN cells, ConsolidateCell(t, s)
      PROVE  Goal
  BY <1>3, <1>7 DEF ConsolidateCell
<1>8. Goal
  BY <1>4, <1>5, <1>6, <1>7 DEF RegistryNext
<1> QED
  BY <1>8 DEF Goal

\* A name never changes its meaning: what pdtl_find_policy and pdtl_find_route return
\* for it once they return for ever.
THEOREM LookupsNeverMove == RegistrySpec => LookupsStable
<1> DEFINE Step == /\ \A n \in PolicyTexts : Find(policies, n) # 0 =>
                          Find(policies', n) = Find(policies, n)
                   /\ \A n \in RouteTexts : Find(routes, n) # 0 =>
                          Find(routes', n) = Find(routes, n)
<1>1. RegistryInv /\ [RegistryNext]_registryVars => [Step]_registryVars
  BY LookupStep
<1>2. RegistrySpec => [][Step]_registryVars
  BY <1>1, RegistryInvAlways, PTL DEF RegistrySpec
<1> QED
  BY <1>2 DEF LookupsStable

-----------------------------------------------------------------------------
(* The digest of a route.                                                  *)

\* A place within a period is followed by one that is not the first.
LEMMA NextPlace ==
    ASSUME Period >= 2, NEW k \in Nat, k % Period = 0
    PROVE  (k + 1) % Period # 0
<1> DEFINE q == k \div Period
           r == (k + 1) \div Period
<1>1. Period \in Nat \ {0}
  BY RegistryAssumption
<1>2. q \in Int /\ k % Period = k - Period * q
  BY <1>1
<1>3. r \in Int /\ (k + 1) % Period = (k + 1) - Period * r
  BY <1>1
<1>4. SUFFICES ASSUME (k + 1) % Period = 0 PROVE FALSE
  OBVIOUS
<1> HIDE DEF q, r
<1>5. Period * q \in Int /\ Period * r \in Int
  BY <1>1, <1>2, <1>3
<1>6. Period * r - Period * q = 1
  BY <1>2, <1>3, <1>4, <1>5
<1>7. Period * (r - q) = 1
  BY <1>1, <1>2, <1>3, <1>6
<1>8. CASE r - q >= 1
  BY <1>1, <1>2, <1>3, <1>7, <1>8
<1>9. CASE r - q <= 0
  BY <1>1, <1>2, <1>3, <1>7, <1>9
<1> QED
  BY <1>2, <1>3, <1>8, <1>9

\* The places of a text of n bytes and its separator, after o others.
OneLaid(place, o, n) ==
    /\ \A k \in 1..n : place[o + k] = (k - 1) % Period
    /\ place[o + n + 1] = 0

\* Those of three texts.
Laid(place, size, a, b, c) ==
    /\ a \in Nat \ {0} /\ b \in Nat \ {0} /\ c \in Nat \ {0}
    /\ size = a + b + c + 3
    /\ OneLaid(place, 0, a) /\ OneLaid(place, a + 1, b) /\ OneLaid(place, a + b + 2, c)

\* The first place of a text, the second if it has one, and the separator.
LEMMA Starts ==
    ASSUME Period >= 2, NEW place, NEW o \in Nat, NEW n \in Nat \ {0}, OneLaid(place, o, n)
    PROVE  /\ place[o + 1] = 0
           /\ place[o + n + 1] = 0
           /\ (n >= 2 => place[o + 2] # 0)
<1>1. Period \in Nat \ {0}
  BY RegistryAssumption
<1>2. 0 % Period = 0
  BY <1>1
<1>3. \A k \in 1..n : place[o + k] = (k - 1) % Period
  BY DEF OneLaid
<1>4. place[o + 1] = 0
  <2>1. 1 \in 1..n /\ 1 - 1 = 0
    OBVIOUS
  <2> QED
    BY <1>2, <1>3, <2>1
<1>5. ASSUME n >= 2 PROVE place[o + 2] # 0
  <2>1. 2 \in 1..n /\ 2 - 1 = 0 + 1
    BY <1>5
  <2>2. place[o + 2] = (0 + 1) % Period
    BY <1>3, <2>1
  <2> QED
    BY <1>2, <2>2, NextPlace
<1> QED
  BY <1>4, <1>5 DEF OneLaid

\* Of two texts that start together the shorter ends just one byte earlier, if what
\* follows its separator begins at a first place.
LEMMA JustShorter ==
    ASSUME Period >= 2, NEW place, NEW o \in Nat, NEW n \in Nat \ {0}, OneLaid(place, o, n),
           NEW m \in Nat \ {0}, OneLaid(place, o, m), m < n, NEW p, p = o + m + 2, place[p] = 0
    PROVE  n = m + 1
<1>1. \A k \in 1..n : place[o + k] = (k - 1) % Period
  BY DEF OneLaid
<1>2. m % Period = 0
  <2>1. m + 1 \in 1..n /\ o + (m + 1) = o + m + 1 /\ (m + 1) - 1 = m
    OBVIOUS
  <2>2. place[o + (m + 1)] = ((m + 1) - 1) % Period
    BY <1>1, <2>1
  <2>3. place[o + m + 1] = 0
    BY DEF OneLaid
  <2> QED
    BY <2>1, <2>2, <2>3
<1>3. SUFFICES ASSUME m + 2 <= n PROVE FALSE
  OBVIOUS
<1>4. m + 2 \in 1..n /\ o + (m + 2) = p /\ (m + 2) - 1 = m + 1
  BY <1>3
<1>5. place[o + (m + 2)] = ((m + 2) - 1) % Period
  BY <1>1, <1>4
<1>6. (m + 1) % Period = 0
  BY <1>4, <1>5
<1> QED
  BY <1>2, <1>6, NextPlace

\* The first text cannot end earlier: the separator would have to be a byte at a first
\* place, the next text begin where the other has its separator, and so on to the end.
LEMMA FirstTextEnds ==
    ASSUME Period >= 2, NEW place, NEW size, NEW a, NEW b, NEW c, Laid(place, size, a, b, c),
           NEW x, NEW y, NEW z, Laid(place, size, x, y, z), x < a
    PROVE  FALSE
<1>1. /\ a \in Nat \ {0} /\ b \in Nat \ {0} /\ c \in Nat \ {0}
      /\ x \in Nat \ {0} /\ y \in Nat \ {0} /\ z \in Nat \ {0}
      /\ a + b + c + 3 = x + y + z + 3
      /\ OneLaid(place, 0, a) /\ OneLaid(place, a + 1, b) /\ OneLaid(place, a + b + 2, c)
      /\ OneLaid(place, 0, x) /\ OneLaid(place, x + 1, y) /\ OneLaid(place, x + y + 2, z)
  BY DEF Laid
<1>2. /\ place[(a + 1) + 1] = 0 /\ (b >= 2 => place[(a + 1) + 2] # 0)
      /\ place[(a + b + 2) + 1] = 0
  BY <1>1, Starts
<1>3. /\ place[(x + 1) + 1] = 0 /\ (y >= 2 => place[(x + 1) + 2] # 0)
      /\ place[(x + y + 2) + 1] = 0 /\ (z >= 2 => place[(x + y + 2) + 2] # 0)
  BY <1>1, Starts
<1>4. a = x + 1
  <2> DEFINE p == (x + 1) + 1
  <2>1. p = 0 + x + 2 /\ place[p] = 0
    BY <1>1, <1>3
  <2> HIDE DEF p
  <2> QED
    BY <1>1, <2>1, JustShorter
<1>5. y = 1
  <2>1. (a + 1) + 1 = (x + 1) + 2
    BY <1>1, <1>4
  <2>2. place[(x + 1) + 2] = 0
    BY <1>2, <2>1
  <2> QED
    BY <1>1, <1>3, <2>2
<1>6. b = 1
  <2>1. (x + y + 2) + 1 = (a + 1) + 2
    BY <1>1, <1>4, <1>5
  <2>2. place[(a + 1) + 2] = 0
    BY <1>3, <2>1
  <2> QED
    BY <1>1, <1>2, <2>2
<1>7. z >= 2 /\ (x + y + 2) + 2 = (a + b + 2) + 1
  BY <1>1, <1>4, <1>5, <1>6
<1>8. place[(x + y + 2) + 2] = 0
  BY <1>2, <1>7
<1> QED
  BY <1>3, <1>7, <1>8

\* Nor can the second, when the first texts are as long.
LEMMA SecondTextEnds ==
    ASSUME Period >= 2, NEW place, NEW size, NEW a, NEW b, NEW c, Laid(place, size, a, b, c),
           NEW y, NEW z, Laid(place, size, a, y, z), y < b
    PROVE  FALSE
<1>1. /\ a \in Nat \ {0} /\ b \in Nat \ {0} /\ c \in Nat \ {0}
      /\ y \in Nat \ {0} /\ z \in Nat \ {0}
      /\ a + b + c + 3 = a + y + z + 3
      /\ OneLaid(place, a + 1, b) /\ OneLaid(place, a + b + 2, c)
      /\ OneLaid(place, a + 1, y) /\ OneLaid(place, a + y + 2, z)
  BY DEF Laid
<1>2. place[(a + b + 2) + 1] = 0
  BY <1>1, Starts
<1>3. place[(a + y + 2) + 1] = 0 /\ (z >= 2 => place[(a + y + 2) + 2] # 0)
  BY <1>1, Starts
<1>4. b = y + 1
  <2> DEFINE p == (a + y + 2) + 1
  <2>1. p = (a + 1) + y + 2 /\ place[p] = 0
    BY <1>1, <1>3
  <2> HIDE DEF p
  <2>2. a + 1 \in Nat
    BY <1>1
  <2> QED
    BY <1>1, <2>1, <2>2, JustShorter
<1>5. z >= 2 /\ (a + y + 2) + 2 = (a + b + 2) + 1
  BY <1>1, <1>4
<1>6. place[(a + y + 2) + 2] = 0
  BY <1>2, <1>5
<1> QED
  BY <1>3, <1>5, <1>6

\* So the places alone tell where each text ends.
LEMMA PlacesTell ==
    ASSUME Period >= 2, NEW place, NEW size, NEW a, NEW b, NEW c, Laid(place, size, a, b, c),
           NEW x, NEW y, NEW z, Laid(place, size, x, y, z)
    PROVE  a = x /\ b = y /\ c = z
<1>1. /\ a \in Nat /\ b \in Nat /\ c \in Nat /\ x \in Nat /\ y \in Nat /\ z \in Nat
      /\ a + b + c + 3 = x + y + z + 3
  BY DEF Laid
<1>2. ~(x < a) /\ ~(a < x)
  BY FirstTextEnds
<1>3. a = x
  BY <1>1, <1>2
<1>4. ~(y < b) /\ ~(b < y)
  BY <1>3, SecondTextEnds
<1> QED
  BY <1>1, <1>3, <1>4

\* What is fed to the hash for a text.
LEMMA FedText ==
    ASSUME NEW S, NEW t \in Seq(S)
    PROVE  /\ UpdateStr(t) \in Seq((S \cup {"|"}) \X Nat) /\ Len(UpdateStr(t)) = Len(t) + 1
           /\ \A k \in 1..Len(t) : UpdateStr(t)[k] = <<t[k], (k - 1) % Period>>
           /\ UpdateStr(t)[Len(t) + 1] = <<"|", 0>>
<1> DEFINE A == (S \cup {"|"}) \X Nat
           u == UpdateBytes(t)
           v == UpdateBytes(<<"|">>)
           n == Len(t)
<1>1. n \in Nat /\ DOMAIN t = 1..n /\ \A k \in 1..n : t[k] \in S
  OBVIOUS
<1>2. Period \in Nat \ {0} /\ 0 % Period = 0
  BY RegistryAssumption
<1>3. \A k \in 1..n : (k - 1) % Period \in Nat
  BY <1>1, <1>2
<1>4. u = [k \in 1..n |-> <<t[k], (k - 1) % Period>>]
  BY <1>1 DEF UpdateBytes
<1>5. u \in Seq(A) /\ Len(u) = n
  <2>1. \A k \in 1..n : <<t[k], (k - 1) % Period>> \in A
    BY <1>1, <1>3
  <2>2. u \in [1..n -> A]
    BY <1>4, <2>1
  <2> HIDE DEF A, u, n
  <2> QED
    BY <1>1, <2>2
<1>6. \A k \in 1..n : u[k] = <<t[k], (k - 1) % Period>>
  BY <1>4
<1>7. v \in Seq(A) /\ Len(v) = 1 /\ v[1] = <<"|", 0>>
  <2>1. DOMAIN <<"|">> = 1..1 /\ <<"|">>[1] = "|"
    OBVIOUS
  <2>2. v = [k \in 1..1 |-> <<"|", 0>>]
    BY <1>2, <2>1 DEF UpdateBytes
  <2>3. v \in [1..1 -> A]
    BY <2>2
  <2> QED
    BY <2>2, <2>3
<1> HIDE DEF u, v, A, n
<1>8. /\ u \o v \in Seq(A) /\ Len(u \o v) = n + 1
      /\ \A k \in 1..n : (u \o v)[k] = u[k]
      /\ (u \o v)[n + 1] = v[1]
  <2>1. /\ u \o v \in Seq(A) /\ Len(u \o v) = Len(u) + Len(v)
        /\ \A k \in 1..(Len(u) + Len(v)) :
              (u \o v)[k] = IF k <= Len(u) THEN u[k] ELSE v[k - Len(u)]
    BY <1>5, <1>7, ConcatProperties
  <2>2. n + 1 \in 1..(n + 1) /\ (n + 1) - n = 1 /\ ~(n + 1 <= n)
    BY <1>1
  <2> QED
    BY <1>1, <1>5, <1>7, <2>1, <2>2
<1> QED
  BY <1>6, <1>7, <1>8 DEF UpdateStr, u, v, A, n

Two(d, u, v) ==
    /\ Len(d) = Len(u) + Len(v)
    /\ \A k \in 1..Len(u) : d[k] = u[k]
    /\ \A k \in 1..Len(v) : d[Len(u) + k] = v[k]

LEMMA TwoFed ==
    ASSUME NEW A, NEW u \in Seq(A), NEW v \in Seq(A)
    PROVE  u \o v \in Seq(A) /\ Two(u \o v, u, v)
<1> DEFINE d == u \o v
<1>1. Len(u) \in Nat /\ Len(v) \in Nat
  OBVIOUS
<1>2. /\ d \in Seq(A) /\ Len(d) = Len(u) + Len(v)
      /\ \A k \in 1..(Len(u) + Len(v)) : d[k] = IF k <= Len(u) THEN u[k] ELSE v[k - Len(u)]
  BY ConcatProperties
<1> HIDE DEF d
<1>3. \A k \in 1..Len(u) : d[k] = u[k]
  BY <1>1, <1>2
<1>4. ASSUME NEW k \in 1..Len(v) PROVE d[Len(u) + k] = v[k]
  <2>1. /\ Len(u) + k \in 1..(Len(u) + Len(v)) /\ ~(Len(u) + k <= Len(u))
        /\ (Len(u) + k) - Len(u) = k
    BY <1>1
  <2> QED
    BY <1>2, <2>1
<1>5. d \in Seq(A) /\ Two(d, u, v)
  BY <1>2, <1>3, <1>4 DEF Two
<1> QED
  BY <1>5 DEF d

Three(d, u, v, w) ==
    /\ Len(d) = Len(u) + Len(v) + Len(w)
    /\ \A k \in 1..Len(u) : d[k] = u[k]
    /\ \A k \in 1..Len(v) : d[Len(u) + k] = v[k]
    /\ \A k \in 1..Len(w) : d[Len(u) + Len(v) + k] = w[k]

\* Three texts after each other.
LEMMA ThreeFed ==
    ASSUME NEW A, NEW u \in Seq(A), NEW v \in Seq(A), NEW w \in Seq(A)
    PROVE  Three(u \o v \o w, u, v, w)
<1> DEFINE e == u \o v
           d == e \o w
<1>1. Len(u) \in Nat /\ Len(v) \in Nat /\ Len(w) \in Nat
  OBVIOUS
<1>2. e \in Seq(A) /\ Two(e, u, v)
  BY Zenon, TwoFed
<1> HIDE DEF e
<1>3. Two(d, e, w)
  BY Zenon, <1>2, TwoFed
<1> HIDE DEF d
<1>4. Len(e) = Len(u) + Len(v) /\ Len(d) = Len(u) + Len(v) + Len(w)
  BY <1>2, <1>3 DEF Two
<1>5. ASSUME NEW k \in 1..Len(u) PROVE d[k] = u[k]
  <2>1. k \in 1..Len(e)
    BY <1>1, <1>4
  <2> QED
    BY <1>2, <1>3, <2>1 DEF Two
<1>6. ASSUME NEW k \in 1..Len(v) PROVE d[Len(u) + k] = v[k]
  <2>1. Len(u) + k \in 1..Len(e)
    BY <1>1, <1>4
  <2> QED
    BY <1>2, <1>3, <2>1 DEF Two
<1>7. \A k \in 1..Len(w) : d[Len(u) + Len(v) + k] = w[k]
  BY <1>3, <1>4 DEF Two
<1>8. Three(d, u, v, w)
  BY <1>4, <1>5, <1>6, <1>7 DEF Three
<1> QED
  BY <1>8 DEF d, e

TextRoute(route) ==
    /\ route.name \in Text /\ route.asset \in Text /\ route.policy \in Text
    /\ Len(route.name) > 0 /\ Len(route.asset) > 0 /\ Len(route.policy) > 0

Fed(route, d, place) == d = RouteDigest(route) /\ place = [k \in 1..Len(d) |-> d[k][2]]

Reads(d, t, e, y) ==
    /\ \A k \in 1..Len(t) : d[k][1] = t[k]
    /\ \A k \in 1..Len(e) : d[Len(t) + 1 + k][1] = e[k]
    /\ \A k \in 1..Len(y) : d[Len(t) + Len(e) + 2 + k][1] = y[k]

\* The feed of a route: where its texts are laid, and what they say.
LEMMA RouteFed ==
    ASSUME NEW route, TextRoute(route), NEW d, NEW place, Fed(route, d, place)
    PROVE  /\ Laid(place, Len(d), Len(route.name), Len(route.asset), Len(route.policy))
           /\ Reads(d, route.name, route.asset, route.policy)
<1> DEFINE t == route.name
           e == route.asset
           y == route.policy
           u == UpdateStr(t)
           v == UpdateStr(e)
           w == UpdateStr(y)
           a == Len(t)
           b == Len(e)
           c == Len(y)
           A == (Letters \cup {"|"}) \X Nat
<1>1. a \in Nat \ {0} /\ b \in Nat \ {0} /\ c \in Nat \ {0}
  BY DEF TextRoute, Text
<1>2. /\ u \in Seq(A) /\ Len(u) = a + 1 /\ u[a + 1] = <<"|", 0>>
      /\ \A k \in 1..a : u[k] = <<t[k], (k - 1) % Period>>
  BY FedText DEF TextRoute, Text
<1>3. /\ v \in Seq(A) /\ Len(v) = b + 1 /\ v[b + 1] = <<"|", 0>>
      /\ \A k \in 1..b : v[k] = <<e[k], (k - 1) % Period>>
  BY FedText DEF TextRoute, Text
<1>4. /\ w \in Seq(A) /\ Len(w) = c + 1 /\ w[c + 1] = <<"|", 0>>
      /\ \A k \in 1..c : w[k] = <<y[k], (k - 1) % Period>>
  BY FedText DEF TextRoute, Text
<1>5. d = u \o v \o w /\ \A k \in 1..Len(d) : place[k] = d[k][2]
  BY DEF Fed, RouteDigest
<1> HIDE DEF A, u, v, w
<1>6. /\ Len(d) = Len(u) + Len(v) + Len(w)
      /\ \A k \in 1..Len(u) : d[k] = u[k]
      /\ \A k \in 1..Len(v) : d[Len(u) + k] = v[k]
      /\ \A k \in 1..Len(w) : d[Len(u) + Len(v) + k] = w[k]
  <2>1. Three(u \o v \o w, u, v, w)
    BY Zenon, <1>2, <1>3, <1>4, ThreeFed
  <2>2. Three(d, u, v, w)
    BY Zenon, <1>5, <2>1
  <2> QED
    BY <2>2 DEF Three
<1> HIDE DEF a, b, c, t, e, y
<1>7. Len(d) = a + b + c + 3
  BY <1>1, <1>2, <1>3, <1>4, <1>6
<1>8. ASSUME NEW k \in 1..(a + 1) PROVE d[k] = u[k] /\ place[k] = u[k][2]
  <2>1. k \in 1..Len(u) /\ k \in 1..Len(d)
    BY <1>1, <1>2, <1>7
  <2> QED
    BY <1>5, <1>6, <2>1
<1>9. ASSUME NEW k \in 1..(b + 1) PROVE d[a + 1 + k] = v[k] /\ place[(a + 1) + k] = v[k][2]
  <2>1. k \in 1..Len(v) /\ (a + 1) + k \in 1..Len(d) /\ Len(u) + k = (a + 1) + k
    BY <1>1, <1>2, <1>3, <1>7
  <2>2. d[(a + 1) + k] = v[k]
    BY <1>6, <2>1
  <2> QED
    BY <1>5, <2>1, <2>2
<1>10. ASSUME NEW k \in 1..(c + 1)
       PROVE  d[a + b + 2 + k] = w[k] /\ place[(a + b + 2) + k] = w[k][2]
  <2>1. /\ k \in 1..Len(w) /\ (a + b + 2) + k \in 1..Len(d)
        /\ Len(u) + Len(v) + k = (a + b + 2) + k
    BY <1>1, <1>2, <1>3, <1>4, <1>7
  <2>2. d[(a + b + 2) + k] = w[k]
    BY <1>6, <2>1
  <2> QED
    BY <1>5, <2>1, <2>2
<1>11. OneLaid(place, 0, a)
  <2>1. ASSUME NEW k \in 1..a PROVE place[0 + k] = (k - 1) % Period
    <3>1. k \in 1..(a + 1) /\ 0 + k = k
      BY <1>1
    <3>2. place[k] = u[k][2] /\ u[k] = <<t[k], (k - 1) % Period>>
      BY <1>2, <1>8, <3>1
    <3> QED
      BY <3>1, <3>2
  <2>2. a + 1 \in 1..(a + 1) /\ 0 + (a + 1) = 0 + a + 1
    BY <1>1
  <2>3. place[0 + a + 1] = 0
    <3> DEFINE k == a + 1
    <3>1. place[k] = u[k][2] /\ u[k] = <<"|", 0>>
      BY <1>2, <1>8, <2>2
    <3> QED
      BY <1>1, <2>2, <3>1
  <2> QED
    BY <2>1, <2>3 DEF OneLaid
<1>12. OneLaid(place, a + 1, b)
  <2>1. ASSUME NEW k \in 1..b PROVE place[(a + 1) + k] = (k - 1) % Period
    <3>1. k \in 1..(b + 1) /\ (a + 1) + k = (a + 1) + k
      BY <1>1
    <3>2. place[(a + 1) + k] = v[k][2] /\ v[k] = <<e[k], (k - 1) % Period>>
      BY <1>3, <1>9, <3>1
    <3> QED
      BY <3>1, <3>2
  <2>2. b + 1 \in 1..(b + 1) /\ (a + 1) + (b + 1) = (a + 1) + b + 1
    BY <1>1
  <2>3. place[(a + 1) + b + 1] = 0
    <3> DEFINE k == b + 1
    <3>1. place[(a + 1) + k] = v[k][2] /\ v[k] = <<"|", 0>>
      BY <1>3, <1>9, <2>2
    <3> QED
      BY <1>1, <2>2, <3>1
  <2> QED
    BY <2>1, <2>3 DEF OneLaid
<1>13. OneLaid(place, a + b + 2, c)
  <2>1. ASSUME NEW k \in 1..c PROVE place[(a + b + 2) + k] = (k - 1) % Period
    <3>1. k \in 1..(c + 1) /\ (a + b + 2) + k = (a + b + 2) + k
      BY <1>1
    <3>2. place[(a + b + 2) + k] = w[k][2] /\ w[k] = <<y[k], (k - 1) % Period>>
      BY <1>4, <1>10, <3>1
    <3> QED
      BY <3>1, <3>2
  <2>2. c + 1 \in 1..(c + 1) /\ (a + b + 2) + (c + 1) = (a + b + 2) + c + 1
    BY <1>1
  <2>3. place[(a + b + 2) + c + 1] = 0
    <3> DEFINE k == c + 1
    <3>1. place[(a + b + 2) + k] = w[k][2] /\ w[k] = <<"|", 0>>
      BY <1>4, <1>10, <2>2
    <3> QED
      BY <1>1, <2>2, <3>1
  <2> QED
    BY <2>1, <2>3 DEF OneLaid
<1>14. Laid(place, Len(d), a, b, c)
  BY <1>1, <1>7, <1>11, <1>12, <1>13 DEF Laid
<1>15. ASSUME NEW k \in 1..a PROVE d[k][1] = t[k]
  <2>1. k \in 1..(a + 1)
    BY <1>1
  <2>2. d[k] = u[k] /\ u[k] = <<t[k], (k - 1) % Period>>
    BY <1>2, <1>8, <2>1
  <2> QED
    BY <2>2
<1>16. ASSUME NEW k \in 1..b PROVE d[a + 1 + k][1] = e[k]
  <2>1. k \in 1..(b + 1)
    BY <1>1
  <2>2. d[a + 1 + k] = v[k] /\ v[k] = <<e[k], (k - 1) % Period>>
    BY <1>3, <1>9, <2>1
  <2> QED
    BY <2>2
<1>17. ASSUME NEW k \in 1..c PROVE d[a + b + 2 + k][1] = y[k]
  <2>1. k \in 1..(c + 1)
    BY <1>1
  <2>2. d[a + b + 2 + k] = w[k] /\ w[k] = <<y[k], (k - 1) % Period>>
    BY <1>4, <1>10, <2>1
  <2> QED
    BY <2>2
<1>18. Reads(d, t, e, y)
  BY <1>15, <1>16, <1>17 DEF Reads, a, b, c
<1> QED
  BY ONLY <1>14, <1>18 DEF a, b, c, t, e, y

\* Routes with equal feeds have equal texts.
LEMMA FeedTells ==
    ASSUME Period >= 2, NEW r, TextRoute(r), NEW s, TextRoute(s),
           RouteDigest(r) = RouteDigest(s)
    PROVE  r.name = s.name /\ r.asset = s.asset /\ r.policy = s.policy
<1>1. PICK d, place : Fed(r, d, place) /\ Fed(s, d, place)
  BY DEF Fed
<1>2. /\ Laid(place, Len(d), Len(r.name), Len(r.asset), Len(r.policy))
      /\ Reads(d, r.name, r.asset, r.policy)
  BY <1>1, RouteFed
<1>3. /\ Laid(place, Len(d), Len(s.name), Len(s.asset), Len(s.policy))
      /\ Reads(d, s.name, s.asset, s.policy)
  BY <1>1, RouteFed
<1>4. /\ Len(r.name) = Len(s.name) /\ Len(r.asset) = Len(s.asset)
      /\ Len(r.policy) = Len(s.policy)
  BY <1>2, <1>3, PlacesTell
<1>5. \A k \in 1..Len(r.name) : r.name[k] = s.name[k]
  BY <1>2, <1>3, <1>4 DEF Reads
<1>6. \A k \in 1..Len(r.asset) : r.asset[k] = s.asset[k]
  BY <1>2, <1>3, <1>4 DEF Reads
<1>7. \A k \in 1..Len(r.policy) : r.policy[k] = s.policy[k]
  BY <1>2, <1>3, <1>4 DEF Reads
<1> QED
  BY <1>4, <1>5, <1>6, <1>7, SeqEqual DEF TextRoute, Text

\* No struct has an empty name: it is neither passed nor the outcome of a cut.
NoneEmpty ==
    /\ \A i \in DOMAIN policies : Len(policies[i].name) > 0
    /\ \A i \in DOMAIN routes : /\ Len(routes[i].name) > 0
                                /\ Len(routes[i].asset) > 0 /\ Len(routes[i].policy) > 0

LEMMA CutNotEmpty ==
    ASSUME NEW t \in Text, t # Empty, NEW room \in Nat \ {0}
    PROVE  Len(Cut(t, room)) > 0
<1>1. Len(t) \in Nat /\ Len(t) # 0
  BY EmptySeq DEF Text, Empty
<1>2. CASE Len(t) <= room
  BY <1>1, <1>2 DEF Cut
<1>3. CASE ~(Len(t) <= room)
  <2>1. room \in 0..Len(t)
    BY <1>1, <1>3
  <2>2. Len(SubSeq(t, 1, room)) = room
    BY <2>1 DEF Text
  <2> QED
    BY <1>3, <2>2 DEF Cut
<1> QED
  BY <1>2, <1>3

LEMMA NoneEmptyStep ==
    ASSUME RegistryInv, NoneEmpty, [RegistryNext]_registryVars
    PROVE  NoneEmpty'
<1>1. NameRoom \in Nat \ {0} /\ AssetRoom \in Nat \ {0}
  BY RegistryAssumption
<1>2. ASSUME NEW entry \in PolicyEntry, Len(entry.name) > 0,
             policies' = Append(policies, entry), routes' = routes
      PROVE  NoneEmpty'
  <2>1. Longer(policies, entry, policies') /\ policies' \in Seq(PolicyEntry)
    BY <1>2, Tables, AppendLonger
  <2>2. DOMAIN policies' = 1..(Len(policies) + 1)
    BY <2>1 DEF Longer
  <2> QED
    BY <1>2, <2>1, <2>2, Tables DEF NoneEmpty, Longer
<1>3. ASSUME NEW entry \in RouteEntry, Len(entry.name) > 0, Len(entry.asset) > 0,
             Len(entry.policy) > 0, routes' = Append(routes, entry), policies' = policies
      PROVE  NoneEmpty'
  <2>1. Longer(routes, entry, routes') /\ routes' \in Seq(RouteEntry)
    BY <1>3, Tables, AppendLonger
  <2>2. DOMAIN routes' = 1..(Len(routes) + 1)
    BY <2>1 DEF Longer
  <2> QED
    BY <1>3, <2>1, <2>2, Tables DEF NoneEmpty, Longer
<1>4. ASSUME policies' = policies, routes' = routes PROVE NoneEmpty'
  BY <1>4 DEF NoneEmpty
<1>5. ASSUME NEW name \in PolicyTexts, AddPolicy(name) PROVE NoneEmpty'
  <2> DEFINE entry == [name |-> Cut(name, NameRoom), given |-> name]
  <2>1. name \in Text /\ name # Empty
    BY <1>5, TextsTyped DEF Texts, AddPolicy
  <2>2. entry \in PolicyEntry /\ Len(entry.name) > 0
    BY <1>1, <2>1, CutText, CutNotEmpty DEF PolicyEntry
  <2>3. policies' = Append(policies, entry) /\ routes' = routes
    BY <1>5 DEF AddPolicy
  <2> HIDE DEF entry
  <2> QED
    BY <1>2, <2>2, <2>3
<1>6. ASSUME NEW name \in RouteTexts, NEW asset \in AssetTexts, NEW policy \in PolicyTexts,
             AddRoute(name, asset, policy)
      PROVE  NoneEmpty'
  <2> DEFINE entry == [name |-> Cut(name, NameRoom), given |-> name,
                       asset |-> Cut(asset, AssetRoom), policy |-> Cut(policy, NameRoom),
                       under |-> Find(policies, policy)]
  <2>1. name \in Text /\ asset \in Text /\ policy \in Text
    BY TextsTyped DEF Texts
  <2>2. name # Empty /\ asset # Empty /\ Find(policies, policy) # 0
    BY <1>6 DEF AddRoute, NewRouteName
  <2>3. /\ Len(policy) > 0 /\ Cut(policy, NameRoom) = policy
        /\ Find(policies, policy) \in Nat
    <3>1. /\ Find(policies, policy) \in DOMAIN policies /\ Fits(policy, NameRoom)
          /\ policies[Find(policies, policy)].name = policy
          /\ Find(policies, policy) \in Nat
      BY <2>2, FoundFits, Tables
    <3> QED
      BY <1>1, <2>1, <3>1, CutText DEF NoneEmpty
  <2>4. entry \in RouteEntry
    BY <1>1, <2>1, <2>3, CutText DEF RouteEntry
  <2>5. Len(entry.name) > 0 /\ Len(entry.asset) > 0 /\ Len(entry.policy) > 0
    BY <1>1, <2>1, <2>2, <2>3, CutNotEmpty
  <2>6. routes' = Append(routes, entry) /\ policies' = policies
    BY <1>6 DEF AddRoute
  <2> HIDE DEF entry
  <2> QED
    BY <1>3, <2>4, <2>5, <2>6
<1>7. ASSUME NEW owner \in OwnerTexts, NEW asset \in AssetTexts, NEW route \in RouteTexts,
             NEW policy \in PolicyTexts, CreateCell(owner, asset, route, policy)
      PROVE  NoneEmpty'
  BY <1>4, <1>7 DEF CreateCell
<1>8. ASSUME NEW t \in DOMAIN cells, NEW s \in DOMAIN cells, ConsolidateCell(t, s)
      PROVE  NoneEmpty'
  BY <1>4, <1>8 DEF ConsolidateCell
<1>9. CASE UNCHANGED registryVars
  BY <1>4, <1>9 DEF registryVars
<1> QED
  BY <1>5, <1>6, <1>7, <1>8, <1>9 DEF RegistryNext

\* Routes of equal digests have equal names, assets and policies (pdtl_route_digest),
\* however long the texts and whatever separators are in them, as long as the place of a
\* byte counts at all: the code's period is 31.
THEOREM RoutesTold == Period >= 2 => (RegistrySpec => []DigestTellsRoutes)
<1> SUFFICES ASSUME Period >= 2 PROVE RegistrySpec => []DigestTellsRoutes
  OBVIOUS
<1>1. RegistryInit => NoneEmpty
  BY DEF RegistryInit, NoneEmpty
<1>2. RegistrySpec => []NoneEmpty
  BY <1>1, NoneEmptyStep, RegistryInvAlways, PTL DEF RegistrySpec
<1>3. ASSUME RegistryInv, NoneEmpty PROVE DigestTellsRoutes
  <2> SUFFICES ASSUME NEW i \in DOMAIN routes, NEW j \in DOMAIN routes,
                      RouteDigest(routes[i]) = RouteDigest(routes[j])
               PROVE  /\ routes[i].name = routes[j].name
                      /\ routes[i].asset = routes[j].asset
                      /\ routes[i].policy = routes[j].policy
    BY DEF DigestTellsRoutes
  <2> DEFINE r == routes[i]
             s == routes[j]
  <2>1. TextRoute(r) /\ TextRoute(s)
    <3>1. r \in RouteEntry /\ s \in RouteEntry
      BY <1>3, Tables
    <3> QED
      BY <1>3, <3>1 DEF NoneEmpty, RouteEntry, TextRoute
  <2>2. RouteDigest(r) = RouteDigest(s)
    OBVIOUS
  <2> HIDE DEF r, s
  <2>3. r.name = s.name /\ r.asset = s.asset /\ r.policy = s.policy
    BY <2>1, <2>2, FeedTells
  <2> QED
    BY <2>3 DEF r, s
<1> QED
  BY <1>2, <1>3, RegistryInvAlways, PTL

=============================================================================
