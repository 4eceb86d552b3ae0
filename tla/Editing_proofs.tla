--------------------------- MODULE Editing_proofs ---------------------------
(***************************************************************************)
(* Proofs about what an editor sees of its documents.                      *)
(*                                                                         *)
(* Module Documents, for any paths, files and texts: buffers and the paths *)
(* that share them fit together, through every merge of identities.  First *)
(* the operations of MemDocs, which keep Owned whatever ids they are       *)
(* given; then the VFS, which hands out ids of the right kind; then the    *)
(* steps of the main loop.                                                 *)
(*                                                                         *)
(* Module Diagnostics, for any files and any bounds: the cache is what the *)
(* client shows, whatever it is newly shown is true, and what changed is   *)
(* asked for and served.                                                   *)
(***************************************************************************)
EXTENDS Documents, Diagnostics, FiniteSetTheorems, WellFoundedInduction, TLAPS

-----------------------------------------------------------------------------
(* MemDocs *)

\* BuffersOwned of a value.
Fits(d, id) ==
  /\ ContainsFileId(d, id) => Attached(d, d.buffers[id].path, id)
  /\ Sharing(d, id) # {} => ContainsFileId(d, id)

Owned(d) == d \in DocsType /\ \A id \in Ids : Fits(d, id)

\* The two maps of a value.
LEMMA DocsFields ==
  ASSUME NEW d \in DocsType
  PROVE  /\ d = [buffers |-> d.buffers, open |-> d.open]
         /\ d.buffers \in [Ids -> Buffers \cup {NoBuffer}]
         /\ d.open \in [Paths -> Aliases \cup {Closed}]
BY DEF DocsType

\* A buffer is not the absence of one; an alias is not a closed path.
LEMMA Kinds ==
  /\ \A b \in Buffers : b # NoBuffer /\ b.path \in Paths /\ b.data \in Texts
  /\ \A a \in Aliases : a # Closed /\ a.id \in Ids /\ a.attached \in BOOLEAN
  /\ \A p \in Paths, x \in Texts : Buffer(p, x) \in Buffers
  /\ \A id \in Ids, a \in BOOLEAN : Alias(id, a) \in Aliases
BY DEF Buffers, Aliases, NoBuffer, Closed, Buffer, Alias

\* Reconcile keeps the types and touches one buffer.
LEMMA ReconcileType ==
  ASSUME NEW d \in DocsType, NEW id \in Ids
  PROVE  /\ Reconcile(d, id) \in DocsType
         /\ Reconcile(d, id).open = d.open
         /\ \A i \in Ids : i # id => Reconcile(d, id).buffers[i] = d.buffers[i]
<1>1. CASE ~ContainsFileId(d, id) \/ Attached(d, d.buffers[id].path, id)
  BY <1>1 DEF Reconcile
<1>2. CASE ~(~ContainsFileId(d, id) \/ Attached(d, d.buffers[id].path, id))
  <2> DEFINE owner == CHOOSE p \in Sharing(d, id) : TRUE
             b     == IF Sharing(d, id) = {} THEN NoBuffer ELSE Buffer(owner, d.buffers[id].data)
  <2>1. Reconcile(d, id) = [d EXCEPT !.buffers[id] = b]
    BY <1>2 DEF Reconcile
  <2>2. d.buffers[id] \in Buffers
    BY <1>2, DocsFields DEF ContainsFileId
  <2>3. Sharing(d, id) # {} => owner \in Paths
    BY DEF Sharing
  <2>4. b \in Buffers \cup {NoBuffer}
    BY <2>2, <2>3, Kinds
  <2> HIDE DEF b
  <2>5. QED BY <2>1, <2>4, DocsFields DEF DocsType
<1>3. QED BY <1>1, <1>2

\* Reconcile mends the buffer of an id, provided that a path that shares it has one.
LEMMA ReconcileMends ==
  ASSUME NEW d \in DocsType, NEW id \in Ids,
         Sharing(d, id) # {} => ContainsFileId(d, id)
  PROVE  Fits(Reconcile(d, id), id)
<1>1. CASE ~ContainsFileId(d, id) \/ Attached(d, d.buffers[id].path, id)
  BY <1>1 DEF Reconcile, Fits
<1>2. CASE ~(~ContainsFileId(d, id) \/ Attached(d, d.buffers[id].path, id))
  <2> DEFINE owner == CHOOSE p \in Sharing(d, id) : TRUE
             r     == Reconcile(d, id)
  <2>1. r.open = d.open
    BY ReconcileType
  <2>2. Sharing(r, id) = Sharing(d, id)
    BY <2>1 DEF Sharing, Attached
  <2>3. CASE Sharing(d, id) = {}
    <3>1. r.buffers[id] = NoBuffer
      BY <1>2, <2>3, DocsFields DEF Reconcile
    <3>2. QED BY <2>2, <2>3, <3>1 DEF Fits, ContainsFileId
  <2>4. CASE Sharing(d, id) # {}
    <3>1. r.buffers[id] = Buffer(owner, d.buffers[id].data)
      BY <1>2, <2>4, DocsFields DEF Reconcile
    <3>2. owner \in Sharing(d, id)
      BY <2>4
    <3>3. r.buffers[id].path = owner /\ r.buffers[id] # NoBuffer
      BY <3>1 DEF Buffer, NoBuffer
    <3>4. Attached(r, owner, id)
      BY <2>1, <3>2 DEF Sharing, Attached
    <3> HIDE DEF owner, r
    <3>5. Fits(r, id)
      BY <3>3, <3>4 DEF Fits, ContainsFileId
    <3>6. QED BY <3>5 DEF r
  <2>5. QED BY <2>3, <2>4
<1>3. QED BY <1>1, <1>2

\* What fits an id depends on its buffer and on the paths that share it.
LEMMA FitsSame ==
  ASSUME NEW d, NEW e, NEW id, d.buffers[id] = e.buffers[id],
         \A p \in Paths : d.open[p] = e.open[p] \/ (~Attached(d, p, id) /\ ~Attached(e, p, id)),
         ContainsFileId(d, id) => d.buffers[id].path \in Paths,
         Fits(d, id)
  PROVE  Fits(e, id)
<1>1. \A p \in Paths : Attached(d, p, id) <=> Attached(e, p, id)
  BY DEF Attached
<1>2. Sharing(d, id) = Sharing(e, id)
  BY <1>1 DEF Sharing
<1>3. QED BY <1>1, <1>2 DEF Fits, ContainsFileId

\* A buffer has a path and a text.
LEMMA PathOfBuffer ==
  ASSUME NEW d \in DocsType, NEW id \in Ids, ContainsFileId(d, id)
  PROVE  d.buffers[id].path \in Paths /\ d.buffers[id].data \in Texts
BY DocsFields, Kinds DEF ContainsFileId

\* An entry is changed, and the buffer of the id it led to is put in order: what was
\* done to the id it leads to now remains to be looked at.
LEMMA EntryChanged ==
  ASSUME NEW d, Owned(d), NEW p \in Paths, ContainsPath(d, p),
         NEW a \in Aliases \cup {Closed}, a # Closed => a.id # d.open[p].id,
         NEW e, e = Reconcile([d EXCEPT !.open[p] = a], d.open[p].id)
  PROVE  /\ e \in DocsType
         /\ e.open = [d.open EXCEPT ![p] = a]
         /\ \A i \in Ids : i # d.open[p].id => e.buffers[i] = d.buffers[i]
         /\ \A i \in Ids : (a = Closed \/ i # a.id) => Fits(e, i)
<1> DEFINE was == d.open[p].id
           c   == [d EXCEPT !.open[p] = a]
<1>1. d \in DocsType /\ \A i \in Ids : Fits(d, i)
  BY DEF Owned
<1>2. was \in Ids
  BY <1>1, DocsFields, Kinds DEF ContainsPath
<1>3. c \in DocsType /\ c.buffers = d.buffers /\ c.open = [d.open EXCEPT ![p] = a]
  BY <1>1, DocsFields DEF DocsType
<1>4. d.open \in [Paths -> Aliases \cup {Closed}]
  BY <1>1, DocsFields
<1>5. \A i \in Ids : i # was => ~Attached(d, p, i)
  BY DEF Attached, Alias
<1>6. \A i \in Ids : (a = Closed \/ i # a.id) => ~Attached(c, p, i)
  BY <1>3, <1>4, Kinds DEF Attached, Alias, Closed
<1>7. \A q \in Paths : q # p => c.open[q] = d.open[q]
  BY <1>3, <1>4
<1>e. e = Reconcile(c, was)
  OBVIOUS
<1> HIDE DEF c, was
<1>8. e \in DocsType /\ e.open = c.open /\ \A i \in Ids : i # was => e.buffers[i] = c.buffers[i]
  BY <1>2, <1>3, <1>e, ReconcileType
<1>9. Fits(e, was)
  <2>1. Sharing(c, was) # {} => ContainsFileId(c, was)
    <3> SUFFICES ASSUME NEW q \in Paths, Attached(c, q, was) PROVE ContainsFileId(c, was)
      BY DEF Sharing
    <3>1. ~Attached(c, p, was)
      BY <1>2, <1>6 DEF was
    <3>2. Attached(d, q, was)
      BY <1>7, <3>1 DEF Attached
    <3>3. QED BY <1>1, <1>2, <1>3, <3>2 DEF Fits, Sharing, ContainsFileId
  <2>2. QED BY <1>2, <1>3, <1>e, <2>1, ReconcileMends
<1>10. ASSUME NEW i \in Ids, i # was, a = Closed \/ i # a.id PROVE Fits(e, i)
  <2>1. e.buffers[i] = d.buffers[i]
    BY <1>3, <1>8, <1>10
  <2>2. \A q \in Paths : d.open[q] = e.open[q] \/ (~Attached(d, q, i) /\ ~Attached(e, q, i))
    BY <1>5, <1>6, <1>7, <1>8, <1>10 DEF Attached
  <2>3. ContainsFileId(d, i) => d.buffers[i].path \in Paths
    BY <1>1, PathOfBuffer
  <2>4. QED BY <1>1, <2>1, <2>2, <2>3, FitsSame
<1>11. QED
  BY <1>3, <1>8, <1>9, <1>10 DEF c, was

\* didOpen: the path leads to its new id, and may leave another one behind.
LEMMA InsertKeeps ==
  ASSUME NEW d, Owned(d), NEW id \in Ids, NEW p \in Paths, NEW data \in Texts
  PROVE  Owned(Insert(d, id, p, data))
<1>1. CASE Reopened(d, p, id)
  BY <1>1 DEF Insert
<1>2. CASE ~Reopened(d, p, id)
  <2> DEFINE old    == d.open[p]
             a      == NewAlias(d, id, data)
             listed == [d EXCEPT !.open[p] = a]
             carried  == IF old = Closed THEN listed ELSE Reconcile(listed, old.id)
             e      == [carried EXCEPT !.buffers[id] = Buffer(p, data)]
  <2>1. Insert(d, id, p, data) = IF ContainsFileId(carried, id) THEN carried ELSE e
    BY <1>2 DEF Insert
  <2>2. d \in DocsType /\ \A i \in Ids : Fits(d, i)
    BY DEF Owned
  <2>3. /\ a \in Aliases /\ a.id = id /\ a # Closed
        /\ ContainsFileId(d, id) \/ a = Alias(id, TRUE)
    <3>1. a = Alias(id, ContainsFileId(d, id) => d.buffers[id].data = data)
      BY DEF NewAlias
    <3>2. (ContainsFileId(d, id) => d.buffers[id].data = data) \in BOOLEAN
      OBVIOUS
    <3>3. a \in Aliases
      BY <3>1, <3>2, Kinds
    <3>4. a.id = id
      BY <3>1 DEF Alias
    <3>5. ~ContainsFileId(d, id) => a = Alias(id, TRUE)
      BY <3>1
    <3>6. QED BY <3>3, <3>4, <3>5, Kinds
  <2>4. ~Attached(d, p, id)
    BY <1>2 DEF Attached, Alias, Reopened, ContainsPath, Closed
  <2> HIDE DEF a
  <2>5. /\ carried \in DocsType
        /\ carried.open = [d.open EXCEPT ![p] = a]
        /\ carried.buffers[id] = d.buffers[id]
        /\ \A i \in Ids : i # id => Fits(carried, i)
    <3>1. CASE old = Closed
      <4>1. carried = listed
        BY <3>1
      <4>2. listed \in DocsType /\ listed.open = [d.open EXCEPT ![p] = a] /\ listed.buffers = d.buffers
        BY <2>2, <2>3, DocsFields DEF DocsType
      <4>3. \A q \in Paths : q # p => listed.open[q] = d.open[q]
        BY <2>2, <4>2, DocsFields
      <4>4. listed.open[p] = a
        BY <2>2, <4>2, DocsFields
      <4> HIDE DEF listed, carried
      <4>5. ASSUME NEW i \in Ids, i # id PROVE Fits(listed, i)
        <5>1. ~Attached(d, p, i) /\ ~Attached(listed, p, i)
          BY <2>3, <3>1, <4>4, <4>5 DEF Attached, Alias, Closed
        <5>2. QED BY <2>2, <4>2, <4>3, <5>1, FitsSame, PathOfBuffer
      <4>6. QED BY <4>1, <4>2, <4>5
    <3>2. CASE old # Closed
      <4>1. ContainsPath(d, p) /\ old.id # id
        BY <1>2, <3>2 DEF Reopened, ContainsPath
      <4>2. carried = Reconcile(listed, d.open[p].id)
        BY <3>2
      <4>3. a # Closed => a.id # d.open[p].id
        BY <2>3, <4>1
      <4> HIDE DEF carried
      <4>4. /\ carried \in DocsType
            /\ carried.open = [d.open EXCEPT ![p] = a]
            /\ \A i \in Ids : i # d.open[p].id => carried.buffers[i] = d.buffers[i]
            /\ \A i \in Ids : (a = Closed \/ i # a.id) => Fits(carried, i)
        BY <2>3, <4>1, <4>2, <4>3, EntryChanged
      <4>5. QED BY <2>3, <4>1, <4>4
    <3>3. QED BY <3>1, <3>2
  <2> HIDE DEF carried
  <2>6. /\ \A q \in Paths : q # p => carried.open[q] = d.open[q]
        /\ carried.open[p] = a
    BY <2>2, <2>5, DocsFields
  <2>7. CASE ContainsFileId(carried, id)
    <3>1. ContainsFileId(d, id)
      BY <2>5, <2>7 DEF ContainsFileId
    <3>2. Attached(d, d.buffers[id].path, id)
      BY <2>2, <3>1 DEF Fits
    <3>3. d.buffers[id].path # p /\ d.buffers[id].path \in Paths
      BY <2>2, <2>4, <3>1, <3>2, PathOfBuffer
    <3>4. Fits(carried, id)
      BY <2>5, <2>6, <2>7, <3>2, <3>3 DEF Fits, Attached
    <3>5. QED BY <2>1, <2>5, <2>7, <3>4 DEF Owned
  <2>8. CASE ~ContainsFileId(carried, id)
    <3>1. a = Alias(id, TRUE)
      BY <2>3, <2>5, <2>8 DEF ContainsFileId
    <3>2. Buffer(p, data) \in Buffers
      BY Kinds
    <3>3. /\ e \in DocsType /\ e.open = carried.open
          /\ e.buffers[id] = Buffer(p, data)
          /\ \A i \in Ids : i # id => e.buffers[i] = carried.buffers[i]
      BY <2>5, <3>2, DocsFields DEF DocsType
    <3> HIDE DEF e
    <3>4. Fits(e, id)
      <4>1. Attached(e, p, id) /\ ContainsFileId(e, id) /\ e.buffers[id].path = p
        <5>1. e.open[p] = Alias(id, TRUE)
          BY <2>6, <3>1, <3>3
        <5>2. e.buffers[id] # NoBuffer
          BY <3>2, <3>3, Kinds
        <5>3. e.buffers[id].path = p
          BY <3>3 DEF Buffer
        <5>4. QED BY <5>1, <5>2, <5>3 DEF Attached, ContainsFileId
      <4>2. QED BY <4>1 DEF Fits
    <3>5. ASSUME NEW i \in Ids, i # id PROVE Fits(e, i)
      BY <2>5, <3>3, <3>5, FitsSame, PathOfBuffer
    <3>6. QED BY <2>1, <2>8, <3>3, <3>4, <3>5 DEF Owned
  <2>9. QED BY <2>7, <2>8
<1>3. QED BY <1>1, <1>2

\* didClose
LEMMA RemovePathKeeps ==
  ASSUME NEW d, Owned(d), NEW p \in Paths
  PROVE  Owned(RemovePath(d, p))
<1>1. CASE ~ContainsPath(d, p)
  BY <1>1 DEF RemovePath
<1>2. CASE ContainsPath(d, p)
  <2>1. RemovePath(d, p) = Reconcile([d EXCEPT !.open[p] = Closed], d.open[p].id)
    BY <1>2 DEF RemovePath
  <2> DEFINE e == RemovePath(d, p)
  <2> HIDE DEF e
  <2>2. e = Reconcile([d EXCEPT !.open[p] = Closed], d.open[p].id)
    BY <2>1 DEF e
  <2>3. e \in DocsType /\ \A i \in Ids : Fits(e, i)
    BY <1>2, <2>2, EntryChanged
  <2>4. QED BY <2>3 DEF Owned, e
<1>3. QED BY <1>1, <1>2

\* A merge: the paths of one id go over to the other, with the buffer if that has none.
LEMMA RemapKeeps ==
  ASSUME NEW d, Owned(d), NEW from \in Ids, NEW to \in Ids
  PROVE  Owned(RemapFileId(d, from, to))
<1>1. CASE from = to
  BY <1>1 DEF RemapFileId
<1>2. CASE from # to
  <2> DEFINE entry(p) == IF d.open[p] # Closed /\ d.open[p].id = from
                         THEN Alias(to, d.open[p].attached /\ Agree(d, from, to))
                         ELSE d.open[p]
             c == [ buffers |-> [d.buffers EXCEPT
                                   ![from] = NoBuffer,
                                   ![to]   = IF @ = NoBuffer THEN d.buffers[from] ELSE @],
                    open    |-> [p \in Paths |-> entry(p)] ]
             r == Reconcile(c, to)
  <2>1. RemapFileId(d, from, to) = r
    BY <1>2 DEF RemapFileId
  <2>2. d \in DocsType /\ \A i \in Ids : Fits(d, i)
    BY DEF Owned
  <2>3. \A p \in Paths : entry(p) \in Aliases \cup {Closed}
    BY <2>2, DocsFields, Kinds
  <2>4. /\ c.buffers \in [Ids -> Buffers \cup {NoBuffer}]
        /\ c.buffers[from] = NoBuffer
        /\ c.buffers[to] = IF d.buffers[to] = NoBuffer THEN d.buffers[from] ELSE d.buffers[to]
        /\ \A i \in Ids : i \notin {from, to} => c.buffers[i] = d.buffers[i]
    BY <1>2, <2>2, DocsFields
  <2>5. \A p \in Paths : c.open[p] = entry(p)
    OBVIOUS
  <2>6. c \in DocsType
    BY <2>3, <2>4 DEF DocsType
  <2>7. \A p \in Paths : ~Attached(c, p, from)
    BY <1>2, <2>5 DEF Attached, Alias, Closed
  <2>8. \A p \in Paths, i \in Ids : i \notin {from, to} => (Attached(c, p, i) <=> Attached(d, p, i))
    BY <2>5 DEF Attached, Alias, Closed
  <2>9. \A p \in Paths : Attached(c, p, to) => Attached(d, p, to) \/ Attached(d, p, from)
    <3> SUFFICES ASSUME NEW p \in Paths, Attached(c, p, to), ~Attached(d, p, to)
                 PROVE  Attached(d, p, from)
      OBVIOUS
    <3>1. d.open[p] # Closed /\ d.open[p].id = from
      BY <2>5 DEF Attached
    <3>2. d.open[p].attached /\ Agree(d, from, to)
      BY <2>5, <3>1 DEF Attached, Alias
    <3>3. d.open[p] \in Aliases
      BY <2>2, <3>1, DocsFields
    <3>4. QED BY <3>1, <3>2, <3>3 DEF Attached, Alias, Aliases
  <2> HIDE DEF c
  <2>10. /\ r \in DocsType /\ r.open = c.open
         /\ \A i \in Ids : i # to => r.buffers[i] = c.buffers[i]
    BY <2>6, ReconcileType
  <2>11. Fits(r, to)
    <3>1. Sharing(c, to) # {} => ContainsFileId(c, to)
      <4> SUFFICES ASSUME NEW p \in Paths, Attached(c, p, to) PROVE ContainsFileId(c, to)
        BY DEF Sharing
      <4>1. ContainsFileId(d, to) \/ ContainsFileId(d, from)
        BY <2>2, <2>9 DEF Fits, Sharing
      <4>2. QED BY <2>4, <4>1 DEF ContainsFileId
    <3>2. QED BY <2>6, <3>1, ReconcileMends
  <2>12. Fits(r, from)
    <3>1. ~ContainsFileId(r, from)
      BY <1>2, <2>4, <2>10 DEF ContainsFileId
    <3>2. Sharing(r, from) = {}
      BY <2>7, <2>10 DEF Sharing, Attached
    <3>3. QED BY <3>1, <3>2 DEF Fits
  <2>13. ASSUME NEW i \in Ids, i \notin {from, to} PROVE Fits(r, i)
    <3>1. r.buffers[i] = d.buffers[i]
      BY <2>4, <2>10, <2>13
    <3>2. \A p \in Paths : Attached(r, p, i) <=> Attached(d, p, i)
      BY <2>8, <2>10, <2>13 DEF Attached
    <3>3. Sharing(r, i) = Sharing(d, i)
      BY <3>2 DEF Sharing
    <3> HIDE DEF r
    <3>4. QED BY <2>2, <3>1, <3>2, <3>3, PathOfBuffer DEF Fits, ContainsFileId
  <2>14. QED BY <2>1, <2>10, <2>11, <2>12, <2>13 DEF Owned
<1>3. QED BY <1>1, <1>2

\* didChange: a buffer keeps its path.
LEMMA ApplyChangeKeeps ==
  ASSUME NEW d, Owned(d), NEW id \in Ids, ContainsFileId(d, id), NEW data \in Texts
  PROVE  Owned(ApplyChange(d, id, data))
<1> DEFINE e == ApplyChange(d, id, data)
<1>1. d \in DocsType /\ \A i \in Ids : Fits(d, i)
  BY DEF Owned
<1>2. d.buffers[id] \in Buffers
  BY <1>1, DocsFields DEF ContainsFileId
<1>3. [d.buffers[id] EXCEPT !.data = data] \in Buffers
  BY <1>2 DEF Buffers
<1>4. /\ e \in DocsType /\ e.open = d.open
      /\ e.buffers[id] = [d.buffers[id] EXCEPT !.data = data]
      /\ \A i \in Ids : i # id => e.buffers[i] = d.buffers[i]
  BY <1>1, <1>3, DocsFields DEF ApplyChange, DocsType
<1> HIDE DEF e
<1>5. e.buffers[id].path = d.buffers[id].path /\ ContainsFileId(e, id)
  BY <1>2, <1>3, <1>4, Kinds DEF Buffers, ContainsFileId
<1>6. \A p \in Paths, i \in Ids : Attached(e, p, i) <=> Attached(d, p, i)
  BY <1>4 DEF Attached
<1>7. Fits(e, id)
  <2>1. Attached(d, d.buffers[id].path, id)
    BY <1>1 DEF Fits
  <2>2. QED BY <1>4, <1>5, <2>1 DEF Fits, Attached
<1>8. \A i \in Ids : i # id => Fits(e, i)
  BY <1>1, <1>4, FitsSame, PathOfBuffer
<1>9. QED BY <1>4, <1>7, <1>8 DEF Owned, e

-----------------------------------------------------------------------------
(* The VFS *)

Named(v) == {p \in Paths : v.exact[p] # NoId}

\* There are no more ids than paths that lead to one, and a merge redirects to a
\* smaller id.
VfsInv(v) ==
  /\ v \in VfsType
  /\ \A id \in Ids : v.redirects[id] <= id
  /\ v.count <= Cardinality(Named(v))

\* The ids are numbers, and 0 is none of them.
LEMMA IdsAreNumbers ==
  /\ Cardinality(Paths) \in Nat
  /\ Ids \subseteq Nat
  /\ NoId \notin Ids
  /\ \A i : i \in Ids <=> i \in Nat /\ 1 <= i /\ i <= Cardinality(Paths)
<1>1. Cardinality(Paths) \in Nat
  BY FS_CardinalityType, DocumentsAssumption
<1>2. QED BY <1>1, DocumentsAssumption DEF NoId

\* The fields of a VFS.
LEMMA VfsFields ==
  ASSUME NEW v \in VfsType
  PROVE  /\ v.exact \in [Paths -> Ids \cup {NoId}]
         /\ v.real \in [Nodes -> Ids \cup {NoId}]
         /\ v.redirects \in [Ids -> Ids]
         /\ v.count \in 0 .. Cardinality(Paths)
         /\ v.text \in [Ids -> Texts \cup {Missing}]
         /\ v.changed \in Seq(Ids)
BY DEF VfsType

\* A path more leads to an id.
LEMMA NamedGrows ==
  ASSUME NEW v \in VfsType, NEW w \in VfsType, NEW p \in Paths,
         v.exact[p] = NoId, w.exact[p] # NoId,
         \A q \in Paths : v.exact[q] # NoId => w.exact[q] # NoId
  PROVE  Cardinality(Named(w)) >= Cardinality(Named(v)) + 1
<1>1. IsFiniteSet(Named(v)) /\ IsFiniteSet(Named(w)) /\ IsFiniteSet(Named(v) \cup {p})
  BY FS_Subset, DocumentsAssumption DEF Named
<1>2. p \notin Named(v)
  BY DEF Named
<1>3. Cardinality(Named(v) \cup {p}) = Cardinality(Named(v)) + 1
  BY <1>1, <1>2, FS_AddElement
<1>4. Named(v) \cup {p} \subseteq Named(w)
  BY DEF Named
<1>5. Cardinality(Named(v) \cup {p}) <= Cardinality(Named(w))
  BY <1>1, <1>4, FS_Subset
<1>6. Cardinality(Named(v)) \in Nat /\ Cardinality(Named(w)) \in Nat
  BY <1>1, FS_CardinalityType
<1>7. QED BY <1>3, <1>5, <1>6

\* No path loses its id.
LEMMA NamedStays ==
  ASSUME NEW v \in VfsType, NEW w \in VfsType,
         \A q \in Paths : v.exact[q] # NoId => w.exact[q] # NoId
  PROVE  Cardinality(Named(v)) <= Cardinality(Named(w))
<1>1. IsFiniteSet(Named(w))
  BY FS_Subset, DocumentsAssumption DEF Named
<1>2. Named(v) \subseteq Named(w)
  BY DEF Named
<1>3. QED BY <1>1, <1>2, FS_Subset

IdentityOK == identity \in [Paths -> Nodes \cup {Unknown}]

\* What a path leads to is an id or none.
LEMMA LookupType ==
  ASSUME IdentityOK, NEW v \in VfsType, NEW p \in Paths
  PROVE  /\ ByIdentity(v, p) \in Ids \cup {NoId}
         /\ Lookup(v, p) \in Ids \cup {NoId}
         /\ Lookup(v, p) = NoId => v.exact[p] = NoId
BY VfsFields DEF IdentityOK, ByIdentity, Lookup

\* Noting a change keeps the log a sequence of ids.
LEMMA NoteType ==
  ASSUME NEW log \in Seq(Ids), NEW id \in Ids
  PROVE  Note(log, id) \in Seq(Ids)
BY DEF Note

\* A path is entered under an id it had already, or under a new one.
LEMMA EnterKeeps ==
  ASSUME NEW v, VfsInv(v), NEW p \in Paths, NEW id \in Ids
  PROVE  /\ VfsInv(Enter(v, p, id))
         /\ Enter(v, p, id).exact[p] = id
<1> DEFINE w == Enter(v, p, id)
<1>1. v \in VfsType
  BY DEF VfsInv
<1>2. /\ w \in VfsType /\ w.exact = [v.exact EXCEPT ![p] = id]
      /\ w.redirects = v.redirects /\ w.count = v.count
  BY <1>1, VfsFields DEF Enter, VfsType
<1> HIDE DEF w
<1>3. \A q \in Paths : v.exact[q] # NoId => w.exact[q] # NoId
  BY <1>1, <1>2, VfsFields, IdsAreNumbers
<1>4. Cardinality(Named(v)) <= Cardinality(Named(w))
  BY <1>1, <1>2, <1>3, NamedStays
<1>5. /\ Cardinality(Named(v)) \in Nat /\ Cardinality(Named(w)) \in Nat
      /\ v.count \in Nat
  BY <1>1, VfsFields, IdsAreNumbers, FS_Subset, FS_CardinalityType, DocumentsAssumption DEF Named
<1>6. w.exact[p] = id
  BY <1>1, <1>2, VfsFields
<1>7. VfsInv(w)
  BY <1>2, <1>4, <1>5 DEF VfsInv
<1>8. QED BY <1>6, <1>7 DEF w

\* A new id: there is one left, since the path had none.
LEMMA AllocKeeps ==
  ASSUME NEW v, VfsInv(v), NEW p \in Paths, v.exact[p] = NoId
  PROVE  LET w == Enter([v EXCEPT !.count = @ + 1], p, v.count + 1)
         IN  VfsInv(w) /\ w.exact[p] = v.count + 1 /\ v.count + 1 \in Ids
<1> DEFINE id == v.count + 1
           w  == Enter([v EXCEPT !.count = @ + 1], p, id)
<1>1. v \in VfsType
  BY DEF VfsInv
<1>2. IsFiniteSet(Named(v))
  BY FS_Subset, DocumentsAssumption DEF Named
<1>3. Cardinality(Named(v)) \in Nat /\ v.count \in Nat /\ v.count <= Cardinality(Named(v))
  BY <1>1, <1>2, FS_CardinalityType, VfsFields, IdsAreNumbers DEF VfsInv
<1>4. Cardinality(Named(v)) + 1 <= Cardinality(Paths)
  <2>1. Named(v) \cup {p} \subseteq Paths /\ p \notin Named(v)
    BY DEF Named
  <2>2. Cardinality(Named(v) \cup {p}) <= Cardinality(Paths)
    BY <2>1, FS_Subset, DocumentsAssumption
  <2>3. QED BY <1>2, <2>1, <2>2, FS_AddElement
<1>5. id \in Ids /\ id \in 0 .. Cardinality(Paths)
  BY <1>3, <1>4, IdsAreNumbers
<1> HIDE DEF id
<1>6. /\ w \in VfsType /\ w.exact = [v.exact EXCEPT ![p] = id]
      /\ w.redirects = v.redirects /\ w.count = id
  BY <1>1, <1>5, VfsFields DEF Enter, VfsType, id
<1> HIDE DEF w
<1>7. id # NoId
  BY <1>5, IdsAreNumbers
<1>8. w.exact[p] = id /\ \A q \in Paths : q # p => w.exact[q] = v.exact[q]
  BY <1>1, <1>6, VfsFields
<1>9. Cardinality(Named(w)) >= Cardinality(Named(v)) + 1
  BY <1>1, <1>6, <1>7, <1>8, NamedGrows
<1>10. Cardinality(Named(w)) \in Nat
  BY FS_Subset, FS_CardinalityType, DocumentsAssumption DEF Named
<1>11. w.count <= Cardinality(Named(w))
  BY <1>3, <1>6, <1>9, <1>10 DEF id
<1>12. VfsInv(w)
  BY <1>6, <1>11 DEF VfsInv
<1>13. QED BY <1>5, <1>8, <1>12 DEF w, id

\* A merge takes names from one id to a smaller one.
LEMMA MergeKeeps ==
  ASSUME NEW v, VfsInv(v), NEW owner \in Ids, NEW duplicate \in Ids, owner < duplicate
  PROVE  LET w == MergeIds(v, owner, duplicate)
         IN  /\ VfsInv(w)
             /\ \A q \in Paths : v.exact[q] # NoId => w.exact[q] # NoId
<1> DEFINE renamed(id) == IF id = duplicate THEN owner ELSE id
           r == [v EXCEPT !.redirects[duplicate] = owner,
                          !.exact = [p \in Paths |-> renamed(v.exact[p])],
                          !.real  = [n \in Nodes |-> renamed(v.real[n])]]
           w == MergeIds(v, owner, duplicate)
<1>1. v \in VfsType
  BY DEF VfsInv
<1>2. /\ r \in VfsType /\ r.exact = [p \in Paths |-> renamed(v.exact[p])]
      /\ r.redirects = [v.redirects EXCEPT ![duplicate] = owner] /\ r.count = v.count
  BY <1>1, VfsFields DEF VfsType
<1>3. w = MergeText(r, owner, duplicate)
  BY DEF MergeIds
<1> HIDE DEF r, w
<1>4. /\ w \in VfsType /\ w.exact = r.exact /\ w.redirects = r.redirects /\ w.count = r.count
  <2> DEFINE adopted == IF r.text[duplicate] # Missing /\ r.text[owner] = Missing
                        THEN Note(r.changed, owner) ELSE r.changed
             log     == IF r.text[duplicate] # Missing THEN Note(adopted, duplicate) ELSE r.changed
  <2>1. log \in Seq(Ids)
    BY <1>2, VfsFields, NoteType
  <2>2. /\ r.text[owner] \in Texts \cup {Missing}
        /\ r.text[duplicate] \in Texts \cup {Missing}
    BY <1>2, VfsFields
  <2> DEFINE content == [r.text EXCEPT
                        ![owner]     = IF @ = Missing THEN r.text[duplicate] ELSE @,
                        ![duplicate] = Missing]
  <2>3. content \in [Ids -> Texts \cup {Missing}]
    BY <1>2, <2>2, VfsFields
  <2>4. MergeText(r, owner, duplicate) = [r EXCEPT !.text = content, !.changed = log]
    BY <1>2 DEF MergeText, VfsType
  <2> HIDE DEF log, content
  <2>5. w = [r EXCEPT !.text = content, !.changed = log]
    BY <1>3, <2>4
  <2>6. QED BY <1>2, <2>1, <2>3, <2>5 DEF VfsType
<1>5. \A q \in Paths : v.exact[q] # NoId => w.exact[q] # NoId
  BY <1>2, <1>4, IdsAreNumbers
<1>6. ASSUME NEW id \in Ids PROVE w.redirects[id] <= id
  <2>1. CASE id = duplicate
    BY <1>1, <1>2, <1>4, <2>1, VfsFields, IdsAreNumbers
  <2>2. CASE id # duplicate
    BY <1>1, <1>2, <1>4, <2>2, VfsFields DEF VfsInv
  <2>3. QED BY <2>1, <2>2
<1>7. Cardinality(Named(v)) <= Cardinality(Named(w))
  BY <1>1, <1>4, <1>5, NamedStays
<1>8. w.count <= Cardinality(Named(w))
  <2>1. /\ Cardinality(Named(v)) \in Nat /\ Cardinality(Named(w)) \in Nat
    BY FS_Subset, FS_CardinalityType, DocumentsAssumption DEF Named
  <2>2. w.count = v.count /\ v.count \in Nat /\ v.count <= Cardinality(Named(v))
    BY <1>1, <1>2, <1>4, VfsFields, IdsAreNumbers DEF VfsInv
  <2>3. QED BY <1>7, <2>1, <2>2
<1>9. QED BY <1>4, <1>5, <1>6, <1>8 DEF VfsInv, w

\* file_id_or_alloc: the path has an id afterwards, and all ids are accounted for.
LEMMA RegisterKeeps ==
  ASSUME IdentityOK, NEW v, VfsInv(v), NEW p \in Paths
  PROVE  VfsInv(Register(v, p)) /\ Register(v, p).exact[p] \in Ids
<1> DEFINE id    == Lookup(v, p)
           other == ByIdentity(v, p)
<1>1. id \in Ids \cup {NoId} /\ other \in Ids \cup {NoId} /\ (id = NoId => v.exact[p] = NoId)
  BY LookupType DEF VfsInv
<1>2. Register(v, p) =
        IF id = NoId THEN Enter([v EXCEPT !.count = @ + 1], p, v.count + 1)
        ELSE IF other \in {NoId, id} THEN Enter(v, p, id)
        ELSE IF id < other THEN Enter(MergeIds(v, id, other), p, id)
        ELSE Enter(MergeIds(v, other, id), p, other)
  BY DEF Register
<1> HIDE DEF id, other
<1>3. CASE id = NoId
  BY <1>1, <1>2, <1>3, AllocKeeps
<1>4. CASE id # NoId /\ other \in {NoId, id}
  BY <1>1, <1>2, <1>4, EnterKeeps
<1>5. CASE id # NoId /\ other \notin {NoId, id} /\ id < other
  <2>1. VfsInv(MergeIds(v, id, other))
    BY <1>1, <1>5, MergeKeeps
  <2>2. QED BY <1>1, <1>2, <1>5, <2>1, EnterKeeps
<1>6. CASE id # NoId /\ other \notin {NoId, id} /\ ~(id < other)
  <2>1. other < id
    BY <1>1, <1>6, IdsAreNumbers
  <2>2. VfsInv(MergeIds(v, other, id))
    BY <1>1, <1>6, <2>1, MergeKeeps
  <2>3. QED BY <1>1, <1>2, <1>6, <2>2, EnterKeeps
<1>7. QED BY <1>3, <1>4, <1>5, <1>6

\* A text is written under the path's id.
LEMMA SetFileContentsKeeps ==
  ASSUME IdentityOK, NEW v, VfsInv(v), NEW p \in Paths, NEW content \in Texts \cup {Missing}
  PROVE  VfsInv(SetFileContents(v, p, content))
<1> DEFINE known == Register(v, p)
           id    == known.exact[p]
           log   == Note(known.changed, id)
           w     == [known EXCEPT !.text[id] = content, !.changed = log]
<1>1. VfsInv(known) /\ id \in Ids
  BY RegisterKeeps
<1>2. SetFileContents(v, p, content) = IF known.text[id] = content THEN known ELSE w
  BY DEF SetFileContents
<1> HIDE DEF known, id
<1>3. known \in VfsType
  BY <1>1 DEF VfsInv
<1>4. log \in Seq(Ids)
  BY <1>1, <1>3, VfsFields, NoteType
<1> HIDE DEF log
<1>5. /\ w \in VfsType /\ w.exact = known.exact
      /\ w.redirects = known.redirects /\ w.count = known.count
  BY <1>1, <1>3, <1>4, VfsFields DEF VfsType
<1> HIDE DEF w
<1>6. VfsInv(w)
  BY <1>1, <1>5 DEF VfsInv, Named
<1>7. QED BY <1>1, <1>2, <1>6

\* A set of numbers has a least one.
LEMMA Least ==
  ASSUME NEW T \in SUBSET Nat, T # {}
  PROVE  \E x \in T : \A y \in T : x <= y
<1>1. PICK x \in T : \A y \in T : ~ (<<y, x>> \in OpToRel(<, Nat))
  <2>1. T \subseteq Nat
    OBVIOUS
  <2>2. QED BY <2>1, WFMin, NatLessThanWellFounded, Zenon
<1>2. ASSUME NEW y \in T PROVE x <= y
  <2>1. <<y, x>> \in OpToRel(<, Nat) <=> y < x
    BY DEF OpToRel
  <2>2. ~(y < x)
    BY <1>1, <2>1, Zenon
  <2>3. x \in Nat /\ y \in Nat
    OBVIOUS
  <2>4. QED BY ONLY <2>2, <2>3
<1>3. QED BY ONLY <1>2

\* Following the redirects ends, since they lead to smaller ids.
LEMMA CanonicalType ==
  ASSUME NEW v, VfsInv(v), NEW id \in Ids
  PROVE  Canonical(v, id) \in Ids
<1> DEFINE R == Redirected(v, id)
<1>1. v.redirects \in [Ids -> Ids] /\ \A i \in Ids : v.redirects[i] <= i
  BY VfsFields DEF VfsInv
<1>2. R \subseteq Ids /\ id \in R /\ \A i \in R : v.redirects[i] \in R
  BY <1>1 DEF Redirected
<1>3. R \in SUBSET Nat /\ R # {}
  BY <1>2, IdsAreNumbers
<1> HIDE DEF R
<1>4. PICK i \in R : \A j \in R : i <= j
  BY <1>3, Least
<1>5. v.redirects[i] = i
  BY <1>1, <1>2, <1>3, <1>4, IdsAreNumbers
<1>6. (CHOOSE j \in R : v.redirects[j] = j) \in R
  BY <1>4, <1>5
<1>7. Canonical(v, id) \in R
  BY <1>6 DEF Canonical, R
<1>8. QED BY <1>2, <1>7

-----------------------------------------------------------------------------
(* The main loop *)

DocsInv ==
  /\ DocsTypeOK
  /\ VfsInv(vfs)
  /\ Owned(docs)

\* At the start no path has an id and nothing is open.
LEMMA InitDocs == DocsInit => DocsInv
<1> SUFFICES ASSUME DocsInit PROVE DocsInv
  OBVIOUS
<1>1. vfs \in VfsType
  BY IdsAreNumbers DEF DocsInit, VfsType, NoId
<1>2. Cardinality(Named(vfs)) \in Nat
  BY FS_Subset, FS_CardinalityType, DocumentsAssumption DEF Named
<1>3. VfsInv(vfs)
  BY <1>1, <1>2, IdsAreNumbers DEF DocsInit, VfsInv
<1>4. docs \in DocsType
  BY DEF DocsInit, DocsType, NoDocs
<1>5. Owned(docs)
  BY <1>4 DEF DocsInit, NoDocs, Owned, Fits, ContainsFileId, Sharing, Attached, Alias, Closed
<1>6. QED BY <1>1, <1>3, <1>4, <1>5 DEF DocsInv, DocsTypeOK, DocsInit

\* Every step keeps the invariant.
LEMMA StepDocs == DocsInv /\ [DocsNext]_docVars => DocsInv'
<1> SUFFICES ASSUME DocsInv, [DocsNext]_docVars PROVE DocsInv'
  OBVIOUS
<1>1. IdentityOK /\ VfsInv(vfs) /\ Owned(docs) /\ docs \in DocsType /\ vfs \in VfsType
  BY DEF DocsInv, DocsTypeOK, IdentityOK
<1>2. SUFFICES /\ identity' \in [Paths -> Nodes \cup {Unknown}]
               /\ VfsInv(vfs') /\ Owned(docs')
               /\ turn' \in {"none", "client", "loader", "end"}
               /\ moved' \in Seq(Ids)
  <2>1. vfs' \in VfsType /\ docs' \in DocsType /\ VfsInv(vfs)' /\ Owned(docs)'
    BY <1>2 DEF VfsInv, Owned, Named, Fits, ContainsFileId, Attached, Sharing
  <2>2. QED BY <1>2, <2>1 DEF DocsInv, DocsTypeOK
<1>3. ASSUME NEW p \in Paths, NEW content \in Texts, DidOpen(p, content)
      PROVE  VfsInv(vfs') /\ Owned(docs')
  <2> DEFINE known == Register(vfs, p)
             id    == known.exact[p]
  <2>1. VfsInv(known) /\ id \in Ids
    BY <1>1, RegisterKeeps
  <2>2. /\ vfs' = IF ContainsFileId(docs, id) THEN known ELSE SetFileContents(known, p, content)
        /\ docs' = Insert(docs, id, p, content)
    BY <1>3 DEF DidOpen
  <2> HIDE DEF known, id
  <2>3. VfsInv(SetFileContents(known, p, content))
    BY <1>1, <2>1, SetFileContentsKeeps
  <2>4. Owned(Insert(docs, id, p, content))
    BY <1>1, <2>1, InsertKeeps
  <2>5. QED BY <2>1, <2>2, <2>3, <2>4
<1>4. ASSUME NEW p \in Paths, NEW content \in Texts, DidChange(p, content)
      PROVE  VfsInv(vfs') /\ Owned(docs')
  <2>1. docs.open[p].id \in Ids
    BY <1>1, <1>4, DocsFields, Kinds DEF DidChange, ContainsPath
  <2>2. /\ ContainsFileId(docs, docs.open[p].id)
        /\ docs' = ApplyChange(docs, docs.open[p].id, content)
        /\ vfs' = SetFileContents(vfs, p, content)
    BY <1>4 DEF DidChange, AcceptsChange
  <2>3. Owned(ApplyChange(docs, docs.open[p].id, content))
    BY <1>1, <2>1, <2>2, ApplyChangeKeeps
  <2>4. VfsInv(SetFileContents(vfs, p, content))
    BY <1>1, SetFileContentsKeeps
  <2>5. QED BY <2>2, <2>3, <2>4
<1>5. ASSUME NEW p \in Paths, DidClose(p)
      PROVE  VfsInv(vfs') /\ Owned(docs')
  <2>1. vfs' = vfs /\ docs' = RemovePath(docs, p)
    BY <1>5 DEF DidClose
  <2>2. QED BY <1>1, <2>1, RemovePathKeeps
<1>6. ASSUME NEW p \in Paths, NEW content \in Texts \cup {Missing}, TakeLoaded(p, content)
      PROVE  VfsInv(vfs') /\ Owned(docs')
  <2>1. vfs' = SetFileContents(vfs, p, content) /\ docs' = docs
    BY <1>6 DEF TakeLoaded
  <2>2. QED BY <1>1, <2>1, SetFileContentsKeeps
<1>7. CASE TakeChanges
  <2> DEFINE w == [vfs EXCEPT !.changed = <<>>]
  <2>1. vfs' = w /\ docs' = docs /\ moved' = vfs.changed
    BY <1>7 DEF TakeChanges
  <2>2. w \in VfsType /\ w.exact = vfs.exact /\ w.redirects = vfs.redirects /\ w.count = vfs.count
    <3>1. <<>> \in Seq(Ids)
      OBVIOUS
    <3> DEFINE log == <<>>
    <3>2. w = [vfs EXCEPT !.changed = log] /\ log \in Seq(Ids)
      BY <3>1
    <3> HIDE DEF log, w
    <3>3. QED BY <1>1, <3>2 DEF VfsType
  <2> HIDE DEF w
  <2>3. VfsInv(w)
    BY <1>1, <2>2 DEF VfsInv, Named
  <2>4. vfs.changed \in Seq(Ids)
    BY <1>1, VfsFields
  <2>5. QED BY <1>1, <1>7, <2>1, <2>3, <2>4 DEF TakeChanges, IdentityOK
<1>8. CASE Remap
  <2>1. moved \in Seq(Ids) /\ moved # <<>>
    BY <1>8 DEF DocsInv, DocsTypeOK, Remap
  <2>2. Head(moved) \in Ids /\ Tail(moved) \in Seq(Ids)
    BY <2>1
  <2>3. Canonical(vfs, Head(moved)) \in Ids
    BY <1>1, <2>2, CanonicalType
  <2>4. docs' = RemapFileId(docs, Head(moved), Canonical(vfs, Head(moved)))
    BY <1>8 DEF Remap
  <2>5. Owned(docs')
    BY <1>1, <2>2, <2>3, <2>4, RemapKeeps
  <2>6. identity' = identity /\ vfs' = vfs /\ turn' = turn /\ moved' = Tail(moved)
    BY <1>8 DEF Remap
  <2>7. QED BY <1>1, <2>2, <2>5, <2>6 DEF DocsInv, DocsTypeOK
<1>9. CASE EndTurn
  BY <1>1, <1>9 DEF EndTurn, DocsInv, DocsTypeOK
<1>10. ASSUME NEW p \in Paths, NEW n \in Nodes, CreateOnDisk(p, n)
       PROVE  identity' \in [Paths -> Nodes \cup {Unknown}]
  BY <1>1, <1>10 DEF CreateOnDisk, IdentityOK
<1>11. CASE UNCHANGED docVars
  BY <1>1, <1>11 DEF docVars, DocsInv, DocsTypeOK
<1>12. CASE \E p \in Paths, content \in Texts : DidOpen(p, content) \/ DidChange(p, content)
  BY <1>3, <1>4, <1>12 DEF DidOpen, DidChange, DocsInv, DocsTypeOK
<1>13. CASE \E p \in Paths : DidClose(p)
  BY <1>5, <1>13 DEF DidClose, DocsInv, DocsTypeOK
<1>14. CASE \E p \in Paths, content \in Texts \cup {Missing} : TakeLoaded(p, content)
  BY <1>6, <1>14 DEF TakeLoaded, DocsInv, DocsTypeOK
<1>15. CASE \E p \in Paths, n \in Nodes : CreateOnDisk(p, n)
  BY <1>1, <1>10, <1>15 DEF CreateOnDisk, DocsInv, DocsTypeOK
<1>16. QED
  BY <1>7, <1>8, <1>9, <1>11, <1>12, <1>13, <1>14, <1>15 DEF DocsNext

\* The invariant holds in every behaviour.
LEMMA InvariantOfDocs == DocsSpec => []DocsInv
BY InitDocs, StepDocs, PTL DEF DocsSpec

\* The values of the variables are those the code's types allow; in particular the VFS
\* never hands out more ids than there are paths.
THEOREM DocsTypeCorrect == DocsSpec => []DocsTypeOK
<1>1. DocsInv => DocsTypeOK
  BY DEF DocsInv
<1>2. QED BY <1>1, InvariantOfDocs, PTL

\* Buffers and open paths fit together (MemDocs::insert, remove_path, remap_file_id and
\* reconcile_buffer_path), for any paths, files and texts and any order of opening,
\* closing, loading and merging.
THEOREM BuffersAreOwned == DocsSpec => []BuffersOwned
<1>1. DocsInv => BuffersOwned
  BY DEF DocsInv, Owned, Fits, BuffersOwned
<1>2. QED BY <1>1, InvariantOfDocs, PTL

-----------------------------------------------------------------------------
(* The text that is analyzed *)

\* The ids of the paths tell them apart: no two have been merged, and the file a path
\* names has no id but the path's.
NamesApart(at, v) ==
  /\ \A p, q \in Paths : v.exact[p] = v.exact[q] => p = q \/ v.exact[p] = NoId
  /\ \A n \in Nodes : v.real[n] # NoId =>
       \E p \in Paths : at[p] = n /\ v.exact[p] = v.real[n]
  /\ \A id \in Ids : v.redirects[id] = id
  /\ \A p \in Paths : v.exact[p] <= v.count

\* What is open is open under the path's id, and the VFS has the text of the buffer.
BuffersFollow(v, d) ==
  /\ \A p \in Paths : ContainsPath(d, p) => d.open[p].id = v.exact[p]
  /\ \A id \in Ids : ContainsFileId(d, id) => v.text[id] = d.buffers[id].data

TextInv ==
  /\ DocsInv
  /\ Unlinked => NamesApart(identity, vfs) /\ BuffersFollow(vfs, docs)

\* While no two paths name one file, a path's id is its own or a new one.
LEMMA RegisterApart ==
  ASSUME IdentityOK, Unlinked, NEW v, VfsInv(v), NamesApart(identity, v), NEW p \in Paths
  PROVE  /\ NamesApart(identity, Register(v, p))
         /\ Register(v, p).text = v.text
         /\ \A q \in Paths : q # p => Register(v, p).exact[q] = v.exact[q]
         /\ v.exact[p] # NoId => Register(v, p).exact[p] = v.exact[p]
         /\ v.exact[p] = NoId => \A q \in Paths : v.exact[q] # Register(v, p).exact[p]
<1> DEFINE w  == Register(v, p)
           id == IF v.exact[p] = NoId THEN v.count + 1 ELSE v.exact[p]
<1>1. /\ v \in VfsType
      /\ v.exact \in [Paths -> Ids \cup {NoId}] /\ v.real \in [Nodes -> Ids \cup {NoId}]
      /\ v.count \in Nat
  BY VfsFields, IdsAreNumbers DEF VfsInv
<1>2. identity[p] # Unknown => identity[p] \in Nodes
  BY DEF IdentityOK
<1>3. ByIdentity(v, p) \in {NoId, v.exact[p]}
  <2> SUFFICES ASSUME identity[p] # Unknown, v.real[identity[p]] # NoId
               PROVE  v.real[identity[p]] = v.exact[p]
    BY DEF ByIdentity
  <2>1. PICK q \in Paths : identity[q] = identity[p] /\ v.exact[q] = v.real[identity[p]]
    BY <1>2 DEF NamesApart
  <2>2. q = p
    BY <2>1 DEF Unlinked
  <2>3. QED BY <2>1, <2>2
<1>4. Lookup(v, p) = v.exact[p]
  BY <1>3 DEF Lookup
<1>5. /\ w.exact = [v.exact EXCEPT ![p] = id]
      /\ w.real = [n \in Nodes |-> IF n = identity[p] THEN id ELSE v.real[n]]
      /\ w.text = v.text /\ w.redirects = v.redirects
      /\ w.count = IF v.exact[p] = NoId THEN v.count + 1 ELSE v.count
  <2>1. CASE v.exact[p] = NoId
    BY <1>1, <1>4, <2>1 DEF Register, Enter, VfsType
  <2>2. CASE v.exact[p] # NoId
    BY <1>1, <1>3, <1>4, <2>2 DEF Register, Enter, VfsType
  <2>3. QED BY <2>1, <2>2
<1> HIDE DEF w
<1>6. \A q \in Paths : v.exact[q] \in Nat /\ v.exact[q] <= v.count
  BY <1>1, IdsAreNumbers DEF NamesApart, NoId
<1>7. id \in Nat /\ id # NoId /\ id <= w.count /\ v.count <= w.count /\ w.count \in Nat
  BY <1>1, <1>5, <1>6, IdsAreNumbers DEF NoId
<1>8. \A q \in Paths : q # p => v.exact[q] # id
  <2>1. CASE v.exact[p] = NoId
    BY <1>1, <1>6, <2>1
  <2>2. CASE v.exact[p] # NoId
    BY <2>2 DEF NamesApart
  <2>3. QED BY <2>1, <2>2
<1>9. v.exact[p] = NoId => \A q \in Paths : v.exact[q] # id
  BY <1>7, <1>8
<1>e. (v.exact[p] # NoId => id = v.exact[p])
  OBVIOUS
<1> HIDE DEF id
<1>10. w.exact[p] = id /\ \A q \in Paths : q # p => w.exact[q] = v.exact[q]
  BY <1>1, <1>5
<1>11. \A q, r \in Paths : w.exact[q] = w.exact[r] => q = r \/ w.exact[q] = NoId
  BY <1>8, <1>10 DEF NamesApart
<1>12. ASSUME NEW n \in Nodes, w.real[n] # NoId
       PROVE  \E q \in Paths : identity[q] = n /\ w.exact[q] = w.real[n]
  <2>1. CASE n = identity[p]
    BY <1>5, <1>10, <2>1
  <2>2. CASE n # identity[p]
    <3>1. w.real[n] = v.real[n]
      BY <1>5, <2>2
    <3>2. PICK q \in Paths : identity[q] = n /\ v.exact[q] = v.real[n]
      BY <1>12, <3>1 DEF NamesApart
    <3>3. q # p
      BY <2>2, <3>2
    <3>4. QED BY <1>10, <3>1, <3>2, <3>3
  <2>3. QED BY <2>1, <2>2
<1>13. \A q \in Paths : w.exact[q] <= w.count
  <2> SUFFICES ASSUME NEW q \in Paths PROVE w.exact[q] <= w.count
    OBVIOUS
  <2>1. CASE q = p
    BY <1>7, <1>10, <2>1
  <2>2. CASE q # p
    <3>1. w.exact[q] = v.exact[q] /\ v.exact[q] \in Nat /\ v.exact[q] <= v.count
      BY <1>6, <1>10, <2>2
    <3>2. QED BY <1>1, <1>7, <3>1
  <2>3. QED BY <2>1, <2>2
<1>14. NamesApart(identity, w)
  BY <1>5, <1>11, <1>12, <1>13 DEF NamesApart
<1>15. QED
  BY <1>5, <1>9, <1>10, <1>14, <1>e DEF w

\* A text goes to the path's id and nowhere else.
LEMMA SetApart ==
  ASSUME IdentityOK, Unlinked, NEW v, VfsInv(v), NamesApart(identity, v), NEW p \in Paths,
         NEW content \in Texts \cup {Missing}
  PROVE  /\ NamesApart(identity, SetFileContents(v, p, content))
         /\ SetFileContents(v, p, content).exact = Register(v, p).exact
         /\ SetFileContents(v, p, content).text =
              [v.text EXCEPT ![Register(v, p).exact[p]] = content]
<1> DEFINE known == Register(v, p)
           id    == known.exact[p]
           log   == Note(known.changed, id)
           w     == [known EXCEPT !.text[id] = content, !.changed = log]
<1>1. VfsInv(known) /\ id \in Ids
  BY RegisterKeeps
<1>2. NamesApart(identity, known) /\ known.text = v.text
  BY RegisterApart
<1>3. SetFileContents(v, p, content) = IF known.text[id] = content THEN known ELSE w
  BY DEF SetFileContents
<1> HIDE DEF known, id
<1>4. known \in VfsType /\ known.text \in [Ids -> Texts \cup {Missing}]
  BY <1>1, VfsFields DEF VfsInv
<1> HIDE DEF log
<1>5. /\ w.exact = known.exact /\ w.real = known.real
      /\ w.redirects = known.redirects /\ w.count = known.count
      /\ w.text = [known.text EXCEPT ![id] = content]
  BY <1>4 DEF VfsType
<1> HIDE DEF w
<1>6. NamesApart(identity, w)
  BY <1>2, <1>5 DEF NamesApart
<1>7. known.text[id] = content => known.text = [known.text EXCEPT ![id] = content]
  BY <1>1, <1>4
<1>8. QED BY <1>2, <1>3, <1>5, <1>6, <1>7 DEF known, id

\* A buffer's id is that of a path that is open.
LEMMA OwnerNamed ==
  ASSUME NEW v, NEW d, Owned(d), BuffersFollow(v, d), NEW id \in Ids, ContainsFileId(d, id)
  PROVE  \E q \in Paths : ContainsPath(d, q) /\ v.exact[q] = id
<1>1. d \in DocsType /\ Fits(d, id)
  BY DEF Owned
<1>2. d.buffers[id].path \in Paths /\ Attached(d, d.buffers[id].path, id)
  BY <1>1, PathOfBuffer DEF Fits
<1>3. PICK q \in Paths : Attached(d, q, id)
  BY <1>2
<1>4. Alias(id, TRUE) # Closed /\ Alias(id, TRUE).id = id
  BY DEF Alias, Closed
<1>5. ContainsPath(d, q) /\ d.open[q].id = id
  BY <1>3, <1>4 DEF Attached, ContainsPath
<1>6. QED BY <1>5 DEF BuffersFollow

\* Reconcile keeps the text of what it leaves open.
LEMMA ReconcileData ==
  ASSUME NEW d \in DocsType, NEW id \in Ids, NEW i \in Ids, ContainsFileId(Reconcile(d, id), i)
  PROVE  ContainsFileId(d, i) /\ Reconcile(d, id).buffers[i].data = d.buffers[i].data
<1>1. CASE i # id
  BY <1>1, ReconcileType DEF ContainsFileId
<1>2. CASE i = id /\ (~ContainsFileId(d, id) \/ Attached(d, d.buffers[id].path, id))
  BY <1>2 DEF Reconcile
<1>3. CASE i = id /\ ~(~ContainsFileId(d, id) \/ Attached(d, d.buffers[id].path, id))
  <2> DEFINE owner == CHOOSE p \in Sharing(d, id) : TRUE
  <2>1. Reconcile(d, id).buffers[id] =
          IF Sharing(d, id) = {} THEN NoBuffer ELSE Buffer(owner, d.buffers[id].data)
    BY <1>3, DocsFields DEF Reconcile
  <2>2. Sharing(d, id) # {}
    BY <1>3, <2>1 DEF ContainsFileId
  <2> HIDE DEF owner
  <2>3. QED BY <1>3, <2>1, <2>2 DEF Buffer
<1>4. QED BY <1>1, <1>2, <1>3

\* The entry a path opened with a text gets.
LEMMA NewAliasType ==
  ASSUME NEW d, NEW id \in Ids, NEW data
  PROVE  NewAlias(d, id, data) \in Aliases
<1>1. (ContainsFileId(d, id) => d.buffers[id].data = data) \in BOOLEAN
  OBVIOUS
<1>2. QED BY <1>1, Kinds DEF NewAlias

\* didOpen: the text of a buffer that was there counts, and otherwise the new text.
LEMMA OpenFollows ==
  ASSUME IdentityOK, Unlinked, VfsInv(vfs), Owned(docs), NamesApart(identity, vfs),
         BuffersFollow(vfs, docs), NEW p \in Paths, NEW content \in Texts, DidOpen(p, content)
  PROVE  NamesApart(identity, vfs') /\ BuffersFollow(vfs', docs')
<1> DEFINE known == Register(vfs, p)
           id    == known.exact[p]
           set   == SetFileContents(known, p, content)
<1>1. VfsInv(known) /\ id \in Ids
  BY RegisterKeeps
<1>2. /\ NamesApart(identity, known) /\ known.text = vfs.text
      /\ \A q \in Paths : q # p => known.exact[q] = vfs.exact[q]
      /\ vfs.exact[p] # NoId => id = vfs.exact[p]
  BY RegisterApart
<1>3. Register(known, p).exact[p] = id
  BY <1>1, <1>2, RegisterApart, IdsAreNumbers
<1>4. \A q \in Paths : Register(known, p).exact[q] = known.exact[q]
  BY <1>1, <1>2, <1>3, RegisterApart
<1>5. /\ NamesApart(identity, set)
      /\ set.exact = Register(known, p).exact
      /\ set.text = [known.text EXCEPT ![id] = content]
  BY <1>1, <1>2, <1>3, SetApart
<1>6. /\ vfs' = IF ContainsFileId(docs, id) THEN known ELSE set
      /\ docs' = Insert(docs, id, p, content)
  BY DEF DidOpen
<1>7. docs \in DocsType /\ docs.open \in [Paths -> Aliases \cup {Closed}]
  BY DocsFields DEF Owned
<1>8. \A q \in Paths : ContainsPath(docs, q) => vfs.exact[q] \in Ids
  BY <1>7, Kinds DEF ContainsPath, BuffersFollow
<1> HIDE DEF known, id, set
<1>9. /\ NamesApart(identity, vfs')
      /\ \A q \in Paths : vfs'.exact[q] = known.exact[q]
      /\ \A i \in Ids : i # id => vfs'.text[i] = vfs.text[i]
      /\ vfs'.text[id] = IF ContainsFileId(docs, id) THEN vfs.text[id] ELSE content
  <2>1. known.text \in [Ids -> Texts \cup {Missing}]
    BY <1>1, VfsFields DEF VfsInv
  <2>2. QED BY <1>1, <1>2, <1>4, <1>5, <1>6, <2>1
<1>10. \A q \in Paths : ContainsPath(docs, q) => docs.open[q].id = vfs'.exact[q]
  <2> SUFFICES ASSUME NEW q \in Paths, ContainsPath(docs, q) PROVE docs.open[q].id = vfs'.exact[q]
    OBVIOUS
  <2>1. docs.open[q].id = vfs.exact[q] /\ vfs.exact[q] # NoId
    BY <1>8, IdsAreNumbers DEF BuffersFollow
  <2>2. known.exact[q] = vfs.exact[q]
    BY <1>2, <2>1 DEF id
  <2>3. QED BY <1>9, <2>1, <2>2
<1>11. \A i \in Ids : ContainsFileId(docs, i) => vfs'.text[i] = docs.buffers[i].data
  BY <1>9 DEF BuffersFollow
<1>12. CASE Reopened(docs, p, id)
  <2>1. docs' = docs
    BY <1>6, <1>12 DEF Insert
  <2>2. QED BY <1>9, <1>10, <1>11, <2>1 DEF BuffersFollow
<1>13. CASE ~Reopened(docs, p, id)
  <2>1. ~ContainsPath(docs, p)
    <3> SUFFICES ASSUME ContainsPath(docs, p) PROVE FALSE
      OBVIOUS
    <3>1. docs.open[p].id = id
      BY <1>9, <1>10 DEF id
    <3>2. QED BY <1>13, <3>1 DEF Reopened
  <2> DEFINE a      == NewAlias(docs, id, content)
             listed == [docs EXCEPT !.open[p] = a]
  <2>2. docs' = IF ContainsFileId(listed, id) THEN listed
                ELSE [listed EXCEPT !.buffers[id] = Buffer(p, content)]
    BY <1>6, <1>13, <2>1 DEF Insert, ContainsPath
  <2>3. a.id = id
    BY DEF NewAlias, Alias
  <2> HIDE DEF a
  <2>4. /\ listed.buffers = docs.buffers /\ listed.buffers \in [Ids -> Buffers \cup {NoBuffer}]
        /\ listed.open = [docs.open EXCEPT ![p] = a]
    BY <1>7, DocsFields
  <2> HIDE DEF listed
  <2>5. /\ docs'.open = [docs.open EXCEPT ![p] = a]
        /\ \A i \in Ids : i # id => docs'.buffers[i] = docs.buffers[i]
        /\ ContainsFileId(docs, id) => docs'.buffers[id] = docs.buffers[id]
        /\ ~ContainsFileId(docs, id) => docs'.buffers[id] = Buffer(p, content)
    <3>1. ContainsFileId(listed, id) <=> ContainsFileId(docs, id)
      BY <2>4 DEF ContainsFileId
    <3>2. CASE ContainsFileId(docs, id)
      BY <2>2, <2>4, <3>1, <3>2
    <3>3. CASE ~ContainsFileId(docs, id)
      <4>1. docs' = [listed EXCEPT !.buffers[id] = Buffer(p, content)]
        BY <2>2, <3>1, <3>3
      <4>2. docs'.open = listed.open
        BY <4>1
      <4>3. listed \in DocsType
        BY <1>1, <1>7, <2>3, <2>4, NewAliasType DEF DocsType, listed, a
      <4>4. docs'.buffers = [listed.buffers EXCEPT ![id] = Buffer(p, content)]
        BY <4>1, <4>3, DocsFields
      <4>5. QED BY <1>1, <2>4, <3>3, <4>2, <4>4
    <3>4. QED BY <3>2, <3>3
  <2>6. \A q \in Paths : ContainsPath(docs', q) => docs'.open[q].id = vfs'.exact[q]
    <3> SUFFICES ASSUME NEW q \in Paths, ContainsPath(docs', q)
                 PROVE  docs'.open[q].id = vfs'.exact[q]
      OBVIOUS
    <3>1. CASE q = p
      BY <1>7, <1>9, <2>3, <2>5, <3>1 DEF id
    <3>2. CASE q # p
      BY <1>7, <1>10, <2>5, <3>2 DEF ContainsPath
    <3>3. QED BY <3>1, <3>2
  <2>7. \A i \in Ids : ContainsFileId(docs', i) => vfs'.text[i] = docs'.buffers[i].data
    <3> SUFFICES ASSUME NEW i \in Ids, ContainsFileId(docs', i)
                 PROVE  vfs'.text[i] = docs'.buffers[i].data
      OBVIOUS
    <3>1. CASE i # id \/ ContainsFileId(docs, id)
      BY <1>11, <2>5, <3>1 DEF ContainsFileId
    <3>2. CASE i = id /\ ~ContainsFileId(docs, id)
      <4>1. docs'.buffers[i].data = content
        BY <2>5, <3>2 DEF Buffer
      <4>2. QED BY <1>9, <3>2, <4>1
    <3>3. QED BY <3>1, <3>2
  <2>8. QED BY <1>9, <2>6, <2>7 DEF BuffersFollow
<1>14. QED BY <1>12, <1>13

\* didChange: the buffer and the VFS get the same text.
LEMMA ChangeFollows ==
  ASSUME IdentityOK, Unlinked, VfsInv(vfs), Owned(docs), NamesApart(identity, vfs),
         BuffersFollow(vfs, docs), NEW p \in Paths, NEW content \in Texts, DidChange(p, content)
  PROVE  NamesApart(identity, vfs') /\ BuffersFollow(vfs', docs')
<1> DEFINE id == docs.open[p].id
<1>1. /\ ContainsPath(docs, p) /\ ContainsFileId(docs, id)
      /\ docs' = [docs EXCEPT !.buffers[id].data = content]
      /\ vfs' = SetFileContents(vfs, p, content)
  BY DEF DidChange, AcceptsChange, ApplyChange
<1>2. docs \in DocsType /\ docs.open \in [Paths -> Aliases \cup {Closed}]
  BY DocsFields DEF Owned
<1>3. \A q \in Paths : ContainsPath(docs, q) => vfs.exact[q] \in Ids /\ docs.open[q].id = vfs.exact[q]
  BY <1>2, Kinds DEF ContainsPath, BuffersFollow
<1>4. id \in Ids /\ vfs.exact[p] = id
  BY <1>1, <1>3
<1> HIDE DEF id
<1>5. Register(vfs, p).exact[p] = id
  BY <1>4, RegisterApart, IdsAreNumbers
<1>6. /\ NamesApart(identity, vfs') /\ vfs'.exact = Register(vfs, p).exact
      /\ vfs'.text = [vfs.text EXCEPT ![id] = content]
  BY <1>1, <1>5, SetApart
<1>7. \A q \in Paths : vfs'.exact[q] = vfs.exact[q]
  <2>1. \A q \in Paths : q # p => Register(vfs, p).exact[q] = vfs.exact[q]
    BY RegisterApart
  <2>2. QED BY <1>4, <1>5, <1>6, <2>1
<1>8. vfs.text \in [Ids -> Texts \cup {Missing}]
  BY VfsFields DEF VfsInv
<1>9. docs.buffers[id] \in Buffers /\ docs.buffers \in [Ids -> Buffers \cup {NoBuffer}]
  BY <1>1, <1>2, <1>4, DocsFields DEF ContainsFileId
<1>10. docs'.open = docs.open
  BY <1>1
<1>11. /\ docs'.buffers[id].data = content
       /\ \A i \in Ids : i # id => docs'.buffers[i] = docs.buffers[i]
  <2>1. docs'.buffers = [docs.buffers EXCEPT ![id].data = content]
    BY <1>1, <1>2, DocsFields
  <2>2. [docs.buffers[id] EXCEPT !.data = content].data = content
    BY <1>9 DEF Buffers
  <2>3. QED BY <1>4, <1>9, <2>1, <2>2
<1>12. ASSUME NEW i \in Ids, ContainsFileId(docs', i) PROVE vfs'.text[i] = docs'.buffers[i].data
  <2>1. CASE i = id
    BY <1>6, <1>8, <1>11, <2>1
  <2>2. CASE i # id
    BY <1>6, <1>8, <1>11, <1>12, <2>2 DEF ContainsFileId, BuffersFollow
  <2>3. QED BY <2>1, <2>2
<1>13. \A q \in Paths : ContainsPath(docs', q) => docs'.open[q].id = vfs'.exact[q]
  BY <1>3, <1>7, <1>10 DEF ContainsPath
<1>14. QED BY <1>6, <1>12, <1>13 DEF BuffersFollow

\* didClose
LEMMA CloseFollows ==
  ASSUME Owned(docs), BuffersFollow(vfs, docs), NEW p \in Paths, DidClose(p)
  PROVE  BuffersFollow(vfs, docs')
<1> DEFINE c  == [docs EXCEPT !.open[p] = Closed]
           id == docs.open[p].id
<1>1. ContainsPath(docs, p) /\ docs' = Reconcile(c, id)
  BY DEF DidClose, RemovePath
<1>2. docs \in DocsType /\ docs.open \in [Paths -> Aliases \cup {Closed}]
  BY DocsFields DEF Owned
<1>3. id \in Ids
  BY <1>1, <1>2, Kinds DEF ContainsPath
<1>4. c \in DocsType /\ c.buffers = docs.buffers /\ c.open = [docs.open EXCEPT ![p] = Closed]
  BY <1>2, DocsFields DEF DocsType
<1> HIDE DEF c, id
<1>5. docs'.open = [docs.open EXCEPT ![p] = Closed]
  BY <1>1, <1>3, <1>4, ReconcileType
<1>6. \A i \in Ids : ContainsFileId(docs', i) =>
        ContainsFileId(docs, i) /\ docs'.buffers[i].data = docs.buffers[i].data
  BY <1>1, <1>3, <1>4, ReconcileData DEF ContainsFileId
<1>7. QED BY <1>2, <1>5, <1>6 DEF BuffersFollow, ContainsPath

\* The loader leaves alone what is open.
LEMMA LoadFollows ==
  ASSUME IdentityOK, Unlinked, VfsInv(vfs), Owned(docs), NamesApart(identity, vfs),
         BuffersFollow(vfs, docs), NEW p \in Paths, NEW content \in Texts \cup {Missing},
         TakeLoaded(p, content)
  PROVE  NamesApart(identity, vfs') /\ BuffersFollow(vfs', docs')
<1> DEFINE id == Register(vfs, p).exact[p]
<1>1. docs' = docs /\ vfs' = SetFileContents(vfs, p, content) /\ ~ContainsPath(docs, p)
  BY DEF TakeLoaded
<1>2. docs \in DocsType /\ docs.open \in [Paths -> Aliases \cup {Closed}]
  BY DocsFields DEF Owned
<1>3. /\ id \in Ids
      /\ \A q \in Paths : q # p => vfs'.exact[q] = vfs.exact[q]
      /\ vfs'.text = [vfs.text EXCEPT ![id] = content]
      /\ NamesApart(identity, vfs')
  <2>1. id \in Ids
    BY RegisterKeeps
  <2>2. /\ NamesApart(identity, vfs') /\ vfs'.exact = Register(vfs, p).exact
        /\ vfs'.text = [vfs.text EXCEPT ![id] = content]
    BY <1>1, SetApart
  <2>3. \A q \in Paths : q # p => Register(vfs, p).exact[q] = vfs.exact[q]
    BY RegisterApart
  <2>4. QED BY <2>1, <2>2, <2>3
<1>4. /\ vfs.exact[p] # NoId => id = vfs.exact[p]
      /\ vfs.exact[p] = NoId => \A q \in Paths : vfs.exact[q] # id
  BY RegisterApart
<1> HIDE DEF id
<1>5. ~ContainsFileId(docs, id)
  <2> SUFFICES ASSUME ContainsFileId(docs, id) PROVE FALSE
    OBVIOUS
  <2>1. \E q \in Paths : vfs.exact[q] = id
    BY <1>3, OwnerNamed
  <2>2. vfs.exact[p] # NoId /\ id = vfs.exact[p]
    BY <1>4, <2>1
  <2>3. vfs.text[id] # Missing
    BY <1>2, <1>3, PathOfBuffer, DocumentsAssumption DEF BuffersFollow
  <2>4. FileId(vfs, p) = id /\ id # NoId
    BY <2>2, <2>3 DEF FileId, Lookup
  <2>5. QED BY <2>4 DEF TakeLoaded
<1>6. vfs.text \in [Ids -> Texts \cup {Missing}]
  BY VfsFields DEF VfsInv
<1>7. \A i \in Ids : ContainsFileId(docs, i) => vfs'.text[i] = docs.buffers[i].data
  BY <1>3, <1>5, <1>6 DEF BuffersFollow
<1>8. \A q \in Paths : ContainsPath(docs, q) => docs.open[q].id = vfs'.exact[q]
  BY <1>1, <1>3 DEF BuffersFollow
<1>9. QED BY <1>1, <1>3, <1>7, <1>8 DEF BuffersFollow

\* An id that nothing was merged with leads to itself.
LEMMA CanonicalSame ==
  ASSUME NEW v, \A i \in Ids : v.redirects[i] = i, NEW id \in Ids
  PROVE  Canonical(v, id) = id
<1>1. ASSUME NEW i \in Redirected(v, id) PROVE i = id
  <2>1. {id} \in SUBSET Ids /\ id \in {id} /\ \A j \in {id} : v.redirects[j] \in {id}
    OBVIOUS
  <2>2. i \in {id}
    BY <2>1 DEF Redirected
  <2>3. QED BY <2>2
<1>2. id \in Redirected(v, id)
  BY DEF Redirected
<1>3. QED BY <1>1, <1>2 DEF Canonical

\* A path that comes to name a file has not been told apart by any file before.
LEMMA CreateFollows ==
  ASSUME IdentityOK, NEW p \in Paths, NEW n \in Nodes, CreateOnDisk(p, n), Unlinked'
  PROVE  Unlinked /\ (NamesApart(identity, vfs) => NamesApart(identity', vfs))
<1>1. /\ identity[p] = Unknown
      /\ \A q \in Paths : q # p => identity'[q] = identity[q]
  BY DEF CreateOnDisk, IdentityOK
<1>2. Unlinked
  BY <1>1 DEF Unlinked
<1>3. ASSUME NamesApart(identity, vfs), NEW m \in Nodes, vfs.real[m] # NoId
      PROVE  \E q \in Paths : identity'[q] = m /\ vfs.exact[q] = vfs.real[m]
  <2>1. PICK q \in Paths : identity[q] = m /\ vfs.exact[q] = vfs.real[m]
    BY <1>3 DEF NamesApart
  <2>2. q # p
    BY <1>1, <2>1, DocumentsAssumption
  <2>3. QED BY <1>1, <2>1, <2>2
<1>4. NamesApart(identity, vfs) => NamesApart(identity', vfs)
  BY <1>3 DEF NamesApart
<1>5. QED BY <1>2, <1>4

\* At the start no path has an id.
LEMMA InitText == DocsInit => TextInv
<1> SUFFICES ASSUME DocsInit PROVE TextInv
  OBVIOUS
<1>1. NamesApart(identity, vfs)
  BY DEF DocsInit, NamesApart, NoId
<1>2. BuffersFollow(vfs, docs)
  BY DEF DocsInit, NoDocs, BuffersFollow, ContainsPath, ContainsFileId
<1>3. QED BY <1>1, <1>2, InitDocs DEF TextInv

\* Every step keeps the invariant.
LEMMA StepText == TextInv /\ [DocsNext]_docVars => TextInv'
<1> SUFFICES ASSUME TextInv, [DocsNext]_docVars, Unlinked'
             PROVE  NamesApart(identity', vfs') /\ BuffersFollow(vfs', docs')
  <2>1. ASSUME TextInv, [DocsNext]_docVars PROVE DocsInv'
    BY <2>1, StepDocs DEF TextInv
  <2>2. NamesApart(identity, vfs)' <=> NamesApart(identity', vfs')
    BY DEF NamesApart
  <2>3. BuffersFollow(vfs, docs)' <=> BuffersFollow(vfs', docs')
    BY DEF BuffersFollow, ContainsPath, ContainsFileId
  <2>4. QED BY <2>1, <2>2, <2>3 DEF TextInv
<1>1. IdentityOK /\ VfsInv(vfs) /\ Owned(docs) /\ DocsInv
  BY DEF TextInv, DocsInv, DocsTypeOK, IdentityOK
<1>2. CASE \E p \in Paths, n \in Nodes : CreateOnDisk(p, n)
  <2>1. Unlinked /\ (NamesApart(identity, vfs) => NamesApart(identity', vfs))
    BY <1>1, <1>2, CreateFollows
  <2>2. vfs' = vfs /\ docs' = docs
    BY <1>2 DEF CreateOnDisk
  <2>3. QED BY <2>1, <2>2 DEF TextInv
<1>3. CASE identity' = identity
  <2>1. Unlinked
    BY <1>3 DEF Unlinked
  <2>2. NamesApart(identity, vfs) /\ BuffersFollow(vfs, docs)
    BY <2>1 DEF TextInv
  <2> SUFFICES NamesApart(identity, vfs') /\ BuffersFollow(vfs', docs')
    BY <1>3
  <2>3. CASE \E p \in Paths, content \in Texts : DidOpen(p, content) \/ DidChange(p, content)
    BY <1>1, <2>1, <2>2, <2>3, OpenFollows, ChangeFollows
  <2>4. CASE \E p \in Paths : DidClose(p)
    <3>1. vfs' = vfs
      BY <2>4 DEF DidClose
    <3>2. QED BY <1>1, <2>2, <2>4, <3>1, CloseFollows
  <2>5. CASE \E p \in Paths, content \in Texts \cup {Missing} : TakeLoaded(p, content)
    BY <1>1, <2>1, <2>2, <2>5, LoadFollows
  <2>6. CASE TakeChanges
    <3>1. vfs \in VfsType /\ vfs' = [vfs EXCEPT !.changed = <<>>] /\ docs' = docs
      BY <1>1, <2>6 DEF TakeChanges, VfsInv
    <3>2. /\ vfs'.exact = vfs.exact /\ vfs'.real = vfs.real /\ vfs'.text = vfs.text
          /\ vfs'.redirects = vfs.redirects /\ vfs'.count = vfs.count
      BY <3>1 DEF VfsType
    <3>3. QED BY <2>2, <3>1, <3>2 DEF NamesApart, BuffersFollow
  <2>7. CASE Remap
    <3>1. moved \in Seq(Ids) /\ moved # <<>> /\ vfs' = vfs
          /\ docs' = RemapFileId(docs, Head(moved), Canonical(vfs, Head(moved)))
      BY <1>1, <2>7 DEF Remap, DocsInv, DocsTypeOK
    <3>2. Head(moved) \in Ids
      BY <3>1
    <3>3. Canonical(vfs, Head(moved)) = Head(moved)
      BY <2>2, <3>2, CanonicalSame DEF NamesApart
    <3>4. docs' = docs
      BY <3>1, <3>3 DEF RemapFileId
    <3>5. QED BY <2>2, <3>1, <3>4
  <2>8. CASE EndTurn \/ UNCHANGED docVars
    BY <2>2, <2>8 DEF EndTurn, docVars
  <2>9. CASE \E p \in Paths, n \in Nodes : CreateOnDisk(p, n)
    BY <1>2, <1>3, <2>9
  <2>10. QED
    BY <2>3, <2>4, <2>5, <2>6, <2>7, <2>8, <2>9 DEF DocsNext
<1>4. identity' = identity \/ \E p \in Paths, n \in Nodes : CreateOnDisk(p, n)
  BY DEF DocsNext, docVars, DidOpen, DidChange, DidClose, TakeLoaded, TakeChanges, Remap, EndTurn
<1>5. QED BY <1>2, <1>3, <1>4

\* The analysis has what the editor shows: while no two paths name one file, the text of
\* an open buffer is the file's text in the VFS, whatever the loader brings
\* (handle_did_change_text_document and the loader's guard), for any number of paths,
\* files and texts; the proof shows it at every step, not only between turns.
THEOREM BufferStaysAnalyzed == DocsSpec => []BufferIsAnalyzed
<1>1. TextInv => BufferIsAnalyzed
  BY DEF TextInv, BuffersFollow, BufferIsAnalyzed
<1>2. QED BY <1>1, InitText, StepText, PTL DEF DocsSpec

-----------------------------------------------------------------------------
(* Diagnostics *)

\* The freshness is not ahead of the server's.
Upto(fresh) ==
  /\ fresh.changes <= rev.changes
  /\ fresh.targets <= rev.targets
  /\ fresh.reloads <= rev.reloads

\* Nothing is ahead, so a freshness that moves on is one that nothing has.
Past ==
  /\ \A j \in jobs : Upto(j.fresh)
  /\ \A r \in results : r.kind = "batch" => Upto(r.fresh)

\* What a batch says is true of the server as it is.
Accurate(batch) ==
  /\ DOMAIN batch.tasks = batch.files \cap open
  /\ \A f \in DOMAIN batch.tasks :
       /\ batch.tasks[f].slang = Slang(f)
       /\ batch.tasks[f].qihe \subseteq {Commit(rev)}

\* Jobs and batches of the server's freshness are of its contents and documents.
Current ==
  /\ \A j \in jobs : j.fresh = rev => j.open = open
  /\ \A r \in results : r.kind = "batch" /\ r.fresh = rev => Accurate(r)

IInv == DiagTypeOK /\ CacheIsShown /\ Past /\ Current

\* The job that a request of this turn leads to.
JobFor(files) == [fresh |-> rev', files |-> files, open |-> open']
-----------------------------------------------------------------------------
(* Freshness *)

\* Freshness moves on: what there is becomes stale, what is asked for is new.
LEMMA Later ==
  ASSUME IInv, NEW requests,
         rev' \in Freshness, rev' # rev,
         rev.changes <= rev'.changes, rev.targets <= rev'.targets,
         rev.reloads <= rev'.reloads,
         jobs' \subseteq jobs \cup {JobFor(files) : files \in requests},
         results' = results
  PROVE  Past' /\ Current'
<1>1. /\ rev \in Freshness
      /\ rev.changes \in Nat /\ rev.targets \in Nat /\ rev.reloads \in Nat
      /\ rev'.changes \in Nat /\ rev'.targets \in Nat /\ rev'.reloads \in Nat
  BY DEF IInv, DiagTypeOK, Freshness
<1>2. ASSUME NEW fresh \in Freshness, Upto(fresh)
      PROVE  Upto(fresh)' /\ fresh # rev'
  <2>1. fresh.changes \in Nat /\ fresh.targets \in Nat /\ fresh.reloads \in Nat
    BY <1>2 DEF Freshness
  <2>2. Upto(fresh)'
    BY <1>1, <1>2, <2>1 DEF Upto
  <2>3. ASSUME fresh = rev' PROVE FALSE
    <3>1. rev'.changes = rev.changes /\ rev'.targets = rev.targets
          /\ rev'.reloads = rev.reloads
      BY <1>1, <1>2, <2>3 DEF Upto
    <3>2. rev' = rev
      BY <1>1, <3>1 DEF Freshness
    <3> QED BY <3>2
  <2> QED BY <2>2, <2>3
<1>3. /\ \A j \in jobs : j.fresh \in Freshness /\ Upto(j.fresh)
      /\ \A r \in results : r.kind = "batch" => r.fresh \in Freshness /\ Upto(r.fresh)
  <2>1. \A r \in Result : r.kind # "batch"
    BY DEF Result
  <2>2. \A r \in Batch : r.fresh \in Freshness
    BY DEF Batch
  <2>3. \A j \in Job : j.fresh \in Freshness
    BY DEF Job
  <2> QED BY <2>1, <2>2, <2>3 DEF IInv, DiagTypeOK, Past
<1>4. \A j \in jobs' : j \in jobs \/ (j.fresh = rev' /\ j.open = open')
  BY DEF JobFor
<1>5. Past'
  <2>1. ASSUME NEW j \in jobs' PROVE Upto(j.fresh)'
    <3>1. CASE j \in jobs
      BY <3>1, <1>2, <1>3
    <3>2. CASE j.fresh = rev'
      BY <3>2, <1>1 DEF Upto
    <3> QED BY <3>1, <3>2, <1>4
  <2>2. ASSUME NEW r \in results', r.kind = "batch" PROVE Upto(r.fresh)'
    BY <1>2, <1>3, <2>2
  <2> QED BY <2>1, <2>2 DEF Past
<1>6. Current'
  BY <1>2, <1>3, <1>4 DEF Current
<1> QED BY <1>5, <1>6

\* A batch stays accurate while contents, documents and freshness stay.
LEMMA StaysAccurate ==
  ASSUME UNCHANGED <<text, profiled, muted, open, rev>>
  PROVE  /\ \A f : Slang(f)' = Slang(f)
         /\ \A batch : Accurate(batch)' <=> Accurate(batch)
<1>1. \A f : Slang(f)' = Slang(f)
  BY DEF Slang, SameOwner
<1> QED BY <1>1 DEF Accurate, Commit

\* Freshness stays: jobs may be added, and batches that are accurate.
LEMMA Stays ==
  ASSUME IInv, NEW requests,
         UNCHANGED <<text, profiled, muted, open, rev>>,
         jobs' \subseteq jobs \cup {JobFor(files) : files \in requests},
         \A r \in results' \ results :
           r.kind = "batch" => Upto(r.fresh) /\ (r.fresh = rev => Accurate(r))
  PROVE  Past' /\ Current'
<1>1. \A files : JobFor(files).fresh = rev /\ JobFor(files).open = open
  BY DEF JobFor
<1>2. \A fresh : Upto(fresh)' <=> Upto(fresh)
  BY DEF Upto
<1>3. Upto(rev)
  <2>1. rev.changes \in Nat /\ rev.targets \in Nat /\ rev.reloads \in Nat
    BY DEF IInv, DiagTypeOK, Freshness
  <2> QED BY <2>1 DEF Upto
<1>4. Past'
  BY <1>1, <1>2, <1>3 DEF IInv, Past
<1>5. \A batch : Accurate(batch)' <=> Accurate(batch)
  BY StaysAccurate
<1>6. Current'
  BY <1>1, <1>5 DEF IInv, Current
<1> QED BY <1>4, <1>6
-----------------------------------------------------------------------------
(* Asking *)

\* Requests are for files of the server.
LEMMA RequestsTyped ==
  ASSUME open' \subseteq Files, NEW changed, NEW pending \in SUBSET Files,
         NEW structural \in BOOLEAN
  PROVE  RequestsForChanges(changed, pending, structural) \subseteq SUBSET Files
<1>1. \A files : TargetsForChanges(files, open') \subseteq Files
  BY DEF TargetsForChanges
<1> QED BY <1>1 DEF RequestsForChanges

\* A request becomes a job, or is deferred.
LEMMA Asked ==
  ASSUME IInv, NEW requests \in SUBSET SUBSET Files,
         rev' \in Freshness, open' \subseteq Files, ready' = ready, Ask(requests)
  PROVE  /\ jobs' \subseteq Job
         /\ jobs' \subseteq jobs \cup {JobFor(files) : files \in requests}
         /\ deferred' \in BOOLEAN /\ (ready' => ~deferred')
         /\ \A files \in requests : files # {} => deferred' \/ JobFor(files) \in jobs'
<1>1. jobs \subseteq Job /\ deferred \in BOOLEAN /\ ready \in BOOLEAN /\ (ready => ~deferred)
  BY DEF IInv, DiagTypeOK
<1>2. \A files \in SUBSET Files : JobFor(files) \in Job
  BY DEF JobFor, Job
<1>3. jobs' = IF ready THEN jobs \cup {JobFor(files) : files \in requests \ {{}}} ELSE jobs
  BY DEF Ask, JobFor
<1>4. deferred' = (deferred \/ (~ready /\ requests # {}))
  BY DEF Ask
<1>5. jobs' \subseteq Job /\ jobs' \subseteq jobs \cup {JobFor(files) : files \in requests}
  BY <1>1, <1>2, <1>3
<1>6. deferred' \in BOOLEAN /\ (ready' => ~deferred')
  BY <1>1, <1>4
<1>7. ASSUME NEW files \in requests, files # {}
      PROVE  deferred' \/ JobFor(files) \in jobs'
  <2>1. CASE ready
    BY <2>1, <1>3, <1>7
  <2>2. CASE ~ready
    BY <2>2, <1>4, <1>7
  <2> QED BY <2>1, <2>2
<1> QED BY <1>5, <1>6, <1>7

\* A turn of process_changes that has something to process.
LEMMA Turn ==
  ASSUME IInv, NEW changed \in SUBSET Files, NEW pending \in SUBSET Files,
         NEW structural \in BOOLEAN,
         changed # {} \/ pending # {},
         open' \subseteq Files, ready' = ready, results' = results,
         ProcessChanges(changed, pending, structural)
  PROVE  /\ rev' \in Freshness /\ rev' # rev
         /\ jobs' \subseteq Job
         /\ deferred' \in BOOLEAN /\ (ready' => ~deferred')
         /\ \A files \in RequestsForChanges(changed, pending, structural) :
              files # {} => deferred' \/ JobFor(files) \in jobs'
         /\ Past' /\ Current'
<1> DEFINE requests == RequestsForChanges(changed, pending, structural)
<1>1. rev \in Freshness /\ rev.changes \in 0..MaxChanges /\ rev.targets \in 0..MaxTargets
      /\ rev.reloads \in 0..MaxReloads
  BY DEF IInv, DiagTypeOK, Freshness
<1>2. rev' = [rev EXCEPT !.changes = @ + (IF changed = {} THEN 0 ELSE 1),
                         !.targets = @ + (IF pending = {} THEN 0 ELSE 1)]
  BY DEF ProcessChanges
<1>3. /\ rev'.changes = rev.changes + (IF changed = {} THEN 0 ELSE 1)
      /\ rev'.targets = rev.targets + (IF pending = {} THEN 0 ELSE 1)
      /\ rev'.reloads = rev.reloads
  BY <1>1, <1>2 DEF Freshness
<1>4. (changed # {} => rev.changes < MaxChanges) /\ (pending # {} => rev.targets < MaxTargets)
  BY DEF ProcessChanges
<1>5. rev' \in Freshness
  <2>1. /\ rev.changes + (IF changed = {} THEN 0 ELSE 1) \in 0..MaxChanges
        /\ rev.targets + (IF pending = {} THEN 0 ELSE 1) \in 0..MaxTargets
    BY <1>1, <1>4, BoundsAssumption
  <2> QED BY <2>1, <1>1, <1>2 DEF Freshness
<1>6. rev' # rev /\ rev.changes <= rev'.changes /\ rev.targets <= rev'.targets
      /\ rev.reloads <= rev'.reloads
  BY <1>1, <1>3
<1>7. requests \in SUBSET SUBSET Files
  BY RequestsTyped
<1>8. Ask(requests)
  BY DEF ProcessChanges
<1>9. /\ jobs' \subseteq Job
      /\ jobs' \subseteq jobs \cup {JobFor(files) : files \in requests}
      /\ deferred' \in BOOLEAN /\ (ready' => ~deferred')
      /\ \A files \in requests : files # {} => deferred' \/ JobFor(files) \in jobs'
  <2> HIDE DEF requests
  <2> QED BY <1>5, <1>7, <1>8, Asked
<1>10. Past' /\ Current'
  <2> HIDE DEF requests
  <2> QED BY <1>5, <1>6, <1>9, Later
<1> QED BY <1>5, <1>6, <1>9, <1>10
-----------------------------------------------------------------------------
(* What a step shows, asks for and serves: the bodies of TrueWhenShown,    *)
(* RequestedWhenChanged and ServedOrOvertaken                              *)

ShownTrue ==
  \A f \in Files :
    shown'[f] \notin {shown[f], Nothing} =>
      /\ f \in open' /\ shown'[f].slang = Slang(f)'
      /\ shown'[f].qihe \subseteq {Commit(rev)}

ChangedAsked ==
  \A f \in open' :
    (f \notin open \/ Slang(f)' # Slang(f)) /\ ~TypedUnsaved => deferred' \/ Requested(f)'

AskedServed ==
  \A f \in Files :
    Requested(f) /\ rev' = rev => Requested(f)' \/ Showing(f)' \/ deferred'

Good == IInv' /\ ShownTrue /\ ChangedAsked /\ AskedServed

\* A batch with accurate tasks, if it is fresh, leaves its files as they should
\* be, and shows nothing else.
LEMMA PublishedRight ==
  ASSUME IInv, NEW batch, Publish(batch),
         DOMAIN batch.tasks \subseteq Files,
         \A f \in DOMAIN batch.tasks : batch.tasks[f] \in Content,
         batch.fresh = rev => Accurate(batch),
         UNCHANGED <<text, profiled, muted, open, rev>>
  PROVE  /\ deferred' \in BOOLEAN /\ (ready => ~deferred') /\ (~ready => deferred')
         /\ published' \in [Files -> Content] /\ shown' \in [Files -> Content]
         /\ CacheIsShown'
         /\ ShownTrue
         /\ ready /\ batch.fresh = rev =>
              \A f \in Files : f \in batch.files => Showing(f)'
<1>1. deferred \in BOOLEAN /\ ready \in BOOLEAN /\ (ready => ~deferred)
      /\ published \in [Files -> Content] /\ shown = published
  BY DEF IInv, DiagTypeOK, CacheIsShown
<1>2. deferred' = (deferred \/ ~ready)
  BY DEF Publish
<1>3. deferred' \in BOOLEAN /\ (ready => ~deferred') /\ (~ready => deferred')
  BY <1>1, <1>2
<1>4. Nothing \in Content /\ Nothing.slang = {}
  BY DEF Nothing, Content
<1>5. \A f : Slang(f)' = Slang(f)
  BY StaysAccurate
<1>6. CASE ready /\ IsFresh(batch)
  <2> DEFINE new == CacheAfter(published, batch)
  <2>1. /\ DOMAIN batch.tasks = batch.files \cap open
        /\ \A f \in DOMAIN batch.tasks : /\ batch.tasks[f].slang = Slang(f)
                                         /\ batch.tasks[f].qihe \subseteq {Commit(rev)}
    BY <1>6 DEF IsFresh, Accurate
  <2>2. /\ new \in [Files -> Content]
        /\ \A f \in Files : new[f] = IF f \in DOMAIN batch.tasks THEN batch.tasks[f]
                                     ELSE IF f \in batch.files THEN Nothing
                                     ELSE published[f]
    BY <1>1, <1>4 DEF CacheAfter
  <2>3. published' = new /\ shown' = ShownAfter(new)
    BY <1>6 DEF Publish
  <2>4. shown' = new
    <3> HIDE DEF new
    <3>1. shown' = [f \in Files |-> IF new[f] # published[f] THEN new[f] ELSE shown[f]]
      BY <2>3 DEF ShownAfter
    <3>2. \A f \in Files : (IF new[f] # published[f] THEN new[f] ELSE shown[f]) = new[f]
      BY <1>1
    <3> QED BY <3>1, <3>2, <2>2
  <2> HIDE DEF new
  <2>5. ShownTrue
    BY <1>1, <1>5, <2>1, <2>2, <2>4 DEF ShownTrue
  <2>6. ASSUME NEW f \in Files, f \in batch.files PROVE Showing(f)'
    <3>1. f \in open <=> f \in DOMAIN batch.tasks
      BY <2>1, <2>6
    <3>2. shown'[f].slang = IF f \in open THEN Slang(f) ELSE {}
      BY <3>1, <2>1, <2>2, <2>4, <2>6, <1>4
    <3> QED BY <3>2, <1>5 DEF Showing
  <2> QED BY <1>3, <2>2, <2>3, <2>4, <2>5, <2>6 DEF CacheIsShown
<1>7. CASE ~(ready /\ IsFresh(batch))
  <2>1. UNCHANGED <<published, shown>>
    BY <1>7 DEF Publish
  <2> QED BY <2>1, <1>1, <1>3, <1>7 DEF ShownTrue, CacheIsShown, IsFresh
<1> QED BY <1>6, <1>7

\* A job of this turn is a request for its files.
LEMMA RequestedBy ==
  ASSUME NEW files, NEW f \in files, JobFor(files) \in jobs'
  PROVE  Requested(f)'
<1>1. JobFor(files).files = files /\ JobFor(files).fresh = rev'
  BY DEF JobFor
<1> QED BY <1>1 DEF Requested

\* A text is only seen in the diagnostics of its owner.
LEMMA OwnerSees ==
  ASSUME NEW g, NEW t, text' = [text EXCEPT ![g] = t], UNCHANGED <<profiled, muted>>,
         text \in [Files -> DocTexts], NEW f, Slang(f)' # Slang(f)
  PROVE  SameOwner(f, g) /\ t # text[g]
<1>1. (\A h \in Files : SameOwner(f, h) => text'[h] = text[h]) => Slang(f)' = Slang(f)
  BY DEF Slang, SameOwner
<1>2. PICK h \in Files : SameOwner(f, h) /\ text'[h] # text[h]
  BY <1>1
<1>3. h = g /\ t # text[g]
  BY <1>2
<1> QED BY <1>2, <1>3

\* Where contents and documents stay, there is nothing to ask for.
LEMMA NothingToAsk ==
  ASSUME UNCHANGED <<text, profiled, muted>>, open' \subseteq open
  PROVE  ChangedAsked
<1>1. \A f : Slang(f)' = Slang(f)
  BY DEF Slang, SameOwner
<1> QED BY <1>1 DEF ChangedAsked

\* Requests stay unless a batch is received.
LEMMA StillAsked ==
  ASSUME jobs \subseteq jobs', results \subseteq results'
  PROVE  AskedServed
BY DEF AskedServed, Requested
-----------------------------------------------------------------------------
(* The initial states *)

LEMMA InitIInv == DiagInit => IInv
<1> SUFFICES ASSUME DiagInit PROVE IInv
  OBVIOUS
<1>1. rev \in Freshness
  BY BoundsAssumption DEF DiagInit, Freshness
<1>2. Nothing \in Content
  BY DEF Nothing, Content
<1>3. DiagTypeOK
  BY <1>1, <1>2 DEF DiagInit, DiagTypeOK, DocTexts
<1> QED BY <1>3 DEF IInv, DiagInit, CacheIsShown, Past, Current
-----------------------------------------------------------------------------
(* Turns that process changes *)

LEMMA EditGood ==
  ASSUME IInv, NEW g \in Files, NEW t \in DocTexts, Edit(g, t)
  PROVE  Good
<1>1. /\ g \in open /\ t \notin {text[g], "absent"}
      /\ text' = [text EXCEPT ![g] = t]
      /\ UNCHANGED <<open, profiled, muted, onType, ready, run, results, external, published, shown>>
      /\ ProcessChanges({g}, {}, FALSE)
  BY DEF Edit, outputs
<1>2. DiagTypeOK /\ open' \subseteq Files
  BY <1>1 DEF IInv, DiagTypeOK
<1>3. /\ rev' \in Freshness /\ rev' # rev /\ jobs' \subseteq Job
      /\ deferred' \in BOOLEAN /\ (ready' => ~deferred')
      /\ \A files \in RequestsForChanges({g}, {}, FALSE) :
           files # {} => deferred' \/ JobFor(files) \in jobs'
      /\ Past' /\ Current'
  BY <1>1, <1>2, Turn
<1>4. DiagTypeOK'
  BY <1>1, <1>2, <1>3 DEF DiagTypeOK
<1>5. ASSUME NEW f \in open', f \notin open \/ Slang(f)' # Slang(f), ~TypedUnsaved
      PROVE  deferred' \/ Requested(f)'
  <2>1. SameOwner(f, g)
    BY <1>1, <1>2, <1>5, OwnerSees DEF DiagTypeOK
  <2>2. onType
    BY <1>1, <1>2, <1>5 DEF TypedUnsaved, DiagTypeOK
  <2>3. TargetsForChanges({g}, open') \in RequestsForChanges({g}, {}, FALSE)
    BY <2>2 DEF RequestsForChanges
  <2>4. f \in TargetsForChanges({g}, open')
    BY <2>1, <1>5 DEF TargetsForChanges
  <2> QED BY <1>3, <2>3, <2>4, RequestedBy
<1> QED BY <1>1, <1>3, <1>4, <1>5
        DEF Good, IInv, CacheIsShown, ShownTrue, ChangedAsked, AskedServed

LEMMA OpenGood ==
  ASSUME IInv, NEW g \in Files, NEW t \in DocTexts, Open(g, t)
  PROVE  Good
<1> DEFINE changed    == IF text[g] = t THEN {} ELSE {g}
           structural == text[g] = "absent"
           requests   == RequestsForChanges(changed, {g}, structural)
<1>1. /\ g \notin open /\ t # "absent"
      /\ open' = open \cup {g}
      /\ text' = [text EXCEPT ![g] = t]
      /\ UNCHANGED <<profiled, muted, onType, ready, run, results, external, published, shown>>
      /\ ProcessChanges(changed, {g}, structural)
  BY DEF Open, outputs
<1>2. DiagTypeOK /\ open' \subseteq Files
  BY <1>1 DEF IInv, DiagTypeOK
<1>3. /\ rev' \in Freshness /\ rev' # rev /\ jobs' \subseteq Job
      /\ deferred' \in BOOLEAN /\ (ready' => ~deferred')
      /\ \A files \in requests : files # {} => deferred' \/ JobFor(files) \in jobs'
      /\ Past' /\ Current'
  <2>1. changed \in SUBSET Files /\ {g} \in SUBSET Files /\ structural \in BOOLEAN
    OBVIOUS
  <2> HIDE DEF changed, structural
  <2> QED BY <1>1, <1>2, <2>1, Turn
<1>4. DiagTypeOK'
  BY <1>1, <1>2, <1>3 DEF DiagTypeOK
<1>5. ASSUME NEW f \in open', f \notin open \/ Slang(f)' # Slang(f), ~TypedUnsaved
      PROVE  deferred' \/ Requested(f)'
  <2>1. \A opened : f \in opened => f \in TargetsForChanges({f}, opened)
    BY DEF TargetsForChanges, SameOwner
  <2>2. CASE changed = {}
    <3>1. f = g
      BY <2>2, <1>1, <1>2, <1>5, OwnerSees DEF DiagTypeOK
    <3>2. {g} \in requests
      BY <2>2 DEF RequestsForChanges
    <3> QED BY <1>3, <3>1, <3>2, RequestedBy
  <2>3. CASE changed # {} /\ structural
    <3>1. open' \in requests
      BY <2>3 DEF RequestsForChanges
    <3> QED BY <1>3, <1>5, <3>1, RequestedBy
  <2>4. CASE changed # {} /\ ~structural
    <3>1. t # text[g] /\ changed = {g}
      BY <2>4
    <3>2. onType
      BY <1>1, <1>2, <1>5, <3>1 DEF TypedUnsaved, DiagTypeOK
    <3>3. TargetsForChanges({g} \cup {g}, open') \in requests
      BY <2>4, <3>1, <3>2 DEF RequestsForChanges
    <3>4. f = g \/ SameOwner(f, g)
      BY <1>1, <1>2, <1>5, OwnerSees DEF DiagTypeOK
    <3>5. f \in TargetsForChanges({g} \cup {g}, open')
      BY <1>5, <3>4 DEF TargetsForChanges, SameOwner
    <3> QED BY <1>3, <3>3, <3>5, RequestedBy
  <2> QED BY <2>2, <2>3, <2>4
<1> QED BY <1>1, <1>3, <1>4, <1>5
        DEF Good, IInv, CacheIsShown, ShownTrue, ChangedAsked, AskedServed

LEMMA CloseGood ==
  ASSUME IInv, NEW g \in Files, Close(g)
  PROVE  Good
<1>1. /\ g \in open /\ open' = open \ {g}
      /\ UNCHANGED <<text, profiled, muted, onType, ready, run, results, external, published, shown>>
      /\ ProcessChanges({}, {g}, FALSE)
  BY DEF Close, contents, outputs
<1>2. DiagTypeOK /\ open' \subseteq Files
  BY <1>1 DEF IInv, DiagTypeOK
<1>3. /\ rev' \in Freshness /\ rev' # rev /\ jobs' \subseteq Job
      /\ deferred' \in BOOLEAN /\ (ready' => ~deferred')
      /\ Past' /\ Current'
  BY <1>1, <1>2, Turn
<1>4. DiagTypeOK'
  BY <1>1, <1>2, <1>3 DEF DiagTypeOK
<1>5. ChangedAsked
  BY <1>1, NothingToAsk
<1> QED BY <1>1, <1>3, <1>4, <1>5 DEF Good, IInv, CacheIsShown, ShownTrue, AskedServed

LEMMA DiskChangeGood ==
  ASSUME IInv, NEW g \in Files, NEW t \in DocTexts, DiskChange(g, t)
  PROVE  Good
<1> DEFINE structural == text[g] = "absent"
           requests   == RequestsForChanges({g}, {}, structural)
<1>1. /\ g \notin open /\ t \notin {text[g], "absent"}
      /\ text' = [text EXCEPT ![g] = t]
      /\ UNCHANGED <<open, profiled, muted, onType, ready, run, results, external, published, shown>>
      /\ ProcessChanges({g}, {}, structural)
  BY DEF DiskChange, outputs
<1>2. DiagTypeOK /\ open' \subseteq Files
  BY <1>1 DEF IInv, DiagTypeOK
<1>3. /\ rev' \in Freshness /\ rev' # rev /\ jobs' \subseteq Job
      /\ deferred' \in BOOLEAN /\ (ready' => ~deferred')
      /\ \A files \in requests : files # {} => deferred' \/ JobFor(files) \in jobs'
      /\ Past' /\ Current'
  <2>1. structural \in BOOLEAN
    OBVIOUS
  <2> HIDE DEF structural
  <2> QED BY <1>1, <1>2, <2>1, Turn
<1>4. DiagTypeOK'
  BY <1>1, <1>2, <1>3 DEF DiagTypeOK
<1>5. ASSUME NEW f \in open', f \notin open \/ Slang(f)' # Slang(f), ~TypedUnsaved
      PROVE  deferred' \/ Requested(f)'
  <2>1. SameOwner(f, g)
    BY <1>1, <1>2, <1>5, OwnerSees DEF DiagTypeOK
  <2>2. f \in TargetsForChanges({g}, open')
    BY <2>1, <1>5 DEF TargetsForChanges
  <2>3. open' \in requests \/ TargetsForChanges({g}, open') \in requests
    BY <1>1 DEF RequestsForChanges
  <2> QED BY <1>3, <1>5, <2>2, <2>3, RequestedBy
<1> QED BY <1>1, <1>3, <1>4, <1>5
        DEF Good, IInv, CacheIsShown, ShownTrue, ChangedAsked, AskedServed

LEMMA DiskDeleteGood ==
  ASSUME IInv, NEW g \in Files, DiskDelete(g)
  PROVE  Good
<1>1. /\ g \notin open /\ text[g] # "absent"
      /\ text' = [text EXCEPT ![g] = "absent"]
      /\ external' = [external EXCEPT ![g] = {}]
      /\ published' = IF ready THEN [published EXCEPT ![g] = Nothing] ELSE published
      /\ shown' = IF ready THEN ShownAfter(published') ELSE shown
      /\ UNCHANGED <<open, profiled, muted, onType, ready, run, results>>
      /\ ProcessChanges({g}, {}, TRUE)
  BY DEF DiskDelete
<1>2. DiagTypeOK /\ shown = published /\ open' \subseteq Files
  BY <1>1 DEF IInv, DiagTypeOK, CacheIsShown
<1>3. /\ rev' \in Freshness /\ rev' # rev /\ jobs' \subseteq Job
      /\ deferred' \in BOOLEAN /\ (ready' => ~deferred')
      /\ \A files \in RequestsForChanges({g}, {}, TRUE) :
           files # {} => deferred' \/ JobFor(files) \in jobs'
      /\ Past' /\ Current'
  BY <1>1, <1>2, Turn
<1>4. /\ published' \in [Files -> Content] /\ shown' = published'
      /\ \A f \in Files : shown'[f] \in {shown[f], Nothing}
  <2>1. Nothing \in Content
    BY DEF Nothing, Content
  <2>2. published' \in [Files -> Content] /\ \A f \in Files : published'[f] \in {shown[f], Nothing}
    BY <1>1, <1>2, <2>1 DEF DiagTypeOK
  <2>3. shown' = published'
    BY <1>1, <1>2, <2>2 DEF ShownAfter
  <2> QED BY <2>2, <2>3
<1>5. DiagTypeOK'
  BY <1>1, <1>2, <1>3, <1>4 DEF DiagTypeOK, DocTexts
<1>6. ASSUME NEW f \in open'
      PROVE  deferred' \/ Requested(f)'
  <2>1. open' \in RequestsForChanges({g}, {}, TRUE)
    BY DEF RequestsForChanges
  <2> QED BY <1>3, <1>6, <2>1, RequestedBy
<1> QED BY <1>1, <1>3, <1>4, <1>5, <1>6
        DEF Good, IInv, CacheIsShown, ShownTrue, ChangedAsked, AskedServed
-----------------------------------------------------------------------------
(* Settings, saving and readiness *)

\* The next write is within the bounds, and makes everything stale.
LEMMA WriteFreshness ==
  ASSUME DiagTypeOK, rev.changes < MaxChanges, rev' = [rev EXCEPT !.changes = @ + 1]
  PROVE  /\ rev' \in Freshness /\ rev' # rev
         /\ rev.changes <= rev'.changes /\ rev.targets <= rev'.targets
         /\ rev.reloads <= rev'.reloads
BY BoundsAssumption DEF DiagTypeOK, Freshness

LEMMA ChangeSettingsGood ==
  ASSUME IInv, ChangeSettings
  PROVE  Good
<1>1. /\ rev.changes < MaxChanges /\ muted' = ~muted
      /\ rev' = [rev EXCEPT !.changes = @ + 1]
      /\ UNCHANGED <<text, profiled, open, onType, ready, run, results, external, published, shown>>
      /\ Ask({open'})
  BY DEF ChangeSettings, outputs
<1>2. DiagTypeOK /\ open' \subseteq Files
  BY <1>1 DEF IInv, DiagTypeOK
<1>3. /\ rev' \in Freshness /\ rev' # rev
      /\ rev.changes <= rev'.changes /\ rev.targets <= rev'.targets
      /\ rev.reloads <= rev'.reloads
  BY <1>1, <1>2, WriteFreshness
<1>4. /\ jobs' \subseteq Job
      /\ jobs' \subseteq jobs \cup {JobFor(files) : files \in {open'}}
      /\ deferred' \in BOOLEAN /\ (ready' => ~deferred')
      /\ \A files \in {open'} : files # {} => deferred' \/ JobFor(files) \in jobs'
  <2>1. {open'} \in SUBSET SUBSET Files
    BY <1>2
  <2> QED BY <1>1, <1>2, <1>3, <2>1, Asked
<1>5. Past' /\ Current'
  BY <1>1, <1>3, <1>4, Later
<1>6. muted' \in BOOLEAN
  BY <1>1
<1>7. DiagTypeOK'
  BY <1>1, <1>2, <1>3, <1>4, <1>6 DEF DiagTypeOK
<1>8. ASSUME NEW f \in open' PROVE deferred' \/ Requested(f)'
  BY <1>4, <1>8, RequestedBy
<1> QED BY <1>1, <1>3, <1>5, <1>7, <1>8
        DEF Good, IInv, CacheIsShown, ShownTrue, ChangedAsked, AskedServed

LEMMA SaveGood ==
  ASSUME IInv, NEW g \in Files, Save(g)
  PROVE  Good
<1> DEFINE requests == {TargetsForChanges({g}, open)}
<1>1. /\ UNCHANGED <<text, profiled, muted, open, onType, ready, rev, run, results,
                     external, published, shown>>
      /\ Ask(requests)
  BY DEF Save, contents, outputs
<1>2. DiagTypeOK /\ open' \subseteq Files /\ rev' \in Freshness
  BY <1>1 DEF IInv, DiagTypeOK
<1>3. requests \in SUBSET SUBSET Files
  BY <1>1, <1>2 DEF TargetsForChanges
<1> HIDE DEF requests
<1>4. /\ jobs' \subseteq Job
      /\ jobs' \subseteq jobs \cup {JobFor(files) : files \in requests}
      /\ deferred' \in BOOLEAN /\ (ready' => ~deferred')
  BY <1>1, <1>2, <1>3, Asked
<1>5. Past' /\ Current'
  BY <1>1, <1>4, Stays
<1>6. DiagTypeOK'
  BY <1>1, <1>2, <1>4 DEF DiagTypeOK
<1>7. ChangedAsked
  BY <1>1, NothingToAsk
<1>8. AskedServed
  BY <1>1, StillAsked DEF Ask
<1> QED BY <1>1, <1>5, <1>6, <1>7, <1>8 DEF Good, IInv, CacheIsShown, ShownTrue

LEMMA RequestReloadGood ==
  ASSUME IInv, RequestReload
  PROVE  Good
<1>1. /\ rev.reloads < MaxReloads /\ ready' = FALSE
      /\ rev' = [rev EXCEPT !.reloads = @ + 1]
      /\ UNCHANGED <<text, profiled, muted, open, onType, deferred, jobs, run, results,
                     external, published, shown>>
  BY DEF RequestReload, contents, outputs
<1>2. DiagTypeOK
  BY DEF IInv
<1>3. /\ rev' \in Freshness /\ rev' # rev
      /\ rev.changes <= rev'.changes /\ rev.targets <= rev'.targets
      /\ rev.reloads <= rev'.reloads
  BY <1>1, <1>2, BoundsAssumption DEF DiagTypeOK, Freshness
<1>4. Past' /\ Current'
  BY <1>1, <1>3, Later
<1>5. DiagTypeOK'
  BY <1>1, <1>2, <1>3 DEF DiagTypeOK
<1>6. ChangedAsked
  BY <1>1, NothingToAsk
<1> QED BY <1>1, <1>3, <1>4, <1>5, <1>6 DEF Good, IInv, CacheIsShown, ShownTrue, AskedServed

LEMMA SwitchWorkspacesGood ==
  ASSUME IInv, NEW files \in {{}, Files}, SwitchWorkspaces(files)
  PROVE  Good
<1>1. /\ ~ready /\ rev.changes < MaxChanges
      /\ profiled' = files /\ deferred' = TRUE
      /\ rev' = [rev EXCEPT !.changes = @ + 1]
      /\ UNCHANGED <<text, muted, open, onType, ready, jobs, run, results,
                     external, published, shown>>
  BY DEF SwitchWorkspaces, outputs
<1>2. DiagTypeOK
  BY DEF IInv
<1>3. /\ rev' \in Freshness /\ rev' # rev
      /\ rev.changes <= rev'.changes /\ rev.targets <= rev'.targets
      /\ rev.reloads <= rev'.reloads
  BY <1>1, <1>2, WriteFreshness
<1>4. Past' /\ Current'
  BY <1>1, <1>3, Later
<1>5. DiagTypeOK'
  BY <1>1, <1>2, <1>3 DEF DiagTypeOK
<1> QED BY <1>1, <1>3, <1>4, <1>5
        DEF Good, IInv, CacheIsShown, ShownTrue, ChangedAsked, AskedServed

LEMMA BecomeReadyGood ==
  ASSUME IInv, BecomeReady
  PROVE  Good
<1>1. /\ ready' = TRUE /\ deferred' = FALSE
      /\ UNCHANGED <<text, profiled, muted, open, onType, rev, run, results,
                     external, published, shown>>
  BY DEF BecomeReady, contents, outputs
<1>2. DiagTypeOK
  BY DEF IInv
<1>3. jobs \subseteq jobs' /\ jobs' \subseteq jobs \cup {JobFor(files) : files \in {open}}
  BY <1>1 DEF BecomeReady, JobFor
<1>4. JobFor(open) \in Job
  BY <1>1, <1>2 DEF JobFor, Job, DiagTypeOK
<1>5. jobs' \subseteq Job
  BY <1>2, <1>3, <1>4 DEF DiagTypeOK
<1>6. Past' /\ Current'
  BY <1>1, <1>3, Stays
<1>7. DiagTypeOK'
  BY <1>1, <1>2, <1>5 DEF DiagTypeOK
<1>8. ChangedAsked /\ AskedServed
  BY <1>1, <1>3, NothingToAsk, StillAsked
<1> QED BY <1>1, <1>6, <1>7, <1>8 DEF Good, IInv, CacheIsShown, ShownTrue
-----------------------------------------------------------------------------
(* Workers and results *)

LEMMA RunJobGood ==
  ASSUME IInv, NEW j \in jobs, RunJob(j)
  PROVE  Good
<1> DEFINE batch == BatchFor(j.files, j.open, j.fresh)
<1>1. /\ jobs' = jobs \ {j} /\ results' = results \cup {batch}
      /\ UNCHANGED <<text, profiled, muted, open, onType, ready, deferred, rev, run,
                     external, published, shown>>
  BY DEF RunJob, contents, outputs
<1>2. DiagTypeOK /\ j \in Job /\ Upto(j.fresh) /\ (j.fresh = rev => j.open = open)
  BY DEF IInv, DiagTypeOK, Past, Current
<1>3. j.fresh \in Freshness /\ j.files \subseteq Files /\ Commit(j.fresh) \in Commits
  BY <1>2 DEF Job, Freshness, Commits, Commit
<1>4. /\ batch.kind = "batch" /\ batch.fresh = j.fresh /\ batch.files = j.files
      /\ DOMAIN batch.tasks = j.files \cap j.open
      /\ \A f \in DOMAIN batch.tasks : /\ batch.tasks[f].slang = Slang(f)
                                       /\ batch.tasks[f].qihe \subseteq {Commit(j.fresh)}
  BY DEF BatchFor, LspDiagnostics, QiheFindings
<1>5. batch \in Batch
  <2>1. \A f : LspDiagnostics(f, j.fresh) \in Content
    BY <1>3 DEF LspDiagnostics, Content, Slang, QiheFindings
  <2>2. batch.tasks \in [j.files \cap j.open -> Content]
    BY <2>1 DEF BatchFor
  <2>3. batch.tasks \in UNION {[F -> Content] : F \in SUBSET Files}
    <3> HIDE DEF batch
    <3>1. j.files \cap j.open \in SUBSET Files
      BY <1>3
    <3>2. [j.files \cap j.open -> Content] \in {[F -> Content] : F \in SUBSET Files}
      BY <3>1
    <3> QED BY <2>2, <3>2
  <2> QED BY <1>3, <2>3 DEF BatchFor, Batch
<1>6. batch.fresh = rev => Accurate(batch)
  BY <1>2, <1>4 DEF Accurate
<1> HIDE DEF batch
<1>7. Past' /\ Current'
  <2>1. jobs' \subseteq jobs \cup {JobFor(files) : files \in {}}
    BY <1>1
  <2>2. \A r \in results' \ results :
          r.kind = "batch" => Upto(r.fresh) /\ (r.fresh = rev => Accurate(r))
    BY <1>1, <1>2, <1>4, <1>6
  <2> QED BY <1>1, <2>1, <2>2, Stays
<1>8. DiagTypeOK'
  <2>1. jobs' \subseteq Job
    BY <1>1, <1>2 DEF DiagTypeOK
  <2>2. \A r \in results' : \/ (r \in Batch /\ DOMAIN r.tasks \subseteq r.files)
                            \/ (r \in Result /\ r.found \subseteq r.files)
    BY <1>1, <1>2, <1>4, <1>5 DEF DiagTypeOK
  <2> QED BY <1>1, <1>2, <2>1, <2>2 DEF DiagTypeOK
<1>9. ChangedAsked
  BY <1>1, NothingToAsk
<1>10. AskedServed
  BY <1>1, <1>4 DEF AskedServed, Requested
<1> QED BY <1>1, <1>7, <1>8, <1>9, <1>10 DEF Good, IInv, CacheIsShown, ShownTrue

LEMMA StartQiheGood ==
  ASSUME IInv, StartQihe
  PROVE  Good
<1>1. /\ run' = {Commit(rev)}
      /\ UNCHANGED <<text, profiled, muted, open, onType, ready, deferred, rev, jobs,
                     results, external, published, shown>>
  BY DEF StartQihe, contents, outputs
<1>2. DiagTypeOK /\ Commit(rev) \in Commits
  BY DEF IInv, DiagTypeOK, Freshness, Commits, Commit
<1>3. Past' /\ Current'
  BY <1>1, Stays
<1>4. DiagTypeOK'
  BY <1>1, <1>2 DEF DiagTypeOK
<1>5. ChangedAsked /\ AskedServed
  BY <1>1, NothingToAsk, StillAsked
<1> QED BY <1>1, <1>3, <1>4, <1>5 DEF Good, IInv, CacheIsShown, ShownTrue

LEMMA FinishQiheGood ==
  ASSUME IInv, NEW active \in Files, NEW found \in SUBSET Files, FinishQihe(active, found)
  PROVE  Good
<1>1. PICK commit \in run :
        /\ run' = {}
        /\ results' = results \cup {[kind |-> "qihe", fresh |-> commit,
                                     files |-> found \cup {active}, found |-> found]}
        /\ UNCHANGED <<text, profiled, muted, open, onType, ready, deferred, rev, jobs,
                       external, published, shown>>
  BY DEF FinishQihe, contents, outputs
<1> DEFINE e == [kind |-> "qihe", fresh |-> commit, files |-> found \cup {active},
                 found |-> found]
<1>2. DiagTypeOK /\ commit \in Commits
  BY DEF IInv, DiagTypeOK
<1>3. e \in Result /\ e.found \subseteq e.files /\ e.kind # "batch"
  BY <1>2 DEF Result
<1>4. Past' /\ Current'
  <2>1. jobs' \subseteq jobs \cup {JobFor(files) : files \in {}}
    BY <1>1
  <2>2. \A r \in results' \ results : r.kind # "batch"
    BY <1>1
  <2> QED BY <1>1, <2>1, <2>2, Stays
<1>5. DiagTypeOK'
  BY <1>1, <1>2, <1>3 DEF DiagTypeOK
<1>6. ChangedAsked /\ AskedServed
  BY <1>1, NothingToAsk, StillAsked
<1> QED BY <1>1, <1>4, <1>5, <1>6 DEF Good, IInv, CacheIsShown, ShownTrue

LEMMA ReceiveBatchGood ==
  ASSUME IInv, NEW batch \in results, ReceiveBatch(batch)
  PROVE  Good
<1>1. /\ batch.kind = "batch" /\ results' = results \ {batch}
      /\ Publish(batch)
      /\ UNCHANGED <<text, profiled, muted, open, onType, ready, rev, jobs, run, external>>
  BY DEF ReceiveBatch, contents
<1>2. DiagTypeOK /\ (batch.fresh = rev => Accurate(batch))
  BY <1>1 DEF IInv, Current
<1>3. batch \in Batch /\ DOMAIN batch.tasks \subseteq batch.files
  BY <1>1, <1>2 DEF DiagTypeOK, Result
<1>4. batch.files \subseteq Files /\ \A f \in DOMAIN batch.tasks : batch.tasks[f] \in Content
  BY <1>3 DEF Batch
<1>5. /\ deferred' \in BOOLEAN /\ (ready => ~deferred') /\ (~ready => deferred')
      /\ published' \in [Files -> Content] /\ shown' \in [Files -> Content]
      /\ CacheIsShown' /\ ShownTrue
      /\ ready /\ batch.fresh = rev =>
           \A f \in Files : f \in batch.files => Showing(f)'
  BY <1>1, <1>2, <1>3, <1>4, PublishedRight
<1>6. Past' /\ Current'
  <2>1. jobs' \subseteq jobs \cup {JobFor(files) : files \in {}}
    BY <1>1
  <2> QED BY <1>1, <2>1, Stays
<1>7. DiagTypeOK'
  BY <1>1, <1>2, <1>5 DEF DiagTypeOK
<1>8. ChangedAsked
  BY <1>1, NothingToAsk
<1>9. AskedServed
  <2>1. ASSUME NEW f \in Files, Requested(f), ~Requested(f)'
        PROVE  f \in batch.files /\ batch.fresh = rev
    BY <1>1, <2>1 DEF Requested
  <2> QED BY <1>5, <2>1 DEF AskedServed
<1> QED BY <1>5, <1>6, <1>7, <1>8, <1>9 DEF Good, IInv

LEMMA ReceiveQiheGood ==
  ASSUME IInv, NEW result \in results, ReceiveQihe(result)
  PROVE  Good
<1>1. /\ result.kind = "qihe" /\ results' = results \ {result}
      /\ IF result.fresh = Commit(rev)
         THEN external' = Replaced(result) /\ PublishQihe(result)
         ELSE UNCHANGED <<external, deferred, published, shown>>
      /\ UNCHANGED <<text, profiled, muted, open, onType, ready, rev, jobs, run>>
  BY DEF ReceiveQihe, contents
<1>2. DiagTypeOK
  BY DEF IInv
<1>3. result \in Result /\ result.files \subseteq Files
  BY <1>1, <1>2 DEF DiagTypeOK, Batch, Result
<1>4. Commit(rev) \in Commits
  BY <1>2 DEF DiagTypeOK, Freshness, Commits, Commit
<1>5. Past' /\ Current'
  <2>1. jobs' \subseteq jobs \cup {JobFor(files) : files \in {}}
    BY <1>1
  <2> QED BY <1>1, <2>1, Stays
<1>6. ChangedAsked
  BY <1>1, NothingToAsk
<1>7. AskedServed
  BY <1>1 DEF AskedServed, Requested
<1>8. CASE result.fresh = Commit(rev)
  <2> DEFINE files == result.files \cup {f \in Files : external[f] # {}}
             batch == [kind |-> "batch", fresh |-> rev, files |-> files,
                       tasks |-> [f \in files \cap open |->
                         [slang |-> Slang(f),
                          qihe |-> IF f \in result.found THEN {Commit(rev)} ELSE {}]]]
  <2>1. Publish(batch)
    BY <1>1, <1>8 DEF PublishQihe
  <2>2. Accurate(batch)
    BY DEF Accurate
  <2>3. DOMAIN batch.tasks \subseteq Files
        /\ \A f \in DOMAIN batch.tasks : batch.tasks[f] \in Content
    BY <1>3, <1>4 DEF Content, Slang
  <2> HIDE DEF batch
  <2>4. /\ deferred' \in BOOLEAN /\ (ready => ~deferred')
        /\ published' \in [Files -> Content] /\ shown' \in [Files -> Content]
        /\ CacheIsShown' /\ ShownTrue
    BY <1>1, <2>1, <2>2, <2>3, PublishedRight
  <2>5. external' \in [Files -> SUBSET Commits]
    BY <1>1, <1>4, <1>8 DEF Replaced
  <2>6. DiagTypeOK'
    BY <1>1, <1>2, <2>4, <2>5 DEF DiagTypeOK
  <2> QED BY <1>5, <1>6, <1>7, <2>4, <2>6 DEF Good, IInv
<1>9. CASE result.fresh # Commit(rev)
  <2>1. UNCHANGED <<external, deferred, published, shown>>
    BY <1>1, <1>9
  <2>2. DiagTypeOK'
    BY <1>1, <1>2, <2>1 DEF DiagTypeOK
  <2> QED BY <1>5, <1>6, <1>7, <2>1, <2>2 DEF Good, IInv, CacheIsShown, ShownTrue
<1> QED BY <1>8, <1>9
-----------------------------------------------------------------------------
(* Theorems *)

\* Every step keeps the invariant, and shows, asks and serves as it should.
LEMMA StepGood == IInv /\ [DiagNext]_diagVars => Good
<1> SUFFICES ASSUME IInv, [DiagNext]_diagVars PROVE Good
  OBVIOUS
<1>1. CASE Client
  BY <1>1, CloseGood, SaveGood, DiskDeleteGood, EditGood, OpenGood, DiskChangeGood
     DEF Client
<1>2. CASE ChangeSettings
  BY <1>2, ChangeSettingsGood
<1>3. CASE Reloading
  BY <1>3, RequestReloadGood, BecomeReadyGood, SwitchWorkspacesGood DEF Reloading
<1>4. CASE Worker
  BY <1>4, RunJobGood, StartQiheGood, FinishQiheGood DEF Worker
<1>5. CASE \E r \in results : ReceiveBatch(r) \/ ReceiveQihe(r)
  BY <1>5, ReceiveBatchGood, ReceiveQiheGood
<1>6. CASE UNCHANGED diagVars
  <2>1. UNCHANGED <<text, profiled, muted, open, onType, ready, deferred, rev, jobs, run,
                    results, external, published, shown>>
    BY <1>6 DEF diagVars, contents, outputs
  <2>2. DiagTypeOK'
    BY <2>1 DEF IInv, DiagTypeOK
  <2>3. Past' /\ Current'
    BY <2>1, Stays
  <2>4. ChangedAsked /\ AskedServed
    BY <2>1, NothingToAsk, StillAsked
  <2> QED BY <2>1, <2>2, <2>3, <2>4 DEF Good, IInv, CacheIsShown, ShownTrue
<1> QED BY <1>1, <1>2, <1>3, <1>4, <1>5, <1>6 DEF DiagNext

LEMMA Invariant == DiagSpec => []IInv
<1>1. IInv /\ [DiagNext]_diagVars => IInv'
  BY StepGood DEF Good
<1> QED BY InitIInv, <1>1, PTL DEF DiagSpec

\* The state of diagnostics is well formed; in particular, nothing stays
\* deferred once the workspace is ready (publish_diagnostics_tasks,
\* request_deferred_diagnostics).
THEOREM TypeCorrect == DiagSpec => []DiagTypeOK
<1>1. IInv => DiagTypeOK
  BY DEF IInv
<1> QED BY Invariant, <1>1, PTL

\* The cache by which notifications are saved is what the client shows
\* (publish_diagnostics_tasks, published_diagnostics).
THEOREM CacheCorrect == DiagSpec => []CacheIsShown
<1>1. IInv => CacheIsShown
  BY DEF IInv
<1> QED BY Invariant, <1>1, PTL

\* What a client is newly shown is true when it is shown: nothing that was
\* computed before a write, a document was opened or closed, or a reload gets
\* through (DiagnosticPublishFreshness).
THEOREM NewsIsTrue == DiagSpec => TrueWhenShown
<1>1. IInv /\ [DiagNext]_diagVars => [ShownTrue]_diagVars
  BY StepGood DEF Good
<1> QED BY Invariant, <1>1, PTL DEF DiagSpec, TrueWhenShown, ShownTrue

\* Whatever step changes the diagnostics of an open document, its diagnostics
\* are asked for or deferred (process_changes, invalidate_diagnostics).
THEOREM ChangesAreAsked == DiagSpec => RequestedWhenChanged
<1>1. IInv /\ [DiagNext]_diagVars => [ChangedAsked]_diagVars
  BY StepGood DEF Good
<1> QED BY Invariant, <1>1, PTL DEF DiagSpec, RequestedWhenChanged, ChangedAsked

\* What was asked for is shown unless the freshness moves on before, or the
\* workspace is not ready (publish_diagnostics_tasks).
THEOREM RequestsAreServed == DiagSpec => ServedOrOvertaken
<1>1. IInv /\ [DiagNext]_diagVars => [AskedServed]_diagVars
  BY StepGood DEF Good
<1> QED BY Invariant, <1>1, PTL DEF DiagSpec, ServedOrOvertaken, AskedServed
=============================================================================
