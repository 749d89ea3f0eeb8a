------------------------ MODULE Dependencies_proofs ------------------------
(* Proofs about Dependencies: the types, that the links and the boundary   *)
(* lists of the database stay consistent, that no dependency closes a loop *)
(* within a domain, and that containment stays a forest in which every     *)
(* object is found.                                                        *)
EXTENDS DependenciesProps, QueueFacts

(* The invariants of the database, for any database d.                     *)
Links(d) ==
  \A x \in Objs :
    /\ \A y \in d.child_depend[x] : x \in d.parent_depend[y]
    /\ \A y \in d.parent_depend[x] : x \in d.child_depend[y]
    /\ d.type[x] = "absent" => d.child_depend[x] = {} /\ d.parent_depend[x] = {}
Boundary(d) ==
  \A c, o \in Objs : o \in d.top_depend[c] \cup d.bottom_depend[c] => d.parent_comp[o] = c

(* A name that is not in the database is in no component.                  *)
Bare(d) == \A o \in Objs : d.type[o] = "absent" => d.parent_comp[o] = NoComp

Sound(d) == d \in DbType /\ Links(d) /\ Boundary(d) /\ Bare(d)

(* e has the links of d, and at least its objects.                         *)
Extends(d, e) ==
  /\ e.child_depend = d.child_depend /\ e.parent_depend = d.parent_depend
  /\ Present(d) \subseteq Present(e)

-----------------------------------------------------------------------------
(* The operators of ObjectTree                                             *)

(* Linking an object that is in no component, or in the one it is linked   *)
(* to, leaves a database sound.                                            *)
LEMMA LinkSound ==
  ASSUME NEW d, Sound(d), NEW c \in Objs \cup {NoComp, Freed}, NEW o \in Objs,
         d.type[o] # "absent",
         d.parent_comp[o] = c \/ \A x \in Objs : o \notin d.top_depend[x] \cup d.bottom_depend[x]
  PROVE  Sound(Link(d, c, o)) /\ Extends(d, Link(d, c, o))
<1> DEFINE e == Link(d, c, o)
           s == IF d.type[o] = "COMP" THEN <<o>> \o d.comps[c] ELSE d.comps[c]
<1>1. d \in DbType
  BY DEF Sound
<1>2. c \in Objs => s \in Seq(Objs)
  BY <1>1 DEF DbType
<1>3. e = [d EXCEPT !.parent_comp[o] = c, !.comps[c] = s]
  BY DEF Link
<1> HIDE DEF s, e
<1>4. [d.comps EXCEPT ![c] = s] \in [Objs -> Seq(Objs)]
  BY <1>1, <1>2 DEF DbType
<1>5. /\ e.type = d.type /\ e.child_depend = d.child_depend
      /\ e.parent_depend = d.parent_depend
      /\ e.top_depend = d.top_depend /\ e.bottom_depend = d.bottom_depend
      /\ e.parent_comp = [d.parent_comp EXCEPT ![o] = c]
  BY <1>1, <1>3 DEF DbType
<1>6. e \in DbType
  BY <1>1, <1>3, <1>4 DEF DbType
<1>7. Links(e) /\ Extends(d, e)
  BY <1>5 DEF Sound, Links, Extends, Present
<1>8. Boundary(e) /\ Bare(e)
  BY <1>1, <1>5 DEF Sound, Boundary, Bare, DbType
<1> QED
  BY <1>6, <1>7, <1>8 DEF Sound, e

(* After Unlink an object whose component is live is in none; one whose    *)
(* component is not is where it was. Either way no boundary has it.        *)
LEMMA UnlinkSound ==
  ASSUME NEW d, Sound(d), NEW o \in Objs
  PROVE  LET e == Unlink(d, o)
         IN  /\ Sound(e) /\ Extends(d, e)
             /\ e.type = d.type
             /\ e.parent_comp \in [Objs -> Objs \cup {NoComp, Freed}]
             /\ e.parent_comp[o] = IF d.parent_comp[o] \in Objs THEN NoComp
                                   ELSE d.parent_comp[o]
             /\ \A x \in Objs : x # o => e.parent_comp[x] = d.parent_comp[x]
             /\ \A x \in Objs : o \notin e.top_depend[x] \cup e.bottom_depend[x]
<1> DEFINE e == Unlink(d, o)
           c == d.parent_comp[o]
           s == RemoveFirst(d.comps[c], o)
<1>1. d \in DbType /\ Links(d) /\ Boundary(d) /\ Bare(d)
  BY DEF Sound
<1>2. CASE c \notin Objs
  <2>1. e = d
    BY <1>2 DEF Unlink
  <2> QED
    BY <1>1, <1>2, <2>1 DEF Boundary, Extends, Sound, DbType
<1>3. CASE c \in Objs
  <2>1. s \in Seq(Objs)
    <3>1. d.comps[c] \in Seq(Objs)
      BY <1>1, <1>3 DEF DbType
    <3> QED
      BY <3>1, RemoveFirstIs
  <2>2. e = [d EXCEPT !.parent_comp[o] = NoComp, !.comps[c] = s,
                      !.top_depend[c] = d.top_depend[c] \ {o},
                      !.bottom_depend[c] = d.bottom_depend[c] \ {o}]
    BY <1>3 DEF Unlink
  <2> HIDE DEF s, e
  <2>3. /\ e.type = d.type /\ e.child_depend = d.child_depend
        /\ e.parent_depend = d.parent_depend
        /\ e.top_depend = [d.top_depend EXCEPT ![c] = d.top_depend[c] \ {o}]
        /\ e.bottom_depend = [d.bottom_depend EXCEPT ![c] = d.bottom_depend[c] \ {o}]
        /\ e.parent_comp = [d.parent_comp EXCEPT ![o] = NoComp]
    BY <1>1, <2>2 DEF DbType
  <2>4. e \in DbType
    <3>1. /\ [d.comps EXCEPT ![c] = s] \in [Objs -> Seq(Objs)]
          /\ [d.top_depend EXCEPT ![c] = d.top_depend[c] \ {o}] \in [Objs -> SUBSET Objs]
          /\ [d.bottom_depend EXCEPT ![c] = d.bottom_depend[c] \ {o}] \in [Objs -> SUBSET Objs]
          /\ [d.parent_comp EXCEPT ![o] = NoComp] \in [Objs -> Objs \cup {NoComp, Freed}]
      BY <1>1, <1>3, <2>1 DEF DbType
    <3> QED
      BY <1>1, <2>2, <3>1 DEF DbType
  <2>5. Links(e) /\ Extends(d, e)
    BY <1>1, <2>3 DEF Links, Extends, Present
  <2>6. \A x, y \in Objs : y \in e.top_depend[x] \cup e.bottom_depend[x]
                            => y # o /\ y \in d.top_depend[x] \cup d.bottom_depend[x]
    BY <1>1, <1>3, <2>3 DEF Boundary, DbType
  <2>7. Boundary(e) /\ Bare(e)
    BY <1>1, <1>3, <2>3, <2>6 DEF Boundary, Bare, DbType
  <2> QED
    BY <1>1, <1>3, <2>3, <2>4, <2>5, <2>6, <2>7 DEF Sound, DbType, e
<1> QED
  BY <1>2, <1>3

(* Creating a name that the database has not.                              *)
LEMMA CreateSound ==
  ASSUME NEW d, Sound(d), NEW o \in Objs, d.type[o] = "absent",
         NEW t \in Types \ {"absent"}
  PROVE  Sound(Create(d, o, t)) /\ Extends(d, Create(d, o, t)) /\ o \in Present(Create(d, o, t))
<1> DEFINE n == [d EXCEPT !.type[o] = t]
           l == Link(n, System, o)
           added == IF t = "NONE" THEN {} ELSE {o}
           e == Create(d, o, t)
<1>1. d \in DbType /\ Links(d) /\ Boundary(d) /\ Bare(d)
  BY DEF Sound
<1>2. System \in Objs /\ NoComp \notin Objs
  BY ObjsAssumption
<1>3. /\ n.type = [d.type EXCEPT ![o] = t]
      /\ n.child_depend = d.child_depend /\ n.parent_depend = d.parent_depend
      /\ n.top_depend = d.top_depend /\ n.bottom_depend = d.bottom_depend
      /\ n.parent_comp = d.parent_comp /\ n.comps = d.comps
  BY <1>1 DEF DbType
<1>4. Sound(n) /\ Extends(d, n) /\ n.type[o] = t
  <2>1. n \in DbType
    BY <1>1 DEF DbType
  <2>2. Links(n) /\ Extends(d, n) /\ Boundary(n) /\ Bare(n) /\ n.type[o] = t
    BY <1>1, <1>3 DEF Links, Extends, Boundary, Bare, Present, DbType
  <2> QED
    BY <2>1, <2>2 DEF Sound
<1>5. \A x \in Objs : o \notin n.top_depend[x] \cup n.bottom_depend[x]
  BY <1>1, <1>2, <1>3 DEF Boundary, Bare
<1>6. Sound(l) /\ Extends(n, l)
  BY <1>2, <1>4, <1>5, LinkSound DEF Types
<1>7. l.parent_comp[o] = System /\ l.type[o] = t
  BY <1>1, <1>2, <1>3 DEF Link, DbType
<1>8. e = [l EXCEPT !.top_depend[System] = l.top_depend[System] \cup added,
                    !.bottom_depend[System] = l.bottom_depend[System] \cup added]
  BY DEF Create
<1> HIDE DEF n, l, e
<1>9. l \in DbType /\ Links(l) /\ Boundary(l) /\ Bare(l)
  BY <1>6 DEF Sound
<1>10. /\ e.type = l.type /\ e.parent_comp = l.parent_comp
       /\ e.child_depend = l.child_depend /\ e.parent_depend = l.parent_depend
       /\ e.top_depend = [l.top_depend EXCEPT ![System] = l.top_depend[System] \cup added]
       /\ e.bottom_depend = [l.bottom_depend EXCEPT ![System] = l.bottom_depend[System] \cup added]
  BY <1>8, <1>9 DEF DbType
<1>11. e \in DbType
  <2>1. /\ [l.top_depend EXCEPT ![System] = l.top_depend[System] \cup added]
             \in [Objs -> SUBSET Objs]
        /\ [l.bottom_depend EXCEPT ![System] = l.bottom_depend[System] \cup added]
             \in [Objs -> SUBSET Objs]
    BY <1>2, <1>9 DEF DbType
  <2> QED
    BY <1>8, <1>9, <2>1 DEF DbType
<1>12. Links(e) /\ Bare(e)
  BY <1>9, <1>10 DEF Links, Bare
<1>13. Boundary(e)
  BY <1>2, <1>7, <1>9, <1>10 DEF Boundary, DbType
<1>14. Extends(d, e) /\ o \in Present(e)
  BY <1>4, <1>6, <1>7, <1>10 DEF Extends, Present, Types
<1> QED
  BY <1>11, <1>12, <1>13, <1>14 DEF Sound, e

(* Giving a forward reference its type.                                    *)
LEMMA ConvertSound ==
  ASSUME NEW d, Sound(d), NEW o \in Objs, d.type[o] = "NONE",
         NEW t \in Types \ {"absent"}
  PROVE  Sound(Convert(d, o, t)) /\ Extends(d, Convert(d, o, t))
<1> DEFINE u == Unlink(d, o)
           n == [u EXCEPT !.type[o] = t]
           c == d.parent_comp[o]
<1>1. /\ Sound(u) /\ Extends(d, u)
      /\ \A x \in Objs : o \notin u.top_depend[x] \cup u.bottom_depend[x]
      /\ u.type = d.type
  BY UnlinkSound
<1>2. c \in Objs \cup {NoComp, Freed}
  BY DEF Sound, DbType
<1> HIDE DEF u
<1>3. u \in DbType /\ Links(u) /\ Boundary(u) /\ Bare(u)
  BY <1>1 DEF Sound
<1>4. /\ n.type = [u.type EXCEPT ![o] = t]
      /\ n.child_depend = u.child_depend /\ n.parent_depend = u.parent_depend
      /\ n.top_depend = u.top_depend /\ n.bottom_depend = u.bottom_depend
      /\ n.parent_comp = u.parent_comp /\ n.comps = u.comps
  BY <1>3 DEF DbType
<1>5. Sound(n) /\ Extends(u, n) /\ n.type[o] = t
  <2>1. n \in DbType
    BY <1>3 DEF DbType
  <2>2. n.type[o] = t /\ \A x \in Objs : x # o => n.type[x] = u.type[x]
    BY <1>3, <1>4 DEF DbType
  <2>3. Links(n) /\ Extends(u, n) /\ Boundary(n) /\ Bare(n)
    BY <1>3, <1>4, <2>2 DEF Links, Extends, Boundary, Bare, Present
  <2> QED
    BY <2>1, <2>2, <2>3 DEF Sound
<1>6. \A x \in Objs : o \notin n.top_depend[x] \cup n.bottom_depend[x]
  BY <1>1, <1>4
<1> HIDE DEF n
<1>7. Sound(Link(n, c, o)) /\ Extends(n, Link(n, c, o))
  BY <1>2, <1>5, <1>6, LinkSound
<1>8. Convert(d, o, t) = Link(n, c, o)
  BY DEF Convert, n, u
<1> QED
  BY <1>1, <1>5, <1>7, <1>8 DEF Extends

(* Looking a name up, creating it if need be.                              *)
LEMMA GetOrCreateSound ==
  ASSUME NEW d, Sound(d), NEW o \in Objs, NEW t \in Types \ {"absent"}
  PROVE  Sound(GetOrCreate(d, o, t)) /\ Extends(d, GetOrCreate(d, o, t))
<1>1. CASE d.type[o] = "absent"
  BY <1>1, CreateSound DEF GetOrCreate
<1>2. CASE d.type[o] = "NONE" /\ t # "NONE"
  <2>1. GetOrCreate(d, o, t) = Convert(d, o, t)
    BY <1>2 DEF GetOrCreate
  <2> QED
    BY <1>2, <2>1, ConvertSound
<1>3. CASE d.type[o] # "absent" /\ ~(d.type[o] = "NONE" /\ t # "NONE")
  <2>1. GetOrCreate(d, o, t) = d
    BY <1>3 DEF GetOrCreate
  <2> QED
    BY <2>1 DEF Extends
<1> QED
  BY <1>1, <1>2, <1>3

(* The same for a name that is looked up with any type.                    *)
LEMMA GetAnySound ==
  ASSUME NEW d, Sound(d), NEW o \in Objs
  PROVE  Sound(GetAny(d, o)) /\ Extends(d, GetAny(d, o)) /\ o \in Present(GetAny(d, o))
<1>1. CASE d.type[o] = "absent"
  BY <1>1, CreateSound DEF GetAny, Types
<1>2. CASE d.type[o] # "absent"
  BY <1>2 DEF GetAny, Extends, Present
<1> QED
  BY <1>1, <1>2

(* Moving an object into a component.                                      *)
LEMMA ContainSound ==
  ASSUME NEW d, Sound(d), NEW c \in Objs, NEW o \in Present(d), d.parent_comp[o] # Freed
  PROVE  Sound(Contain(d, c, o)) /\ Extends(d, Contain(d, c, o))
<1> DEFINE u == Unlink(d, o)
           l == Link(u, c, o)
           e == Contain(d, c, o)
<1>1. /\ Sound(u) /\ Extends(d, u) /\ u.type = d.type
      /\ \A x \in Objs : o \notin u.top_depend[x] \cup u.bottom_depend[x]
  BY UnlinkSound DEF Present
<1> HIDE DEF u
<1>2. o \in Objs /\ u.type[o] # "absent"
  BY <1>1 DEF Present
<1>3. Sound(l) /\ Extends(u, l)
  BY <1>1, <1>2, LinkSound
<1>4. l.parent_comp[o] = c
  BY <1>1, <1>2 DEF Sound, Link, DbType
<1>5. \E T, B \in SUBSET {o} :
        e = [l EXCEPT !.top_depend[c] = l.top_depend[c] \cup T,
                      !.bottom_depend[c] = l.bottom_depend[c] \cup B]
  <2> DEFINE above == ~OnBoundary(l, o) \/ FoundComp(l, l.parent_depend[o], c)
             below == ~OnBoundary(l, o) \/ FoundComp(l, l.child_depend[o], c)
  <2>1. e = [l EXCEPT !.top_depend[c] = l.top_depend[c] \cup (IF above THEN {} ELSE {o}),
                      !.bottom_depend[c] = l.bottom_depend[c] \cup (IF below THEN {} ELSE {o})]
    BY DEF Contain, u
  <2> HIDE DEF e, l, above, below
  <2> QED
    BY <2>1
<1> HIDE DEF l, e
<1>6. PICK T, B \in SUBSET {o} :
        e = [l EXCEPT !.top_depend[c] = l.top_depend[c] \cup T,
                      !.bottom_depend[c] = l.bottom_depend[c] \cup B]
  BY <1>5
<1>7. l \in DbType /\ Links(l) /\ Boundary(l) /\ Bare(l)
  BY <1>3 DEF Sound
<1>8. /\ e.type = l.type /\ e.parent_comp = l.parent_comp
      /\ e.child_depend = l.child_depend /\ e.parent_depend = l.parent_depend
      /\ e.top_depend = [l.top_depend EXCEPT ![c] = l.top_depend[c] \cup T]
      /\ e.bottom_depend = [l.bottom_depend EXCEPT ![c] = l.bottom_depend[c] \cup B]
  BY <1>6, <1>7 DEF DbType
<1>9. e \in DbType
  <2>1. /\ [l.top_depend EXCEPT ![c] = l.top_depend[c] \cup T] \in [Objs -> SUBSET Objs]
        /\ [l.bottom_depend EXCEPT ![c] = l.bottom_depend[c] \cup B] \in [Objs -> SUBSET Objs]
    BY <1>2, <1>7 DEF DbType
  <2> QED
    BY <1>6, <1>7, <2>1 DEF DbType
<1>10. Links(e) /\ Bare(e) /\ Extends(d, e)
  BY <1>1, <1>3, <1>7, <1>8 DEF Links, Bare, Extends, Present
<1>11. Boundary(e)
  BY <1>4, <1>7, <1>8 DEF Boundary, DbType
<1> QED
  BY <1>9, <1>10, <1>11 DEF Sound, e

(* Deleting an object: it takes its links with it, and what it contained   *)
(* is no longer on a boundary of its own.                                  *)
LEMMA RemoveSound ==
  ASSUME NEW d, Sound(d), NEW o \in Objs \ {System}, d.parent_comp[o] # Freed, NEW order
  PROVE  LET e == RemoveObj(d, o, order)
         IN  /\ Sound(e)
             /\ e.child_depend = [x \in Objs |-> IF x = o THEN {} ELSE d.child_depend[x] \ {o}]
             /\ e.parent_depend = [x \in Objs |-> IF x = o THEN {} ELSE d.parent_depend[x] \ {o}]
<1> DEFINE u == Unlink(d, o)
           out == Forget(u, o)
           M == Moved(out, o)
           left == MoveToSystem(out, M, order)
           e == RemoveObj(d, o, order)
<1>1. /\ Sound(u) /\ Extends(d, u) /\ u.parent_comp[o] = NoComp
      /\ \A x \in Objs : o \notin u.top_depend[x] \cup u.bottom_depend[x]
  <2>1. d.parent_comp[o] \in Objs \cup {NoComp}
    BY DEF Sound, DbType
  <2>2. ASSUME d.parent_comp[o] \notin Objs PROVE d.parent_comp[o] = NoComp
    BY <2>1, <2>2
  <2> QED
    BY <2>2, UnlinkSound
<1> HIDE DEF u
<1>2. u \in DbType /\ Links(u) /\ Boundary(u) /\ Bare(u)
  BY <1>1 DEF Sound
<1>3. /\ out.type = u.type /\ out.parent_comp = u.parent_comp /\ out.comps = u.comps
      /\ out.top_depend = u.top_depend /\ out.bottom_depend = u.bottom_depend
      /\ out.child_depend = [x \in Objs |-> IF x = o THEN {} ELSE u.child_depend[x] \ {o}]
      /\ out.parent_depend = [x \in Objs |-> IF x = o THEN {} ELSE u.parent_depend[x] \ {o}]
  BY <1>2 DEF Forget, DbType
<1>4. out \in DbType
  BY <1>2 DEF Forget, DbType
<1>5. M = {x \in Objs : out.parent_comp[x] = o /\ out.type[x] # "COMP"}
  BY DEF Moved, Members
<1> HIDE DEF out, M
<1>6. PICK T, B \in SUBSET M :
        left = [out EXCEPT
          !.parent_comp = [x \in Objs |-> IF x \in M THEN System ELSE out.parent_comp[x]],
          !.top_depend[System] = out.top_depend[System] \cup T,
          !.bottom_depend[System] = out.bottom_depend[System] \cup B]
  <2> DEFINE there(x, m) == out.parent_comp[x] = System \/ (x \in M /\ order[x] < order[m])
             rules == {m \in M : out.type[m] = "RULE"}
             T == {m \in rules : \A x \in out.parent_depend[m] : ~there(x, m)}
             B == {m \in rules : \A x \in out.child_depend[m] : ~there(x, m)}
  <2>1. left = [out EXCEPT
          !.parent_comp = [x \in Objs |-> IF x \in M THEN System ELSE out.parent_comp[x]],
          !.top_depend[System] = out.top_depend[System] \cup T,
          !.bottom_depend[System] = out.bottom_depend[System] \cup B]
    BY DEF MoveToSystem
  <2>2. T \in SUBSET M /\ B \in SUBSET M
    OBVIOUS
  <2> HIDE DEF T, B, left
  <2> QED
    BY <2>1, <2>2
<1> HIDE DEF left
<1>7. /\ left.type = out.type /\ left.comps = out.comps
      /\ left.child_depend = out.child_depend /\ left.parent_depend = out.parent_depend
      /\ left.top_depend = [out.top_depend EXCEPT ![System] = out.top_depend[System] \cup T]
      /\ left.bottom_depend =
           [out.bottom_depend EXCEPT ![System] = out.bottom_depend[System] \cup B]
      /\ left.parent_comp = [x \in Objs |-> IF x \in M THEN System ELSE out.parent_comp[x]]
  BY <1>4, <1>6 DEF DbType
<1>8. left \in DbType
  <2>1. /\ left.top_depend \in [Objs -> SUBSET Objs] /\ left.bottom_depend \in [Objs -> SUBSET Objs]
        /\ left.parent_comp \in [Objs -> Objs \cup {NoComp, Freed}]
    BY <1>4, <1>5, <1>7, ObjsAssumption DEF DbType
  <2> QED
    BY <1>4, <1>6, <1>7, <2>1 DEF DbType
<1>9. e = [left EXCEPT
        !.type[o] = "absent",
        !.parent_comp = [x \in Objs |-> IF left.parent_comp[x] = o THEN Freed
                                        ELSE left.parent_comp[x]],
        !.comps[o] = << >>, !.top_depend[o] = {}, !.bottom_depend[o] = {}]
  BY DEF RemoveObj, left, M, out, u
<1> HIDE DEF e
<1>10. /\ e.type = [left.type EXCEPT ![o] = "absent"]
       /\ e.comps = [left.comps EXCEPT ![o] = << >>]
       /\ e.child_depend = left.child_depend /\ e.parent_depend = left.parent_depend
       /\ e.top_depend = [left.top_depend EXCEPT ![o] = {}]
       /\ e.bottom_depend = [left.bottom_depend EXCEPT ![o] = {}]
       /\ e.parent_comp = [x \in Objs |-> IF left.parent_comp[x] = o THEN Freed
                                          ELSE left.parent_comp[x]]
  BY <1>8, <1>9 DEF DbType
<1>11. e \in DbType
  <2>1. e.type \in [Objs -> Types]
    BY <1>8, <1>10 DEF DbType, Types
  <2>2. e.comps \in [Objs -> Seq(Objs)]
    BY <1>8, <1>10 DEF DbType
  <2>3. /\ e.top_depend \in [Objs -> SUBSET Objs] /\ e.bottom_depend \in [Objs -> SUBSET Objs]
        /\ e.parent_comp \in [Objs -> Objs \cup {NoComp, Freed}]
    BY <1>8, <1>10 DEF DbType
  <2> QED
    BY <1>8, <1>9, <1>10, <2>1, <2>2, <2>3 DEF DbType
<1>12. \A x \in Objs : e.type[x] = IF x = o THEN "absent" ELSE u.type[x]
  BY <1>2, <1>3, <1>7, <1>8, <1>10 DEF DbType
<1>13. Links(e)
  <2>1. \A x \in Objs :
          /\ e.child_depend[x] = (IF x = o THEN {} ELSE u.child_depend[x] \ {o})
          /\ e.parent_depend[x] = (IF x = o THEN {} ELSE u.parent_depend[x] \ {o})
    BY <1>3, <1>7, <1>10
  <2>2. \A x \in Objs : u.child_depend[x] \subseteq Objs /\ u.parent_depend[x] \subseteq Objs
    BY <1>2 DEF DbType
  <2>3. ASSUME NEW x \in Objs, NEW y \in e.child_depend[x] PROVE x \in e.parent_depend[y]
    <3>1. x # o /\ y # o /\ y \in Objs /\ y \in u.child_depend[x]
      BY <2>1, <2>2, <2>3
    <3>2. x \in u.parent_depend[y]
      BY <1>2, <3>1 DEF Links
    <3> QED
      BY <2>1, <3>1, <3>2
  <2>4. ASSUME NEW x \in Objs, NEW y \in e.parent_depend[x] PROVE x \in e.child_depend[y]
    <3>1. x # o /\ y # o /\ y \in Objs /\ y \in u.parent_depend[x]
      BY <2>1, <2>2, <2>4
    <3>2. x \in u.child_depend[y]
      BY <1>2, <3>1 DEF Links
    <3> QED
      BY <2>1, <3>1, <3>2
  <2>5. \A x \in Objs : e.type[x] = "absent" => e.child_depend[x] = {} /\ e.parent_depend[x] = {}
    <3> SUFFICES ASSUME NEW x \in Objs, e.type[x] = "absent"
                 PROVE  e.child_depend[x] = {} /\ e.parent_depend[x] = {}
      OBVIOUS
    <3>1. CASE x = o
      BY <2>1, <3>1
    <3>2. CASE x # o
      <4>1. u.child_depend[x] = {} /\ u.parent_depend[x] = {}
        BY <1>2, <1>12, <3>2 DEF Links
      <4> QED
        BY <2>1, <3>2, <4>1
    <3> QED
      BY <3>1, <3>2
  <2> QED
    BY <2>3, <2>4, <2>5 DEF Links
<1>14. Boundary(e)
  <2> SUFFICES ASSUME NEW c \in Objs, NEW x \in Objs,
                      x \in e.top_depend[c] \cup e.bottom_depend[c]
               PROVE  e.parent_comp[x] = c
    BY DEF Boundary
  <2>1. c # o /\ x \in left.top_depend[c] \cup left.bottom_depend[c]
    BY <1>8, <1>10 DEF DbType
  <2>2. left.parent_comp[x] = c
    <3>1. CASE x \in out.top_depend[c] \cup out.bottom_depend[c]
      <4>1. out.parent_comp[x] = c
        BY <1>2, <1>3, <3>1 DEF Boundary
      <4> QED
        BY <1>5, <1>7, <2>1, <4>1
    <3>2. CASE x \notin out.top_depend[c] \cup out.bottom_depend[c]
      BY <1>4, <1>7, <2>1, <3>2 DEF DbType
    <3> QED
      BY <3>1, <3>2
  <2> QED
    BY <1>10, <2>1, <2>2
<1>15. Bare(e)
  <2> SUFFICES ASSUME NEW x \in Objs, e.type[x] = "absent"
               PROVE  e.parent_comp[x] = NoComp
    BY DEF Bare
  <2>1. u.parent_comp[x] = NoComp
    BY <1>1, <1>2, <1>12 DEF Bare
  <2>2. x \notin M
    BY <1>3, <1>5, <2>1, ObjsAssumption
  <2> QED
    BY <1>3, <1>7, <1>10, <2>1, <2>2, ObjsAssumption
<1> QED
  BY <1>1, <1>3, <1>7, <1>10, <1>11, <1>13, <1>14, <1>15 DEF Sound, Extends, e

(* Connecting two objects.                                                 *)
LEMMA ConnectSound ==
  ASSUME NEW d, Sound(d), NEW p \in Present(d), NEW c \in Present(d)
  PROVE  LET e == Connect(d, p, c)
         IN  /\ Sound(e)
             /\ e.child_depend = [d.child_depend EXCEPT ![p] = d.child_depend[p] \cup {c}]
             /\ e.parent_depend = [d.parent_depend EXCEPT ![c] = d.parent_depend[c] \cup {p}]
<1> DEFINE e == Connect(d, p, c)
           comp == d.parent_comp[p]
           l == [d EXCEPT !.child_depend[p] = d.child_depend[p] \cup {c},
                          !.parent_depend[c] = d.parent_depend[c] \cup {p}]
<1>1. d \in DbType /\ Links(d) /\ Boundary(d) /\ Bare(d) /\ p \in Objs /\ c \in Objs
  BY DEF Sound, Present
<1>2. /\ l.type = d.type /\ l.parent_comp = d.parent_comp
      /\ l.top_depend = d.top_depend /\ l.bottom_depend = d.bottom_depend
      /\ l.child_depend = [d.child_depend EXCEPT ![p] = d.child_depend[p] \cup {c}]
      /\ l.parent_depend = [d.parent_depend EXCEPT ![c] = d.parent_depend[c] \cup {p}]
  BY <1>1 DEF DbType
<1>3. l \in DbType
  <2>1. /\ l.child_depend \in [Objs -> SUBSET Objs] /\ l.parent_depend \in [Objs -> SUBSET Objs]
    BY <1>1, <1>2 DEF DbType
  <2> QED
    BY <1>1, <1>2, <2>1 DEF DbType
<1>4. Links(l)
  BY <1>1, <1>2 DEF Links, Present, DbType
<1>5. Boundary(l) /\ Bare(l)
  BY <1>1, <1>2 DEF Boundary, Bare
<1>6. CASE ~(comp \in Objs /\ comp = d.parent_comp[c])
  <2>1. e = l
    BY <1>6 DEF Connect
  <2> HIDE DEF l, e
  <2> QED
    BY <1>2, <1>3, <1>4, <1>5, <2>1 DEF Sound, e
<1>7. CASE comp \in Objs /\ comp = d.parent_comp[c]
  <2>1. e = [l EXCEPT !.top_depend[comp] = d.top_depend[comp] \ {c},
                      !.bottom_depend[comp] = d.bottom_depend[comp] \ {p}]
    BY <1>7 DEF Connect
  <2> HIDE DEF l, e
  <2>2. /\ e.type = l.type /\ e.parent_comp = l.parent_comp
        /\ e.child_depend = l.child_depend /\ e.parent_depend = l.parent_depend
        /\ e.top_depend = [l.top_depend EXCEPT ![comp] = d.top_depend[comp] \ {c}]
        /\ e.bottom_depend = [l.bottom_depend EXCEPT ![comp] = d.bottom_depend[comp] \ {p}]
    BY <1>3, <2>1 DEF DbType
  <2>3. e \in DbType
    <3>1. /\ d.top_depend[comp] \subseteq Objs /\ d.bottom_depend[comp] \subseteq Objs
      BY <1>1, <1>7 DEF DbType
    <3>2. /\ e.top_depend \in [Objs -> SUBSET Objs] /\ e.bottom_depend \in [Objs -> SUBSET Objs]
      <4>1. l.top_depend \in [Objs -> SUBSET Objs] /\ l.bottom_depend \in [Objs -> SUBSET Objs]
        BY <1>3 DEF DbType
      <4>2. /\ [l.top_depend EXCEPT ![comp] = d.top_depend[comp] \ {c}] \in [Objs -> SUBSET Objs]
            /\ [l.bottom_depend EXCEPT ![comp] = d.bottom_depend[comp] \ {p}]
                 \in [Objs -> SUBSET Objs]
        BY <3>1, <4>1
      <4> QED
        BY <2>2, <4>2
    <3> QED
      BY <1>3, <2>1, <2>2, <3>2 DEF DbType
  <2>4. Links(e) /\ Bare(e)
    BY <1>4, <1>5, <2>2 DEF Links, Bare
  <2>5. Boundary(e)
    BY <1>2, <1>3, <1>5, <1>7, <2>2 DEF Boundary, DbType
  <2> QED
    BY <1>2, <2>2, <2>3, <2>4, <2>5 DEF Sound, e
<1> QED
  BY <1>6, <1>7

-----------------------------------------------------------------------------
(* Loops within a domain                                                   *)

(* The links child within the domains dom close no loop: from no y below x *)
(* can x be reached.                                                       *)
InsideOf(child, dom, x) == {y \in child[x] : dom[y] = dom[x]}
NoLoop(child, dom) ==
  \A x \in Objs : \A y \in InsideOf(child, dom, x) :
    \E S \in SUBSET Objs :
      y \in S /\ x \notin S /\ \A z \in S : InsideOf(child, dom, z) \subseteq S

(* dom2 differs from dom for objects with no links only.                   *)
SameOnLinks(child, dom, dom2) ==
  \A x \in Objs : \A y \in child[x] : dom2[x] = dom[x] /\ dom2[y] = dom[y]

(* One more link, from p to c, closes no loop if there is a closed set T   *)
(* that holds c and not p.                                                 *)
LEMMA NoLoopAdd ==
  ASSUME NEW child \in [Objs -> SUBSET Objs], NEW dom, NEW dom2,
         NEW p \in Objs, NEW c \in Objs, NEW T \in SUBSET Objs,
         NoLoop(child, dom), SameOnLinks(child, dom, dom2),
         c \in T, p \notin T, \A z \in T : child[z] \subseteq T
  PROVE  NoLoop([child EXCEPT ![p] = child[p] \cup {c}], dom2)
<1> DEFINE more == [child EXCEPT ![p] = child[p] \cup {c}]
           In(z) == InsideOf(child, dom, z)
           In2(z) == InsideOf(more, dom2, z)
<1>1. \A z \in Objs : In2(z) \subseteq In(z) \cup (IF z = p THEN {c} ELSE {})
  BY DEF InsideOf, SameOnLinks
<1>2. \A z \in T : In(z) \subseteq T /\ In2(z) \subseteq T
  BY <1>1 DEF InsideOf
<1> SUFFICES ASSUME NEW x \in Objs, NEW y \in In2(x)
             PROVE  \E S \in SUBSET Objs : y \in S /\ x \notin S /\ \A z \in S : In2(z) \subseteq S
  BY DEF NoLoop
<1>3. CASE y \notin In(x)
  <2>1. x = p /\ y = c
    BY <1>1, <1>3
  <2> QED
    BY <1>2, <2>1
<1>4. CASE y \in In(x)
  <2>1. PICK S \in SUBSET Objs : y \in S /\ x \notin S /\ \A z \in S : In(z) \subseteq S
    BY <1>4 DEF NoLoop
  <2> HIDE DEF In, In2
  <2>2. CASE x \in T
    <3>1. y \in S \cap T /\ x \notin S \cap T
      BY <1>2, <1>4, <2>1, <2>2
    <3>2. \A z \in S \cap T : In2(z) \subseteq S \cap T
      BY <1>1, <1>2, <2>1
    <3> QED
      BY <3>1, <3>2
  <2>3. CASE x \notin T
    <3>1. y \in S \cup T /\ x \notin S \cup T
      BY <2>1, <2>3
    <3>2. \A z \in S \cup T : In2(z) \subseteq S \cup T
      BY <1>1, <1>2, <2>1
    <3> QED
      BY <3>1, <3>2
  <2> QED
    BY <2>2, <2>3
<1> QED
  BY <1>3, <1>4

(* Fewer links close no loop.                                              *)
LEMMA NoLoopFewer ==
  ASSUME NEW child, NEW dom, NEW less, NEW dom2, NoLoop(child, dom),
         \A x \in Objs : InsideOf(less, dom2, x) \subseteq InsideOf(child, dom, x)
  PROVE  NoLoop(less, dom2)
<1> SUFFICES ASSUME NEW x \in Objs, NEW y \in InsideOf(less, dom2, x)
             PROVE  \E S \in SUBSET Objs : /\ y \in S /\ x \notin S
                                           /\ \A z \in S : InsideOf(less, dom2, z) \subseteq S
  BY DEF NoLoop
<1>1. PICK S \in SUBSET Objs : /\ y \in S /\ x \notin S
                               /\ \A z \in S : InsideOf(child, dom, z) \subseteq S
  BY DEF NoLoop
<1> QED
  BY <1>1

-----------------------------------------------------------------------------
(* The inductive invariant                                                 *)

DomainsType ==
  /\ next_domain \in 1..(MaxDomains + 1)
  /\ domain \in [Objs -> 0..(next_domain - 1)]
  /\ reachable \in [1..MaxDomains -> SUBSET (1..(next_domain - 1))]
  /\ fate \in {"up", "hung", "broken"}

(* An object that was in no dependency yet is in no domain, and the other  *)
(* way round.                                                              *)
UnlinkedOutside(d) ==
  \A x \in Objs : domain[x] = 0 => d.child_depend[x] = {} /\ d.parent_depend[x] = {}

IInv ==
  /\ Sound(db)
  /\ DomainsType
  /\ UnlinkedOutside(db)
  /\ NoLoop(db.child_depend, domain)

(* The invariant gives the properties of the runs.                         *)
LEMMA IInvGives ==
  ASSUME IInv PROVE TypeOK /\ LinksAgree /\ BoundaryIsInside /\ LoopsCrossDomains
<1>1. TypeOK /\ LinksAgree
  BY DEF IInv, Sound, DomainsType, TypeOK, Links, LinksAgree
<1>2. BoundaryIsInside
  BY DEF IInv, Sound, Boundary, BoundaryIsInside, Members, DbType
<1>3. LoopsCrossDomains
  BY DEF IInv, NoLoop, InsideOf, LoopsCrossDomains, InTreeInside, Inside
<1> QED
  BY <1>1, <1>2, <1>3

(* The state before anything is created.                                   *)
LEMMA InitIInv == Init => IInv
<1> SUFFICES ASSUME Init PROVE IInv
  OBVIOUS
<1> USE ObjsAssumption, DependenciesAssumption
<1>1. /\ db.type = [o \in Objs |-> IF o = System THEN "COMP" ELSE "absent"]
      /\ db.parent_comp = [o \in Objs |-> NoComp]
      /\ db.child_depend = [o \in Objs |-> {}] /\ db.parent_depend = [o \in Objs |-> {}]
      /\ db.top_depend = [o \in Objs |-> {}] /\ db.bottom_depend = [o \in Objs |-> {}]
  BY DEF Init, EmptyDb
<1>2. db \in DbType
  <2>1. [o \in Objs |-> << >>] \in [Objs -> Seq(Objs)]
    OBVIOUS
  <2> QED
    BY <2>1 DEF Init, EmptyDb, DbType, Types
<1>3. Sound(db)
  BY <1>1, <1>2 DEF Sound, Links, Boundary, Bare
<1>4. DomainsType
  BY DEF Init, DomainsType
<1>5. UnlinkedOutside(db) /\ NoLoop(db.child_depend, domain)
  BY <1>1 DEF UnlinkedOutside, NoLoop, InsideOf
<1> QED
  BY <1>3, <1>4, <1>5 DEF IInv

(* A step that keeps the links and the domains keeps the invariant.        *)
LEMMA SameLinksStep ==
  ASSUME IInv, Sound(db'), Extends(db, db'), UNCHANGED domainVars,
         fate' \in {"up", "hung", "broken"}
  PROVE  IInv'
<1>1. domain' = domain /\ reachable' = reachable /\ next_domain' = next_domain
  BY DEF domainVars
<1>2. DomainsType'
  BY <1>1 DEF IInv, DomainsType
<1>3. UnlinkedOutside(db)' /\ NoLoop(db.child_depend, domain)'
  <2>1. db'.child_depend = db.child_depend /\ db'.parent_depend = db.parent_depend
    BY DEF Extends
  <2>2. UnlinkedOutside(db)'
    BY <1>1, <2>1 DEF IInv, UnlinkedOutside
  <2>3. NoLoop(db'.child_depend, domain')
    BY <1>1, <2>1 DEF IInv
  <2> QED
    BY <2>2, <2>3
<1> QED
  BY <1>2, <1>3 DEF IInv

(* Creating.                                                               *)
LEMMA CreateStep == ASSUME IInv, NEW o \in Objs, CreateObj(o) PROVE IInv'
<1>1. Sound(db') /\ Extends(db, db')
  BY GetOrCreateSound DEF IInv, CreateObj, Kind, Types
<1> QED
  BY <1>1, SameLinksStep DEF CreateObj, IInv, DomainsType

(* Containing.                                                             *)
LEMMA ContainsStep ==
  ASSUME IInv, NEW p \in CompNames, NEW o \in Objs, CompContains(p, o) PROVE IInv'
<1> DEFINE g == GetOrCreate(db, p, "COMP")
           d == GetAny(g, o)
<1>1. p \in Objs
  BY ObjsAssumption
<1>2. Sound(g) /\ Extends(db, g)
  BY <1>1, GetOrCreateSound DEF IInv, Types
<1>3. Sound(d) /\ Extends(g, d) /\ o \in Present(d)
  BY <1>2, GetAnySound
<1> HIDE DEF g
<1>4. Extends(db, d)
  BY <1>2, <1>3 DEF Extends
<1>5. db' = d \/ (d.parent_comp[o] # Freed /\ db' = Contain(d, p, o))
  BY DEF CompContains, g
<1>6. UNCHANGED domainVars
  BY DEF CompContains
<1>7. fate' \in {"up", "hung", "broken"}
  BY DEF CompContains
<1> HIDE DEF d
<1>8. Sound(db') /\ Extends(db, db')
  <2>1. CASE db' = d
    BY <1>3, <1>4, <2>1
  <2>2. CASE d.parent_comp[o] # Freed /\ db' = Contain(d, p, o)
    <3>1. Sound(Contain(d, p, o)) /\ Extends(d, Contain(d, p, o))
      BY <1>1, <1>3, <2>2, ContainSound
    <3> QED
      BY <1>4, <2>2, <3>1 DEF Extends
  <2> QED
    BY <1>5, <2>1, <2>2
<1> QED
  BY <1>6, <1>7, <1>8, SameLinksStep

(* Deleting.                                                               *)
LEMMA DeleteStep == ASSUME IInv, NEW o \in Objs, DeleteObj(o) PROVE IInv'
<1>1. CASE db.parent_comp[o] = Freed
  <2>1. fate' = "broken" /\ db' = db /\ UNCHANGED domainVars
    BY <1>1 DEF DeleteObj, domainVars
  <2> QED
    BY <2>1, SameLinksStep DEF IInv, Extends
<1>2. CASE db.parent_comp[o] # Freed
  <2>1. PICK order : db' = RemoveObj(db, o, order)
    BY <1>2 DEF DeleteObj
  <2>2. /\ domain' = [domain EXCEPT ![o] = 0] /\ fate' = fate
        /\ reachable' = reachable /\ next_domain' = next_domain /\ o \in Objs \ {System}
    BY <1>2, DependenciesAssumption DEF DeleteObj
  <2>3. /\ Sound(db')
        /\ db'.child_depend = [x \in Objs |-> IF x = o THEN {} ELSE db.child_depend[x] \ {o}]
        /\ db'.parent_depend = [x \in Objs |-> IF x = o THEN {} ELSE db.parent_depend[x] \ {o}]
    BY <1>2, <2>1, <2>2, RemoveSound DEF IInv
  <2>4. DomainsType'
    BY <2>2 DEF IInv, DomainsType
  <2>5. \A x \in Objs : domain'[x] = IF x = o THEN 0 ELSE domain[x]
    BY <2>2 DEF IInv, DomainsType
  <2>6. UnlinkedOutside(db)'
    BY <2>3, <2>5 DEF IInv, UnlinkedOutside
  <2>7. \A x \in Objs : db.child_depend[x] \subseteq Objs
    BY DEF IInv, Sound, DbType
  <2>8. \A x \in Objs : InsideOf(db'.child_depend, domain', x)
                          \subseteq InsideOf(db.child_depend, domain, x)
    BY <2>3, <2>5, <2>7 DEF InsideOf
  <2>9. NoLoop(db'.child_depend, domain')
    BY <2>8, NoLoopFewer DEF IInv
  <2> QED
    BY <2>3, <2>4, <2>6, <2>9 DEF IInv
<1> QED
  BY <1>1, <1>2

(* The database d that swdiag_depend_create works on, once both names are  *)
(* in it, and what is known of the dependency when it is not there yet.    *)
Working(d, p, c) ==
  /\ Sound(d) /\ Extends(db, d) /\ p \in Present(d) /\ c \in Present(d)
  /\ p \in Objs /\ c \in Objs /\ p # c

(* Two objects given one domain.                                           *)
LEMMA SameDomain ==
  ASSUME NEW n \in Nat, NEW m \in Nat, n <= m, NEW dom \in [Objs -> 0..n],
         NEW p, NEW c, NEW v \in 0..m
  PROVE  [dom EXCEPT ![p] = v, ![c] = v] \in [Objs -> 0..m]
<1>1. 0..n \subseteq 0..m
  OBVIOUS
<1>2. dom \in [Objs -> 0..m]
  BY <1>1
<1> QED
  BY <1>2

(* Objects that get their domain with their first link.                    *)
LEMMA InDomainStep ==
  ASSUME IInv, NEW d, NEW p, NEW c, Working(d, p, c), LinkInDomain(d, p, c),
         reachable' = reachable, fate' = fate
  PROVE  IInv'
<1> DEFINE pd == domain[p]
           cd == domain[c]
<1>1. /\ d.child_depend = db.child_depend /\ d.parent_depend = db.parent_depend
      /\ p \in Objs /\ c \in Objs /\ p # c
  BY DEF Working, Extends
<1>2. /\ db' = Connect(d, p, c)
      /\ Sound(db')
      /\ db'.child_depend = [db.child_depend EXCEPT ![p] = db.child_depend[p] \cup {c}]
      /\ db'.parent_depend = [db.parent_depend EXCEPT ![c] = db.parent_depend[c] \cup {p}]
  <2>1. db' = Connect(d, p, c)
    BY DEF LinkInDomain
  <2> QED
    BY <1>1, <2>1, ConnectSound DEF Working
<1>3. /\ db.child_depend \in [Objs -> SUBSET Objs] /\ db.parent_depend \in [Objs -> SUBSET Objs]
      /\ Links(db)
  BY DEF IInv, Sound, DbType
<1>4. /\ \A x \in Objs \ {p, c} : domain'[x] = domain[x]
      /\ pd # 0 => domain'[p] = pd
      /\ cd # 0 => domain'[c] = cd
      /\ domain'[p] # 0 /\ domain'[c] # 0
      /\ DomainsType'
  <2>1. /\ next_domain \in 1..(MaxDomains + 1) /\ MaxDomains \in Nat
        /\ domain \in [Objs -> 0..(next_domain - 1)]
    BY DependenciesAssumption DEF IInv, DomainsType
  <2>2. CASE /\ pd = 0 /\ cd = 0 /\ next_domain <= MaxDomains
             /\ domain' = [domain EXCEPT ![p] = next_domain, ![c] = next_domain]
             /\ next_domain' = next_domain + 1
    <3>1. next_domain' \in 1..(MaxDomains + 1) /\ next_domain # 0
      BY <2>1, <2>2
    <3>2. domain' \in [Objs -> 0..(next_domain' - 1)]
      <4>1. /\ next_domain - 1 \in Nat /\ next_domain' - 1 \in Nat
            /\ next_domain - 1 <= next_domain' - 1 /\ next_domain \in 0..(next_domain' - 1)
        BY <2>1, <2>2
      <4> QED
        BY <2>1, <2>2, <4>1, SameDomain
    <3>3. reachable' \in [1..MaxDomains -> SUBSET (1..(next_domain' - 1))]
      BY <2>1, <2>2 DEF IInv, DomainsType
    <3> QED
      BY <1>1, <2>1, <2>2, <3>1, <3>2, <3>3 DEF IInv, DomainsType
  <2>3. CASE /\ (pd = 0) # (cd = 0)
             /\ domain' = [domain EXCEPT ![p] = pd + cd, ![c] = pd + cd]
             /\ next_domain' = next_domain
    <3>1. pd \in 0..(next_domain - 1) /\ cd \in 0..(next_domain - 1)
      BY <1>1, <2>1
    <3>2. \/ pd = 0 /\ cd # 0 /\ pd + cd = cd
          \/ cd = 0 /\ pd # 0 /\ pd + cd = pd
      BY <2>1, <2>3, <3>1
    <3>3. pd + cd \in 1..(next_domain - 1)
      BY <2>1, <3>1, <3>2
    <3>4. domain' \in [Objs -> 0..(next_domain - 1)]
      <4>1. next_domain - 1 \in Nat /\ pd + cd \in 0..(next_domain - 1)
        BY <2>1, <3>3
      <4> QED
        BY <2>1, <2>3, <4>1, SameDomain
    <3> QED
      BY <1>1, <2>1, <2>3, <3>2, <3>3, <3>4 DEF IInv, DomainsType
  <2>4. CASE pd # 0 /\ pd = cd /\ UNCHANGED <<domain, next_domain>>
    BY <2>4 DEF IInv, DomainsType
  <2> QED
    BY <2>2, <2>3, <2>4 DEF LinkInDomain
<1>5. SameOnLinks(db.child_depend, domain, domain')
  <2> SUFFICES ASSUME NEW x \in Objs, NEW y \in db.child_depend[x]
               PROVE  domain'[x] = domain[x] /\ domain'[y] = domain[y]
    BY DEF SameOnLinks
  <2>1. y \in Objs /\ x \in db.parent_depend[y]
    BY <1>3 DEF Links
  <2>2. domain[x] # 0 /\ domain[y] # 0
    BY <2>1 DEF IInv, UnlinkedOutside
  <2> QED
    BY <1>1, <1>4, <2>1, <2>2
<1>6. \E T \in SUBSET Objs : c \in T /\ p \notin T /\ \A z \in T : db.child_depend[z] \subseteq T
  <2>1. CASE pd = 0
    <3>1. \A z \in Objs : p \notin db.child_depend[z]
      BY <1>1, <1>3, <2>1 DEF IInv, UnlinkedOutside, Links
    <3>2. \A z \in Objs \ {p} : db.child_depend[z] \subseteq Objs \ {p}
      BY <1>3, <3>1
    <3> QED
      BY <1>1, <3>2
  <2>2. CASE cd = 0
    <3>1. db.child_depend[c] = {}
      BY <1>1, <2>2 DEF IInv, UnlinkedOutside
    <3>2. \A z \in {c} : db.child_depend[z] \subseteq {c}
      BY <3>1
    <3> QED
      BY <1>1, <3>2
  <2>3. CASE ~InTree(d, p, c)
    BY <1>1, <2>3 DEF InTree, Closed
  <2> QED
    BY <2>1, <2>2, <2>3 DEF LinkInDomain
<1>7. NoLoop(db'.child_depend, domain')
  BY <1>1, <1>2, <1>3, <1>5, <1>6, NoLoopAdd DEF IInv
<1>8. UnlinkedOutside(db)'
  <2> SUFFICES ASSUME NEW x \in Objs, domain'[x] = 0
               PROVE  db'.child_depend[x] = {} /\ db'.parent_depend[x] = {}
    BY DEF UnlinkedOutside
  <2>1. x # p /\ x # c /\ domain[x] = 0
    BY <1>4
  <2> QED
    BY <1>1, <1>2, <1>3, <2>1 DEF IInv, UnlinkedOutside
<1> QED
  BY <1>2, <1>4, <1>7, <1>8 DEF IInv

(* Objects of two domains: the link is in neither.                         *)
LEMMA AcrossStep ==
  ASSUME IInv, NEW d, NEW p, NEW c, Working(d, p, c), LinkAcross(d, p, c), fate' = fate
  PROVE  IInv'
<1>1. /\ d.child_depend = db.child_depend /\ d.parent_depend = db.parent_depend
      /\ p \in Objs /\ c \in Objs /\ p # c
  BY DEF Working, Extends
<1>2. /\ db' = Connect(d, p, c) /\ domain' = domain /\ next_domain' = next_domain
      /\ domain[p] # 0 /\ domain[c] # 0 /\ domain[p] # domain[c]
      /\ reachable' = Scan(reachable, domain[p], domain[c], DOMAIN reachable)
  BY DEF LinkAcross
<1>3. /\ Sound(db')
      /\ db'.child_depend = [db.child_depend EXCEPT ![p] = db.child_depend[p] \cup {c}]
      /\ db'.parent_depend = [db.parent_depend EXCEPT ![c] = db.parent_depend[c] \cup {p}]
  BY <1>1, <1>2, ConnectSound DEF Working
<1>4. db.child_depend \in [Objs -> SUBSET Objs] /\ db.parent_depend \in [Objs -> SUBSET Objs]
  BY DEF IInv, Sound, DbType
<1>5. domain[c] \in 1..(next_domain - 1)
  BY <1>1, <1>2 DEF IInv, DomainsType
<1>6. DomainsType'
  BY <1>2, <1>5 DEF IInv, DomainsType, Scan
<1>7. UnlinkedOutside(db)'
  BY <1>1, <1>2, <1>3, <1>4 DEF IInv, UnlinkedOutside
<1>8. \A x \in Objs : InsideOf(db'.child_depend, domain', x)
                        \subseteq InsideOf(db.child_depend, domain, x)
  BY <1>1, <1>2, <1>3, <1>4 DEF InsideOf
<1>9. NoLoop(db'.child_depend, domain')
  BY <1>8, NoLoopFewer DEF IInv
<1> QED
  BY <1>3, <1>6, <1>7, <1>9 DEF IInv

(* A dependency that is refused leaves the links alone.                    *)
LEMMA RefuseStep ==
  ASSUME IInv, NEW d, NEW p, NEW c, Working(d, p, c), Refuse(d, p, c), fate' = fate
  PROVE  IInv'
<1>1. d.child_depend = db.child_depend /\ d.parent_depend = db.parent_depend
  BY DEF Working, Extends
<1>2. db' = d /\ domain' = domain /\ next_domain' = next_domain
  BY DEF Refuse
<1>3. Sound(db')
  BY <1>2 DEF Working
<1>4. DomainsType'
  <2>1. CASE reachable' = reachable
    BY <1>2, <2>1 DEF IInv, DomainsType
  <2>2. CASE reachable' # reachable
    <3>1. PICK scanned : reachable' = Undo(Scan(reachable, domain[p], domain[c], scanned),
                                           domain[p], domain[c])
      BY <2>2 DEF Refuse
    <3>2. domain[c] \in 1..(next_domain - 1)
      BY DEF Refuse, Walked, Working, IInv, DomainsType
    <3>3. reachable' \in [1..MaxDomains -> SUBSET (1..(next_domain - 1))]
      BY <3>1, <3>2 DEF IInv, DomainsType, Scan, Undo
    <3> QED
      BY <1>2, <3>3 DEF IInv, DomainsType
  <2> QED
    BY <2>1, <2>2
<1>5. UnlinkedOutside(db)' /\ NoLoop(db'.child_depend, domain')
  BY <1>1, <1>2 DEF IInv, UnlinkedOutside
<1> QED
  BY <1>3, <1>4, <1>5 DEF IInv

(* Depending.                                                              *)
LEMMA DependStep == ASSUME IInv, NEW p \in Objs, NEW c \in Objs, DependCreate(p, c) PROVE IInv'
<1> DEFINE g == GetAny(db, p)
           d == GetAny(g, c)
<1>1. Sound(g) /\ Extends(db, g) /\ p \in Present(g)
  BY GetAnySound DEF IInv
<1> HIDE DEF g
<1>2. Sound(d) /\ Extends(g, d) /\ c \in Present(d)
  BY <1>1, GetAnySound
<1> HIDE DEF d
<1>3. Extends(db, d) /\ p \in Present(d)
  BY <1>1, <1>2 DEF Extends
<1>4. CASE db' = d /\ UNCHANGED domainVars /\ fate' \in {"up", "hung", "broken"}
  BY <1>2, <1>3, <1>4, SameLinksStep
<1>5. CASE p # c /\ LinkInDomain(d, p, c) /\ UNCHANGED <<reachable, fate>>
  BY <1>2, <1>3, <1>5, InDomainStep DEF Working
<1>6. CASE p # c /\ LinkAcross(d, p, c) /\ UNCHANGED fate
  BY <1>2, <1>3, <1>6, AcrossStep DEF Working
<1>7. CASE p # c /\ Refuse(d, p, c) /\ UNCHANGED fate
  BY <1>2, <1>3, <1>7, RefuseStep DEF Working
<1> QED
  BY <1>4, <1>5, <1>6, <1>7 DEF DependCreate, g, d, IInv, DomainsType

(* Every step keeps the invariant.                                         *)
LEMMA NextIInv == IInv /\ [Next]_vars => IInv'
<1> SUFFICES ASSUME IInv, [Next]_vars PROVE IInv'
  OBVIOUS
<1>1. CASE UNCHANGED vars
  BY <1>1, SameLinksStep DEF vars, domainVars, IInv, Extends, DomainsType
<1>2. CASE \E o \in Objs : CreateObj(o) \/ DeleteObj(o)
  BY <1>2, CreateStep, DeleteStep
<1>3. CASE \E p \in CompNames, o \in Objs : CompContains(p, o)
  BY <1>3, ContainsStep
<1>4. CASE \E p, c \in Objs : DependCreate(p, c)
  BY <1>4, DependStep
<1> QED
  BY <1>1, <1>2, <1>3, <1>4 DEF Next

(* The invariant holds.                                                    *)
LEMMA Invariant == Spec => []IInv
  BY InitIInv, NextIInv, PTL DEF Spec

-----------------------------------------------------------------------------
(* Types; every domain in use, or reachable, was handed out.               *)
THEOREM TypeCorrect == Spec => []TypeOK
  BY Invariant, IInvGives, PTL

(* Whatever is created, moved and deleted, the two ends of a dependency    *)
(* agree (swdiag_depend_create, swdiag_obj_delete): no walk over           *)
(* dependencies meets an object that is not in the database.               *)
THEOREM LinksAgreeAlways == Spec => []LinksAgree
  BY Invariant, IInvGives, PTL

(* The boundary lists of a component only name objects that are in it      *)
(* (swdiag_api_comp_contains, unlink_from_comp, swdiag_obj_delete).        *)
THEOREM BoundaryInside == Spec => []BoundaryIsInside
  BY Invariant, IInvGives, PTL

(* The loop check of swdiag_depend_create is complete within a domain: a   *)
(* loop that gets through crosses domains, the only ones it skips the walk *)
(* for.                                                                    *)
THEOREM DomainsHaveNoLoop == Spec => []LoopsCrossDomains
  BY Invariant, IInvGives, PTL

-----------------------------------------------------------------------------
(* Walks: Iterate, and steps that go round no ring                         *)

(* f is the walk that Iterate is to be, its steps in a set Y.              *)
IsWalk(f, Y, next, from, steps) ==
  /\ f \in [0..steps -> Y]
  /\ f[0] = from
  /\ \A m, n \in 0..steps : n = m + 1 => f[n] = next[f[m]]

LEMMA IterateIs ==
  ASSUME NEW Y, NEW next \in [Y -> Y], NEW from \in Y, NEW steps \in Nat
  PROVE  IsWalk(Iterate(next, from, steps), Y, next, from, steps)
<1> DEFINE Walks(f, k) == \A n \in 0..k : f[n] = IF n = 0 THEN from ELSE next[f[n - 1]]
           T == {k \in Nat : \E f \in [0..k -> Y] : Walks(f, k)}
<1>1. 0 \in T
  <2>1. [n \in 0..0 |-> from] \in [0..0 -> Y] /\ Walks([n \in 0..0 |-> from], 0)
    OBVIOUS
  <2> QED
    BY <2>1
<1>2. ASSUME NEW k \in 0..(steps - 1), k \in T PROVE k + 1 \in T
  <2>1. PICK f \in [0..k -> Y] : Walks(f, k)
    BY <1>2
  <2> DEFINE g == [n \in 0..(k + 1) |-> IF n = k + 1 THEN next[f[k]] ELSE f[n]]
  <2>2. g \in [0..(k + 1) -> Y]
    <3>1. next[f[k]] \in Y
      OBVIOUS
    <3> QED
      BY <3>1
  <2>3. Walks(g, k + 1)
    <3>1. \A n \in 0..k : g[n] = f[n]
      OBVIOUS
    <3>2. g[k + 1] = next[g[k]]
      BY <3>1
    <3>3. ASSUME NEW n \in 0..k PROVE g[n] = IF n = 0 THEN from ELSE next[g[n - 1]]
      <4>1. n # 0 => n - 1 \in 0..k
        OBVIOUS
      <4> HIDE DEF g
      <4> QED
        BY <2>1, <3>1, <4>1
    <3> HIDE DEF g
    <3> QED
      BY <3>2, <3>3
  <2> HIDE DEF g
  <2> QED
    BY <2>2, <2>3
<1>3. steps \in T
  <2> HIDE DEF T
  <2> QED
    BY <1>1, <1>2, UpTo
<1>4. PICK f \in [0..steps -> Y] : Walks(f, steps)
  BY <1>3
<1>5. f = [n \in 0..steps |-> IF n = 0 THEN from ELSE next[f[n - 1]]]
  BY <1>4
<1> DEFINE at[n \in 0..steps] == IF n = 0 THEN from ELSE next[at[n - 1]]
<1>6. at = [n \in 0..steps |-> IF n = 0 THEN from ELSE next[at[n - 1]]]
  <2>1. \E g : g = [n \in 0..steps |-> IF n = 0 THEN from ELSE next[g[n - 1]]]
    BY <1>5
  <2> QED
    BY <2>1
<1>7. Iterate(next, from, steps) = at
  BY DEF Iterate
<1> HIDE DEF at
<1>8. at[0] = from /\ \A m, n \in 0..steps : n = m + 1 => at[n] = next[at[m]]
  BY <1>6
<1>9. \A n \in 0..steps : at[n] \in Y
  <2> DEFINE S == {n \in 0..steps : at[n] \in Y}
  <2>1. 0 \in S /\ \A n \in 0..(steps - 1) : n \in S => n + 1 \in S
    BY <1>8
  <2> HIDE DEF S
  <2>2. \A n \in 0..steps : n \in S
    BY <2>1, UpTo
  <2> QED
    BY <2>2 DEF S
<1>10. at \in [0..steps -> Y]
  BY <1>6, <1>9
<1> QED
  BY <1>7, <1>8, <1>10 DEF IsWalk

(* A walk that goes round no ring of Objs leaves Objs in as many steps.    *)
LEMMA NoRingEnds ==
  ASSUME NEW next \in [Places -> Places], NoRing(next), NEW from \in Places,
         \A x \in Places \ Objs : next[x] \notin Objs
  PROVE  Iterate(next, from, Cardinality(Objs))[Cardinality(Objs)] \notin Objs
<1> DEFINE N == Cardinality(Objs)
           f == Iterate(next, from, N)
<1>1. IsFiniteSet(Objs) /\ N \in Nat
  BY ObjsAssumption, FS_CardinalityType
<1> HIDE DEF N
<1>2. /\ f \in [0..N -> Places]
      /\ \A m, n \in 0..N : n = m + 1 => f[n] = next[f[m]]
  <2>1. IsWalk(f, Places, next, from, N)
    BY <1>1, IterateIs
  <2> HIDE DEF f
  <2> QED
    BY <2>1 DEF IsWalk
<1> HIDE DEF f
<1> SUFFICES ASSUME f[N] \in Objs PROVE FALSE
  BY DEF N, f
<1>3. \A n \in 0..N : f[n] \in Objs
  <2> DEFINE T == {k \in Nat : k \in 0..N => f[N - k] \in Objs}
  <2>1. 0 \in T
    BY <1>1
  <2>2. ASSUME NEW k \in 0..(N - 1), k \in T PROVE k + 1 \in T
    <3>1. N - (k + 1) \in 0..N /\ N - k \in 0..N /\ k \in 0..N
          /\ N - k = (N - (k + 1)) + 1
      BY <1>1
    <3>2. f[N - k] = next[f[N - (k + 1)]]
      BY <1>2, <3>1
    <3>3. f[N - k] \in Objs
      BY <2>2, <3>1
    <3>4. f[N - (k + 1)] \in Places
      <4>1. N - (k + 1) \in 0..N
        BY <1>1
      <4> QED
        BY <1>2, <4>1
    <3>5. f[N - (k + 1)] \in Objs
      BY <3>2, <3>3, <3>4
    <3> QED
      BY <1>1, <3>5
  <2> HIDE DEF T
  <2>3. \A k \in 0..N : k \in T
    BY <1>1, <2>1, <2>2, UpTo
  <2>4. ASSUME NEW n \in 0..N PROVE f[n] \in Objs
    <3>1. N - n \in 0..N /\ N - (N - n) = n
      BY <1>1
    <3> QED
      BY <2>3, <3>1 DEF T
  <2> QED
    BY <2>4
<1>4. PICK i, j \in 0..N : i < j /\ f[i] = f[j]
  <2>1. f \in [0..N -> Objs]
    BY <1>2, <1>3
  <2>2. IsFiniteSet(0..N) /\ Cardinality(0..N) = N + 1
    BY <1>1, FS_Interval
  <2>3. N < Cardinality(0..N)
    BY <1>1, <2>2
  <2>4. \E x, y \in 0..N : x # y /\ f[x] = f[y]
    BY <1>1, <2>1, <2>2, <2>3, FS_PigeonHole DEF N
  <2> QED
    BY <1>1, <2>4
<1> DEFINE R == {f[n] : n \in i..(j - 1)}
<1>5. R \in SUBSET Objs /\ R # {}
  <2>1. i \in i..(j - 1) /\ \A n \in i..(j - 1) : n \in 0..N
    BY <1>1, <1>4
  <2> QED
    BY <1>3, <2>1
<1>6. ASSUME NEW n \in i..(j - 1) PROVE next[f[n]] \in R
  <2>1. n \in 0..N /\ n + 1 \in 0..N
    BY <1>1
  <2>2. next[f[n]] = f[n + 1]
    BY <1>2, <2>1
  <2>3. CASE n + 1 = j
    <3>1. i \in i..(j - 1)
      BY <1>4
    <3> QED
      BY <1>4, <2>2, <2>3, <3>1
  <2>4. CASE n + 1 # j
    <3>1. n + 1 \in i..(j - 1)
      BY <1>1, <2>4
    <3> QED
      BY <2>2, <3>1
  <2> QED
    BY <2>3, <2>4
<1>7. \A x \in R : next[x] \in R
  BY <1>6
<1> HIDE DEF R
<1> QED
  BY <1>5, <1>7 DEF NoRing

-----------------------------------------------------------------------------
(* What is below an object: least set that has it and what it contains     *)

HoldsBelow(up, U) == \A w \in Objs : up[w] \in U => w \in U
Below(up, y) == {x \in Objs : \A U \in SUBSET Objs : y \in U /\ HoldsBelow(up, U) => x \in U}

LEMMA BelowIs ==
  ASSUME NEW up, NEW y \in Objs
  PROVE  /\ y \in Below(up, y) /\ HoldsBelow(up, Below(up, y))
         /\ \A x \in Below(up, y) \ {y} : up[x] \in Below(up, y)
         /\ \A z \in Below(up, y) : Below(up, z) \subseteq Below(up, y)
<1> DEFINE B == Below(up, y)
<1>1. y \in B
  BY DEF Below
<1>2. HoldsBelow(up, B)
  <2> SUFFICES ASSUME NEW w \in Objs, up[w] \in B, NEW U \in SUBSET Objs,
                      y \in U, HoldsBelow(up, U)
               PROVE  w \in U
    BY DEF HoldsBelow, Below
  <2>1. up[w] \in U
    BY DEF Below
  <2> QED
    BY <2>1 DEF HoldsBelow
<1>3. ASSUME NEW x \in B \ {y}, up[x] \notin B PROVE FALSE
  <2> DEFINE U == B \ {x}
  <2>1. U \in SUBSET Objs /\ y \in U
    BY <1>1 DEF Below
  <2>2. HoldsBelow(up, U)
    BY <1>2, <1>3 DEF HoldsBelow
  <2>3. x \in U
    BY <2>1, <2>2, Zenon DEF Below
  <2> QED
    BY <2>3
<1>4. ASSUME NEW z \in B, NEW x \in Below(up, z) PROVE x \in B
  <2>1. B \in SUBSET Objs
    BY DEF Below
  <2> QED
    BY <1>2, <1>4, <2>1 DEF Below
<1> QED
  BY <1>1, <1>2, <1>3, <1>4

(* Without rings, nothing is below what it contains.                       *)
LEMMA NotBelow ==
  ASSUME NEW up, NoRing(up), NEW y \in Objs
  PROVE  up[y] \notin Below(up, y)
<1> SUFFICES ASSUME up[y] \in Below(up, y) PROVE FALSE
  OBVIOUS
<1>1. \A x \in Below(up, y) : up[x] \in Below(up, y)
  BY BelowIs
<1>2. Below(up, y) \in SUBSET Objs /\ Below(up, y) # {}
  BY BelowIs DEF Below
<1> QED
  BY <1>1, <1>2 DEF NoRing

-----------------------------------------------------------------------------
(* The lists of components and the tree they make                          *)

Lists(d) == \A c \in Objs : ListsMembers(d, c)

(* Only names of components are given to components.                       *)
Kinds(d) == \A o \in Objs : d.type[o] \in {"RULE", "COMP"} => d.type[o] = Kind(o)

(* ListsMembers, position by position.                                     *)
Listed(d, c) ==
  /\ \A i, j \in 1..Len(d.comps[c]) : d.comps[c][i] = d.comps[c][j] => i = j
  /\ \A i \in 1..Len(d.comps[c]) :
       d.parent_comp[d.comps[c][i]] = c /\ d.type[d.comps[c][i]] = "COMP"
  /\ \A x \in Objs : d.parent_comp[x] = c /\ d.type[x] = "COMP"
                       => \E i \in 1..Len(d.comps[c]) : d.comps[c][i] = x

LEMMA ListsMembersIs ==
  ASSUME NEW d, d \in DbType, NEW c \in Objs
  PROVE  ListsMembers(d, c) <=> Listed(d, c)
<1> DEFINE s == d.comps[c]
           K == {x \in Objs : d.parent_comp[x] = c /\ d.type[x] = "COMP"}
<1>1. s \in Seq(Objs)
  BY DEF DbType
<1>2. IsInjective(s) <=> \A i, j \in 1..Len(s) : s[i] = s[j] => i = j
  BY <1>1, InjectiveIs
<1>3. ToSet(s) = {s[i] : i \in 1..Len(s)}
  BY <1>1 DEF ToSet
<1>4. K = {x \in Members(d, c) : d.type[x] = "COMP"}
  BY DEF Members
<1>5. \A i \in 1..Len(s) : s[i] \in Objs
  BY <1>1
<1> HIDE DEF s, K
<1>6. ListsMembers(d, c) <=> IsInjective(s) /\ ToSet(s) = K
  BY <1>4 DEF ListsMembers, s
<1>7. ToSet(s) = K <=> /\ \A i \in 1..Len(s) : s[i] \in K
                       /\ \A x \in K : \E i \in 1..Len(s) : s[i] = x
  BY <1>3
<1>8. (\A i \in 1..Len(s) : s[i] \in K)
        <=> \A i \in 1..Len(s) : d.parent_comp[s[i]] = c /\ d.type[s[i]] = "COMP"
  BY <1>5 DEF K
<1>9. (\A x \in K : \E i \in 1..Len(s) : s[i] = x)
        <=> \A x \in Objs : d.parent_comp[x] = c /\ d.type[x] = "COMP"
                              => \E i \in 1..Len(s) : s[i] = x
  BY DEF K
<1> QED
  BY <1>2, <1>6, <1>7, <1>8, <1>9 DEF Listed, s

(* The list of c depends on the types and the components of its members.   *)
LEMMA SameList ==
  ASSUME NEW d, NEW e, NEW c \in Objs, ListsMembers(d, c), e.comps[c] = d.comps[c],
         \A x \in Objs : (e.parent_comp[x] = c /\ e.type[x] = "COMP")
                           <=> (d.parent_comp[x] = c /\ d.type[x] = "COMP")
  PROVE  ListsMembers(e, c)
  BY DEF ListsMembers, Members

(* Taking a component off a list.                                          *)
LEMMA OffList ==
  ASSUME NEW d, d \in DbType, NEW e, e \in DbType, NEW o \in Objs, NEW c \in Objs,
         ListsMembers(d, c), d.parent_comp[o] = c, e.parent_comp[o] # c, e.type = d.type,
         e.comps[c] = RemoveFirst(d.comps[c], o),
         \A x \in Objs \ {o} : e.parent_comp[x] = d.parent_comp[x]
  PROVE  ListsMembers(e, c)
<1> DEFINE s == d.comps[c]
           r == e.comps[c]
<1>1. s \in Seq(Objs)
  BY DEF DbType
<1>2. /\ \A i, j \in 1..Len(s) : s[i] = s[j] => i = j
      /\ \A i \in 1..Len(s) : d.parent_comp[s[i]] = c /\ d.type[s[i]] = "COMP"
      /\ \A x \in Objs : d.parent_comp[x] = c /\ d.type[x] = "COMP"
                           => \E i \in 1..Len(s) : s[i] = x
  BY ListsMembersIs DEF Listed
<1> HIDE DEF s, r
<1>3. \/ ~Contains(s, o) /\ r = s
      \/ \E k \in 1..Len(s) :
           /\ s[k] = o
           /\ r \in Seq(Objs) /\ Len(r) = Len(s) - 1
           /\ \A i \in 1..(Len(s) - 1) : r[i] = IF i < k THEN s[i] ELSE s[i + 1]
  <2>1. r = RemoveFirst(s, o)
    BY DEF r, s
  <2> QED
    BY <1>1, <2>1, RemoveFirstIs
<1>4. CASE ~Contains(s, o) /\ r = s
  <2>1. d.type[o] # "COMP"
    BY <1>2, <1>4 DEF Contains
  <2> QED
    BY <1>4, <2>1, SameList DEF r, s
<1>5. ASSUME NEW k \in 1..Len(s), s[k] = o, r \in Seq(Objs), Len(r) = Len(s) - 1,
             \A i \in 1..(Len(s) - 1) : r[i] = IF i < k THEN s[i] ELSE s[i + 1]
      PROVE  ListsMembers(e, c)
  <2>1. \A i \in 1..Len(r) :
          \E m \in 1..Len(s) : m # k /\ r[i] = s[m] /\ m = IF i < k THEN i ELSE i + 1
    <3> SUFFICES ASSUME NEW i \in 1..Len(r)
                 PROVE  \E m \in 1..Len(s) : m # k /\ r[i] = s[m]
                                             /\ m = IF i < k THEN i ELSE i + 1
      OBVIOUS
    <3>1. Len(s) \in Nat /\ i \in 1..(Len(s) - 1)
      BY <1>1, <1>5
    <3>2. CASE i < k
      <4>1. i \in 1..Len(s) /\ i # k /\ r[i] = s[i]
        BY <1>5, <3>1, <3>2
      <4> QED
        BY <3>2, <4>1
    <3>3. CASE ~(i < k)
      <4>1. i + 1 \in 1..Len(s) /\ i + 1 # k /\ r[i] = s[i + 1]
        BY <1>5, <3>1, <3>3
      <4> QED
        BY <3>3, <4>1
    <3> QED
      BY <3>2, <3>3
  <2>2. \A i, j \in 1..Len(r) : r[i] = r[j] => i = j
    <3> SUFFICES ASSUME NEW i \in 1..Len(r), NEW j \in 1..Len(r), r[i] = r[j]
                 PROVE  i = j
      OBVIOUS
    <3>1. PICK m \in 1..Len(s) : m # k /\ r[i] = s[m] /\ m = IF i < k THEN i ELSE i + 1
      BY <2>1
    <3>2. PICK n \in 1..Len(s) : n # k /\ r[j] = s[n] /\ n = IF j < k THEN j ELSE j + 1
      BY <2>1
    <3>3. m = n
      <4>1. s[m] = s[n]
        BY <3>1, <3>2
      <4> QED
        BY <1>2, <4>1
    <3> QED
      BY <1>1, <3>1, <3>2, <3>3
  <2>3. ASSUME NEW i \in 1..Len(r)
        PROVE  e.parent_comp[r[i]] = c /\ e.type[r[i]] = "COMP"
    <3>1. PICK m \in 1..Len(s) : m # k /\ r[i] = s[m]
      BY <2>1
    <3>2. s[m] \in Objs \ {o}
      BY <1>1, <1>2, <1>5, <3>1
    <3> QED
      BY <1>2, <3>1, <3>2
  <2>4. ASSUME NEW x \in Objs, e.parent_comp[x] = c, e.type[x] = "COMP"
        PROVE  \E i \in 1..Len(r) : r[i] = x
    <3>1. x # o /\ d.parent_comp[x] = c /\ d.type[x] = "COMP"
      BY <2>4
    <3>2. PICK m \in 1..Len(s) : s[m] = x
      BY <1>2, <3>1
    <3>3. m # k /\ Len(s) \in Nat
      BY <1>1, <1>5, <3>1, <3>2
    <3>4. CASE m < k
      <4>1. m \in 1..(Len(s) - 1) /\ r[m] = s[m]
        BY <1>5, <3>3, <3>4
      <4> QED
        BY <1>5, <3>2, <4>1
    <3>5. CASE m > k
      <4>1. m - 1 \in 1..(Len(s) - 1) /\ ~(m - 1 < k) /\ (m - 1) + 1 = m
        BY <3>3, <3>5
      <4>2. r[m - 1] = s[m]
        BY <1>5, <4>1
      <4> QED
        BY <1>5, <3>2, <4>1, <4>2
    <3> QED
      BY <3>3, <3>4, <3>5
  <2>5. Listed(e, c)
    BY <2>2, <2>3, <2>4 DEF Listed, r
  <2> QED
    BY <2>5, ListsMembersIs
<1> QED
  BY <1>3, <1>4, <1>5

(* Putting a component on a list.                                          *)
Prepended(new, o, old) == new = <<o>> \o old

LEMMA OnList ==
  ASSUME NEW d, d \in DbType, NEW e, e \in DbType, NEW o \in Objs, NEW c \in Objs,
         ListsMembers(d, c), d.parent_comp[o] # c, e.parent_comp[o] = c, e.type = d.type,
         d.type[o] = "COMP", Prepended(e.comps[c], o, d.comps[c]),
         \A x \in Objs \ {o} : e.parent_comp[x] = d.parent_comp[x]
  PROVE  ListsMembers(e, c)
<1> DEFINE s == d.comps[c]
           r == e.comps[c]
<1>1. s \in Seq(Objs) /\ Len(s) \in Nat
  BY DEF DbType
<1>2. /\ \A i, j \in 1..Len(s) : s[i] = s[j] => i = j
      /\ \A i \in 1..Len(s) : d.parent_comp[s[i]] = c /\ d.type[s[i]] = "COMP"
      /\ \A x \in Objs : d.parent_comp[x] = c /\ d.type[x] = "COMP"
                           => \E i \in 1..Len(s) : s[i] = x
  BY ListsMembersIs DEF Listed
<1>3. r = <<o>> \o s
  BY DEF Prepended
<1> HIDE DEF s, r
<1>4. Len(r) = Len(s) + 1 /\ r[1] = o /\ \A i \in 1..Len(s) : r[i + 1] = s[i]
  BY <1>1, <1>3
<1>5. \A i \in 1..Len(r) : i = 1 \/ (i - 1 \in 1..Len(s) /\ r[i] = s[i - 1])
  <2> SUFFICES ASSUME NEW i \in 1..Len(r), i # 1
               PROVE  i - 1 \in 1..Len(s) /\ r[i] = s[i - 1]
    OBVIOUS
  <2>1. i - 1 \in 1..Len(s) /\ (i - 1) + 1 = i
    BY <1>1, <1>4
  <2> QED
    BY <1>4, <2>1
<1>6. \A i \in 1..Len(s) : s[i] \in Objs \ {o}
  BY <1>1, <1>2
<1>7. ASSUME NEW i \in 1..Len(r), NEW j \in 1..Len(r), r[i] = r[j]
      PROVE  i = j
  <2>1. CASE i = 1 \/ j = 1
    BY <1>4, <1>5, <1>6, <1>7, <2>1
  <2>2. CASE i # 1 /\ j # 1
    <3>1. i - 1 \in 1..Len(s) /\ j - 1 \in 1..Len(s) /\ s[i - 1] = s[j - 1]
      BY <1>5, <1>7, <2>2
    <3>2. i - 1 = j - 1
      BY <1>2, <3>1
    <3> QED
      BY <1>1, <1>4, <3>2
  <2> QED
    BY <2>1, <2>2
<1>8. ASSUME NEW i \in 1..Len(r)
      PROVE  e.parent_comp[r[i]] = c /\ e.type[r[i]] = "COMP"
  <2>1. CASE i = 1
    BY <1>4, <2>1
  <2>2. CASE i # 1
    BY <1>2, <1>5, <1>6, <2>2
  <2> QED
    BY <2>1, <2>2
<1>9. ASSUME NEW x \in Objs, e.parent_comp[x] = c, e.type[x] = "COMP"
      PROVE  \E i \in 1..Len(r) : r[i] = x
  <2>1. CASE x = o
    <3>1. 1 \in 1..Len(r)
      BY <1>1, <1>4
    <3> QED
      BY <1>4, <2>1, <3>1
  <2>2. CASE x # o
    <3>1. PICK i \in 1..Len(s) : s[i] = x
      BY <1>2, <1>9, <2>2
    <3>2. i + 1 \in 1..Len(r)
      BY <1>1, <1>4
    <3> QED
      BY <1>4, <3>1, <3>2
  <2> QED
    BY <2>1, <2>2
<1>10. Listed(e, c)
  BY <1>7, <1>8, <1>9 DEF Listed, r
<1> QED
  BY <1>10, ListsMembersIs

(* The lists through Unlink, Link, and an object that takes its type.      *)
LEMMA UnlinkLists ==
  ASSUME NEW d, Sound(d), Lists(d), NEW o \in Objs
  PROVE  Lists(Unlink(d, o))
<1> DEFINE e == Unlink(d, o)
           c == d.parent_comp[o]
<1>1. d \in DbType /\ NoComp \notin Objs
  BY ObjsAssumption DEF Sound
<1>2. /\ Sound(e) /\ e.type = d.type
      /\ e.parent_comp[o] = IF c \in Objs THEN NoComp ELSE c
      /\ \A x \in Objs : x # o => e.parent_comp[x] = d.parent_comp[x]
  BY UnlinkSound
<1>3. CASE c \notin Objs
  BY <1>3 DEF Unlink
<1>4. CASE c \in Objs
  <2>1. e.comps = [d.comps EXCEPT ![c] = RemoveFirst(d.comps[c], o)]
    BY <1>1, <1>4 DEF Unlink, DbType
  <2> HIDE DEF e
  <2>2. e \in DbType /\ e.parent_comp[o] = NoComp
    BY <1>2, <1>4 DEF Sound
  <2>3. ASSUME NEW x \in Objs, x # c PROVE ListsMembers(e, x)
    <3>1. e.comps[x] = d.comps[x]
      BY <1>1, <2>1, <2>3 DEF DbType
    <3>2. \A y \in Objs : e.type[y] = d.type[y]
                          /\ (e.parent_comp[y] = x <=> d.parent_comp[y] = x)
      BY <1>1, <1>2, <2>2, <2>3
    <3> QED
      BY <3>1, <3>2, SameList DEF Lists
  <2>4. ListsMembers(e, c)
    <3>1. e.comps[c] = RemoveFirst(d.comps[c], o) /\ e.parent_comp[o] # c
      BY <1>1, <1>4, <2>1, <2>2 DEF DbType
    <3>2. ListsMembers(d, c) /\ \A x \in Objs \ {o} : e.parent_comp[x] = d.parent_comp[x]
      BY <1>2, <1>4 DEF Lists
    <3>3. e.type = d.type
      BY <1>2
    <3> QED
      BY <1>1, <1>4, <2>2, <3>1, <3>2, <3>3, OffList
  <2> QED
    BY <2>3, <2>4 DEF Lists, e
<1> QED
  BY <1>3, <1>4

LEMMA LinkLists ==
  ASSUME NEW d, d \in DbType, Lists(d), NEW o \in Objs, d.parent_comp[o] \notin Objs,
         NEW c \in Objs \cup {NoComp, Freed}, Link(d, c, o) \in DbType
  PROVE  /\ Lists(Link(d, c, o)) /\ Link(d, c, o).type = d.type
         /\ Link(d, c, o).parent_comp = [d.parent_comp EXCEPT ![o] = c]
<1> DEFINE e == Link(d, c, o)
           s == IF d.type[o] = "COMP" THEN <<o>> \o d.comps[c] ELSE d.comps[c]
<1>1. e = [d EXCEPT !.parent_comp[o] = c, !.comps[c] = s]
  BY DEF Link
<1>2. s = IF d.type[o] = "COMP" THEN <<o>> \o d.comps[c] ELSE d.comps[c]
  OBVIOUS
<1> HIDE DEF e, s
<1>3. /\ e.type = d.type /\ e.parent_comp = [d.parent_comp EXCEPT ![o] = c]
      /\ e.comps = [d.comps EXCEPT ![c] = s]
  BY <1>1 DEF DbType
<1>4. e.parent_comp[o] = c /\ \A x \in Objs \ {o} : e.parent_comp[x] = d.parent_comp[x]
  BY <1>3 DEF DbType
<1>5. ASSUME NEW x \in Objs, x # c PROVE ListsMembers(e, x)
  <2>1. e.comps[x] = d.comps[x]
    BY <1>3, <1>5 DEF DbType
  <2>2. \A y \in Objs : e.parent_comp[y] = x <=> d.parent_comp[y] = x
    BY <1>4, <1>5
  <2>3. \A y \in Objs : (e.parent_comp[y] = x /\ e.type[y] = "COMP")
                          <=> (d.parent_comp[y] = x /\ d.type[y] = "COMP")
    BY <1>3, <2>2
  <2>4. ListsMembers(d, x)
    BY DEF Lists
  <2> QED
    BY <2>1, <2>3, <2>4, SameList
<1>6. ASSUME c \in Objs PROVE ListsMembers(e, c)
  <2>1. e.comps[c] = s /\ ListsMembers(d, c) /\ d.parent_comp[o] # c
    BY <1>3, <1>6 DEF DbType, Lists
  <2>2. CASE d.type[o] = "COMP"
    <3>1. Prepended(e.comps[c], o, d.comps[c]) /\ e \in DbType /\ e.type = d.type
      BY <1>2, <1>3, <2>1, <2>2 DEF e, Prepended
    <3>2. e.parent_comp[o] = c /\ d.type[o] = "COMP"
          /\ \A x \in Objs \ {o} : e.parent_comp[x] = d.parent_comp[x]
      BY <1>4, <2>2
    <3> QED
      BY <1>6, <2>1, <3>1, <3>2, OnList
  <2>3. CASE d.type[o] # "COMP"
    <3>1. e.comps[c] = d.comps[c]
      BY <1>2, <2>1, <2>3
    <3>2. \A x \in Objs : d.type[x] = "COMP" => e.parent_comp[x] = d.parent_comp[x]
      BY <1>4, <2>3
    <3>3. \A x \in Objs : (e.parent_comp[x] = c /\ e.type[x] = "COMP")
                            <=> (d.parent_comp[x] = c /\ d.type[x] = "COMP")
      BY <1>3, <3>2
    <3> QED
      BY <1>6, <2>1, <3>1, <3>3, SameList
  <2> QED
    BY <2>2, <2>3
<1> QED
  BY <1>3, <1>5, <1>6 DEF Lists, e

LEMMA TypeLists ==
  ASSUME NEW d, d \in DbType, Lists(d), NEW o \in Objs, d.parent_comp[o] \notin Objs, NEW t
  PROVE  Lists([d EXCEPT !.type[o] = t])
<1> DEFINE e == [d EXCEPT !.type[o] = t]
<1>1. /\ e.type = [d.type EXCEPT ![o] = t] /\ e.parent_comp = d.parent_comp
      /\ e.comps = d.comps
  BY DEF DbType
<1>2. \A x \in Objs \ {o} : e.type[x] = d.type[x]
  BY <1>1 DEF DbType
<1> HIDE DEF e
<1>3. ASSUME NEW c \in Objs PROVE ListsMembers(e, c)
  <2>1. d.parent_comp[o] # c /\ ListsMembers(d, c) /\ e.comps[c] = d.comps[c]
    BY <1>1 DEF Lists
  <2>2. \A x \in Objs : (e.parent_comp[x] = c /\ e.type[x] = "COMP")
                          <=> (d.parent_comp[x] = c /\ d.type[x] = "COMP")
    BY <1>1, <1>2, <2>1
  <2> QED
    BY <2>1, <2>2, SameList
<1> QED
  BY <1>3 DEF Lists, e

(* The forest depends on the types, the components and their lists.        *)
LEMMA SameForest ==
  ASSUME NEW d, NEW e, Forest(d), Kinds(d), e.type = d.type,
         e.parent_comp = d.parent_comp, e.comps = d.comps
  PROVE  Forest(e) /\ Kinds(e)
<1>1. \A c \in Objs : ListsMembers(e, c)
  BY DEF Forest, ListsMembers, Members
<1> QED
  BY <1>1 DEF Forest, Kinds, Present

(* Creating a name: it has no members, so that System gets no ring.        *)
LEMMA CreateForest ==
  ASSUME NEW d, Sound(d), Forest(d), Kinds(d), NEW o \in Objs, d.type[o] = "absent",
         NEW t \in {"NONE", Kind(o)}
  PROVE  Forest(Create(d, o, t)) /\ Kinds(Create(d, o, t))
<1> DEFINE n == [d EXCEPT !.type[o] = t]
           l == Link(n, System, o)
           added == IF t = "NONE" THEN {} ELSE {o}
           e == Create(d, o, t)
<1>0. /\ System \in Objs /\ NoComp \notin Objs /\ d \in DbType /\ d.parent_comp[o] = NoComp
      /\ t \in Types \ {"absent"} /\ NoComp # Freed
  BY ObjsAssumption DEF Sound, Bare, Kind, Types
<1>1. /\ n.type = [d.type EXCEPT ![o] = t] /\ n.parent_comp = d.parent_comp
      /\ n \in DbType
  BY <1>0 DEF DbType
<1>2. Lists(n)
  BY <1>0, TypeLists DEF Forest, Lists
<1>3. Sound(e)
  BY <1>0, CreateSound
<1>4. e = [l EXCEPT !.top_depend[System] = l.top_depend[System] \cup added,
                    !.bottom_depend[System] = l.bottom_depend[System] \cup added]
  BY DEF Create
<1>5. l \in DbType
  <2>1. n.comps[System] \in Seq(Objs)
    BY <1>0, <1>1 DEF DbType
  <2> DEFINE s == IF n.type[o] = "COMP" THEN <<o>> \o n.comps[System] ELSE n.comps[System]
  <2>2. s \in Seq(Objs)
    BY <2>1
  <2>3. l = [n EXCEPT !.parent_comp[o] = System, !.comps[System] = s]
    BY DEF Link
  <2> HIDE DEF n, l, s
  <2>4. [n.comps EXCEPT ![System] = s] \in [Objs -> Seq(Objs)]
    BY <1>0, <1>1, <2>2 DEF DbType
  <2> QED
    BY <1>0, <1>1, <2>3, <2>4 DEF DbType
<1>6. /\ Lists(l) /\ l.type = n.type
      /\ l.parent_comp = [n.parent_comp EXCEPT ![o] = System]
  <2>1. n.parent_comp[o] \notin Objs /\ System \in Objs \cup {NoComp, Freed}
    BY <1>0, <1>1
  <2> HIDE DEF n
  <2> QED
    BY <1>1, <1>2, <1>5, <2>1, LinkLists
<1> HIDE DEF n, l, e
<1>7. e.type = l.type /\ e.parent_comp = l.parent_comp /\ e.comps = l.comps
  BY <1>4, <1>5 DEF DbType
<1>8. \A c \in Objs : ListsMembers(e, c)
  <2>1. \A c \in Objs : ListsMembers(l, c)
    BY <1>6 DEF Lists
  <2> QED
    BY <1>7, <2>1 DEF ListsMembers, Members
<1>9. /\ e.type[o] = t /\ \A x \in Objs \ {o} : e.type[x] = d.type[x]
      /\ e.parent_comp[o] = System /\ \A x \in Objs \ {o} : e.parent_comp[x] = d.parent_comp[x]
  BY <1>0, <1>1, <1>6, <1>7 DEF DbType
<1>10. o # System /\ \A x \in Objs : d.parent_comp[x] # o
  BY <1>0 DEF Forest
<1>11. Kinds(e)
  BY <1>9 DEF Kinds, Types
<1>12. NoRing(e.parent_comp)
  <2> SUFFICES ASSUME NEW S \in SUBSET Objs, S # {}, \A x \in S : e.parent_comp[x] \in S
               PROVE  FALSE
    BY DEF NoRing
  <2> DEFINE R == S \ {o}
  <2>1. \A x \in R : d.parent_comp[x] \in R
    BY <1>9, <1>10
  <2>2. R # {}
    BY <1>9, <1>10
  <2> HIDE DEF R
  <2>3. R \in SUBSET Objs
    BY DEF R
  <2> QED
    BY <2>1, <2>2, <2>3 DEF Forest, NoRing
<1>13. \A x \in Present(e) \ {System} : e.parent_comp[x] # NoComp
  <2> SUFFICES ASSUME NEW x \in Objs \ {System}, e.type[x] # "absent"
               PROVE  e.parent_comp[x] # NoComp
    BY DEF Present
  <2>1. CASE x = o
    BY <1>0, <1>9, <2>1
  <2>2. CASE x # o
    BY <1>9, <2>2 DEF Forest, Present
  <2> QED
    BY <2>1, <2>2
<1>14. e.type[System] = "COMP"
  BY <1>0, <1>9, <1>10 DEF Forest
<1>15. \A x \in Objs : e.parent_comp[x] \in Objs => e.type[e.parent_comp[x]] = "COMP"
  <2> SUFFICES ASSUME NEW x \in Objs, e.parent_comp[x] \in Objs
               PROVE  e.type[e.parent_comp[x]] = "COMP"
    OBVIOUS
  <2>1. CASE x = o
    BY <1>9, <1>14, <2>1
  <2>2. CASE x # o
    BY <1>9, <1>10, <2>2 DEF Forest
  <2> QED
    BY <2>1, <2>2
<1> QED
  BY <1>8, <1>11, <1>12, <1>13, <1>14, <1>15 DEF Forest, e

(* Converting a name: as a forward reference it had no members.            *)
LEMMA ConvertForest ==
  ASSUME NEW d, Sound(d), Forest(d), Kinds(d), NEW o \in Objs, d.type[o] = "NONE"
  PROVE  Forest(Convert(d, o, Kind(o))) /\ Kinds(Convert(d, o, Kind(o)))
<1> DEFINE c == d.parent_comp[o]
           u == Unlink(d, o)
           n == [u EXCEPT !.type[o] = Kind(o)]
           e == Link(n, c, o)
<1>0. /\ System \in Objs /\ NoComp \notin Objs /\ d \in DbType
      /\ Kind(o) \in Types \ {"absent"} /\ c \in Objs \cup {NoComp, Freed}
  BY ObjsAssumption DEF Sound, Kind, Types, DbType
<1>1. /\ Sound(u) /\ u.type = d.type /\ u.parent_comp[o] = IF c \in Objs THEN NoComp ELSE c
      /\ \A x \in Objs : x # o => u.parent_comp[x] = d.parent_comp[x]
  BY UnlinkSound
<1>2. Lists(u)
  BY UnlinkLists DEF Forest, Lists
<1>3. e = Convert(d, o, Kind(o)) /\ Sound(e)
  <2>1. Sound(Convert(d, o, Kind(o)))
    BY <1>0, ConvertSound
  <2> QED
    BY <2>1 DEF Convert
<1> HIDE DEF u, c
<1>4. u.parent_comp[o] \notin Objs /\ u \in DbType
  BY <1>0, <1>1 DEF Sound
<1>5. Lists(n)
  BY <1>2, <1>4, TypeLists
<1>6. /\ n.type = [d.type EXCEPT ![o] = Kind(o)] /\ n.parent_comp = u.parent_comp
      /\ n \in DbType
  BY <1>0, <1>1, <1>4 DEF DbType
<1> HIDE DEF n
<1>7. /\ Lists(e) /\ e.type = n.type
      /\ e.parent_comp = [n.parent_comp EXCEPT ![o] = c]
  <2>1. Link(n, c, o) \in DbType /\ n.parent_comp[o] \notin Objs
    BY <1>3, <1>4, <1>6 DEF Sound
  <2>2. n \in DbType /\ c \in Objs \cup {NoComp, Freed}
    BY <1>0, <1>6 DEF c
  <2> QED
    BY <1>5, <2>1, <2>2, LinkLists
<1> HIDE DEF e
<1>8. /\ e.type[o] = Kind(o) /\ \A x \in Objs \ {o} : e.type[x] = d.type[x]
      /\ \A x \in Objs : e.parent_comp[x] = d.parent_comp[x]
  <2>1. n.parent_comp \in [Objs -> Objs \cup {NoComp, Freed}]
    BY <1>6 DEF DbType
  <2>2. \A x \in Objs : e.parent_comp[x] = d.parent_comp[x]
    BY <1>1, <1>6, <1>7, <2>1 DEF c
  <2> QED
    BY <1>0, <1>6, <1>7, <2>2 DEF DbType
<1>9. o # System /\ \A x \in Objs : d.parent_comp[x] # o
  BY DEF Forest
<1>10. Kinds(e)
  BY <1>8 DEF Kinds
<1>11. NoRing(e.parent_comp)
  BY <1>8 DEF Forest, NoRing
<1>12. \A x \in Present(e) \ {System} : e.parent_comp[x] # NoComp
  BY <1>8 DEF Forest, Present
<1>13. \A x \in Objs : e.parent_comp[x] \in Objs => e.type[e.parent_comp[x]] = "COMP"
  BY <1>8, <1>9 DEF Forest
<1>14. e.type[System] = "COMP" /\ \A x \in Objs : ListsMembers(e, x)
  BY <1>0, <1>7, <1>8, <1>9 DEF Forest, Lists
<1> QED
  BY <1>3, <1>10, <1>11, <1>12, <1>13, <1>14 DEF Forest

(* Looking names up.                                                       *)
LEMMA GetOrCreateForest ==
  ASSUME NEW d, Sound(d), Forest(d), Kinds(d), NEW o \in Objs
  PROVE  /\ Forest(GetOrCreate(d, o, Kind(o))) /\ Kinds(GetOrCreate(d, o, Kind(o)))
         /\ GetOrCreate(d, o, Kind(o)).type[o] = Kind(o)
<1> DEFINE t == Kind(o)
           e == GetOrCreate(d, o, t)
<1>1. t \in Types \ {"absent", "NONE"} /\ d \in DbType
  BY DEF Kind, Types, Sound
<1>2. Forest(e) /\ Kinds(e)
  <2>1. CASE d.type[o] = "absent"
    <3>1. e = Create(d, o, t)
      BY <2>1 DEF GetOrCreate
    <3> QED
      BY <2>1, <3>1, CreateForest
  <2>2. CASE d.type[o] = "NONE"
    <3>1. e = Convert(d, o, t)
      BY <1>1, <2>2 DEF GetOrCreate
    <3> QED
      BY <2>2, <3>1, ConvertForest
  <2>3. CASE d.type[o] \notin {"absent", "NONE"}
    BY <2>3 DEF GetOrCreate
  <2> QED
    BY <2>1, <2>2, <2>3
<1>3. e.type[o] \notin {"absent", "NONE"}
  <2>1. CASE d.type[o] = "absent"
    <3> DEFINE n == [d EXCEPT !.type[o] = t]
    <3>1. e.type = n.type
      BY <1>1, <2>1 DEF GetOrCreate, Create, Link, DbType
    <3> QED
      BY <1>1, <3>1 DEF DbType
  <2>2. CASE d.type[o] = "NONE"
    <3> DEFINE u == Unlink(d, o)
               n == [u EXCEPT !.type[o] = t]
    <3>1. u \in DbType
      BY UnlinkSound DEF Sound
    <3> HIDE DEF u
    <3>2. n.type[o] = t /\ n \in DbType
      BY <1>1, <3>1 DEF DbType
    <3>3. e = Link(n, d.parent_comp[o], o)
      BY <1>1, <2>2 DEF GetOrCreate, Convert, u
    <3> HIDE DEF n
    <3>4. e.type = n.type
      BY <3>2, <3>3 DEF Link, DbType
    <3> QED
      BY <1>1, <3>2, <3>4
  <2>3. CASE d.type[o] \notin {"absent", "NONE"}
    BY <2>3 DEF GetOrCreate
  <2> QED
    BY <2>1, <2>2, <2>3
<1>4. e \in DbType
  BY <1>1, GetOrCreateSound DEF Sound
<1> HIDE DEF e
<1>5. e.type[o] \in {"RULE", "COMP"}
  BY <1>3, <1>4 DEF DbType, Types
<1>6. e.type[o] = t
  BY <1>2, <1>5 DEF Kinds
<1> QED
  BY <1>2, <1>6 DEF e

LEMMA GetAnyForest ==
  ASSUME NEW d, Sound(d), Forest(d), Kinds(d), NEW o \in Objs
  PROVE  /\ Forest(GetAny(d, o)) /\ Kinds(GetAny(d, o))
         /\ \A x \in Objs : d.type[x] = "COMP" => GetAny(d, o).type[x] = "COMP"
<1>1. CASE d.type[o] # "absent"
  BY <1>1 DEF GetAny
<1>2. CASE d.type[o] = "absent"
  <2>1. GetAny(d, o) = Create(d, o, "NONE")
    BY <1>2 DEF GetAny
  <2>2. Forest(Create(d, o, "NONE")) /\ Kinds(Create(d, o, "NONE"))
    BY <1>2, CreateForest
  <2>3. Create(d, o, "NONE").type = [d.type EXCEPT ![o] = "NONE"]
    BY DEF Create, Link, Sound, DbType
  <2> QED
    BY <1>2, <2>1, <2>2, <2>3 DEF Sound, DbType
<1> QED
  BY <1>1, <1>2

LEMMA ConnectForest ==
  ASSUME NEW d, Sound(d), Forest(d), Kinds(d), NEW p, NEW c
  PROVE  Forest(Connect(d, p, c)) /\ Kinds(Connect(d, p, c))
<1> DEFINE e == Connect(d, p, c)
<1>1. e.type = d.type /\ e.parent_comp = d.parent_comp /\ e.comps = d.comps
  BY DEF Connect, Sound, DbType
<1> HIDE DEF e
<1>2. Forest(e) /\ Kinds(e)
  BY <1>1, SameForest
<1> QED
  BY <1>2 DEF e

(* Moving o into p makes no ring if a set that has o and the components    *)
(* in what it has, has not p.                                              *)
Apart(d, p, o) ==
  \E V \in SUBSET Objs :
    /\ o \in V /\ p \notin V
    /\ \A x \in Objs : d.type[x] = "COMP" /\ d.parent_comp[x] \in V => x \in V

LEMMA ContainForest ==
  ASSUME NEW d, Sound(d), Forest(d), Kinds(d), NEW p \in Objs, NEW o \in Present(d),
         d.type[p] = "COMP", d.parent_comp[o] # Freed, Apart(d, p, o)
  PROVE  Forest(Contain(d, p, o)) /\ Kinds(Contain(d, p, o))
<1> DEFINE u == Unlink(d, o)
           l == Link(u, p, o)
           e == Contain(d, p, o)
<1>0. /\ NoComp \notin Objs /\ Freed \notin Objs /\ d \in DbType /\ o \in Objs
      /\ d.type[o] # "absent"
  BY ObjsAssumption DEF Sound, Present
<1>1. /\ Sound(u) /\ u.type = d.type /\ u.parent_comp[o] \notin Objs
      /\ \A x \in Objs : x # o => u.parent_comp[x] = d.parent_comp[x]
      /\ \A x \in Objs : o \notin u.top_depend[x] \cup u.bottom_depend[x]
  BY <1>0, UnlinkSound
<1>2. Lists(u) /\ u \in DbType
  BY <1>0, <1>1, UnlinkLists DEF Forest, Lists, Sound
<1>3. e.type = l.type /\ e.parent_comp = l.parent_comp /\ e.comps = l.comps /\ l \in DbType
  <2> HIDE DEF u
  <2>1. Sound(l)
    BY <1>0, <1>1, LinkSound
  <2> HIDE DEF l
  <2> QED
    BY <2>1 DEF Contain, u, l, Sound, DbType
<1> HIDE DEF u, e
<1>4. Lists(l) /\ l.type = u.type /\ l.parent_comp = [u.parent_comp EXCEPT ![o] = p]
  BY <1>0, <1>1, <1>2, <1>3, LinkLists
<1> HIDE DEF l
<1>5. /\ e.type = d.type /\ e.parent_comp[o] = p
      /\ \A x \in Objs \ {o} : e.parent_comp[x] = d.parent_comp[x]
  BY <1>0, <1>1, <1>2, <1>3, <1>4 DEF DbType
<1>6. \A c \in Objs : ListsMembers(e, c)
  <2>1. \A c \in Objs : ListsMembers(l, c)
    BY <1>4 DEF Lists
  <2> QED
    BY <1>3, <2>1 DEF ListsMembers, Members
<1>7. NoRing(e.parent_comp)
  <2> SUFFICES ASSUME NEW S \in SUBSET Objs, S # {}, \A x \in S : e.parent_comp[x] \in S
               PROVE  FALSE
    BY DEF NoRing
  <2>1. CASE o \notin S
    <3>1. \A x \in S : d.parent_comp[x] \in S
      BY <1>5, <2>1
    <3> QED
      BY <3>1 DEF Forest, NoRing
  <2>2. CASE o \in S
    <3>1. PICK V \in SUBSET Objs :
            /\ o \in V /\ p \notin V
            /\ \A x \in Objs : d.type[x] = "COMP" /\ d.parent_comp[x] \in V => x \in V
      BY DEF Apart
    <3> DEFINE R == {x \in S \ V : d.type[x] = "COMP"}
    <3>2. p \in R
      BY <1>5, <2>2, <3>1
    <3>3. ASSUME NEW x \in R PROVE d.parent_comp[x] \in R
      <4>1. x \in Objs /\ x # o /\ d.type[x] = "COMP" /\ d.parent_comp[x] \in S
        BY <1>5, <3>1
      <4>2. d.type[d.parent_comp[x]] = "COMP"
        BY <4>1 DEF Forest
      <4>3. d.parent_comp[x] \notin V
        BY <3>1, <4>1
      <4> QED
        BY <4>1, <4>2, <4>3
    <3>4. R \in SUBSET Objs /\ R # {}
      BY <3>2
    <3> HIDE DEF R
    <3> QED
      BY <3>3, <3>4 DEF Forest, NoRing
  <2> QED
    BY <2>1, <2>2
<1>8. \A x \in Present(e) \ {System} : e.parent_comp[x] # NoComp
  BY <1>0, <1>5 DEF Forest, Present
<1>9. \A x \in Objs : e.parent_comp[x] \in Objs => e.type[e.parent_comp[x]] = "COMP"
  BY <1>5 DEF Forest
<1>10. e.type[System] = "COMP" /\ Kinds(e)
  BY <1>5 DEF Forest, Kinds
<1> QED
  BY <1>6, <1>7, <1>8, <1>9, <1>10 DEF Forest, e

(* Deleting: its components are left behind, and what moves to System has  *)
(* no members.                                                             *)
LEMMA RemoveForest ==
  ASSUME NEW d, Sound(d), Forest(d), Kinds(d), NEW o \in Objs \ {System},
         d.type[o] # "absent", d.parent_comp[o] # Freed, NEW order
  PROVE  Forest(RemoveObj(d, o, order)) /\ Kinds(RemoveObj(d, o, order))
<1> DEFINE u == Unlink(d, o)
           out == Forget(u, o)
           M == Moved(out, o)
           left == MoveToSystem(out, M, order)
           e == RemoveObj(d, o, order)
<1>0. /\ System \in Objs /\ NoComp \notin Objs /\ Freed \notin Objs /\ NoComp # Freed
      /\ d \in DbType /\ d.parent_comp[o] \in Objs
  BY ObjsAssumption DEF Forest, Present, Sound, DbType
<1>1. /\ Sound(u) /\ u.type = d.type /\ u.parent_comp[o] = NoComp
      /\ \A x \in Objs : x # o => u.parent_comp[x] = d.parent_comp[x]
  BY <1>0, UnlinkSound
<1>2. Lists(u) /\ u \in DbType
  BY <1>0, <1>1, UnlinkLists DEF Forest, Lists, Sound
<1> HIDE DEF u
<1>3. out.type = u.type /\ out.parent_comp = u.parent_comp /\ out.comps = u.comps /\ out \in DbType
  BY <1>2 DEF Forget, DbType
<1>4. M = {x \in Objs : out.parent_comp[x] = o /\ out.type[x] # "COMP"}
  BY DEF Moved, Members
<1> HIDE DEF out, M
<1>5. /\ left.type = out.type /\ left.comps = out.comps
      /\ left.parent_comp = [x \in Objs |-> IF x \in M THEN System ELSE out.parent_comp[x]]
  BY <1>3 DEF MoveToSystem, DbType
<1>6. /\ e.type = [left.type EXCEPT ![o] = "absent"]
      /\ e.comps = [left.comps EXCEPT ![o] = << >>]
      /\ e.parent_comp = [x \in Objs |-> IF left.parent_comp[x] = o THEN Freed
                                          ELSE left.parent_comp[x]]
  <2>1. e = [left EXCEPT
          !.type[o] = "absent",
          !.parent_comp = [x \in Objs |-> IF left.parent_comp[x] = o THEN Freed
                                          ELSE left.parent_comp[x]],
          !.comps[o] = << >>, !.top_depend[o] = {}, !.bottom_depend[o] = {}]
    BY DEF RemoveObj, left, M, out, u
  <2>2. /\ DOMAIN left = {"type", "parent_comp", "comps", "top_depend", "bottom_depend",
                          "child_depend", "parent_depend"}
    BY <1>3 DEF MoveToSystem, DbType
  <2> HIDE DEF e, left
  <2> QED
    BY <2>1, <2>2
<1> HIDE DEF left, e
<1>7. M \subseteq Objs \ {o} /\ \A x \in M : d.parent_comp[x] = o /\ d.type[x] # "COMP"
  BY <1>0, <1>1, <1>3, <1>4
<1>8. /\ e.type[o] = "absent" /\ \A x \in Objs \ {o} : e.type[x] = d.type[x]
      /\ e.parent_comp[o] = NoComp
      /\ \A x \in M : e.parent_comp[x] = System
      /\ \A x \in Objs \ (M \cup {o}) :
           e.parent_comp[x] = IF d.parent_comp[x] = o THEN Freed ELSE d.parent_comp[x]
  <2>1. e.type = [d.type EXCEPT ![o] = "absent"]
    BY <1>1, <1>3, <1>5, <1>6
  <2>2. e.type[o] = "absent" /\ \A x \in Objs \ {o} : e.type[x] = d.type[x]
    BY <1>0, <2>1 DEF DbType
  <2>3. \A x \in Objs : e.parent_comp[x] =
          IF (IF x \in M THEN System ELSE out.parent_comp[x]) = o THEN Freed
          ELSE IF x \in M THEN System ELSE out.parent_comp[x]
    BY <1>5, <1>6
  <2>4. out.parent_comp[o] = NoComp /\ \A x \in Objs \ {o} : out.parent_comp[x] = d.parent_comp[x]
    BY <1>1, <1>3
  <2> QED
    BY <1>0, <1>7, <2>2, <2>3, <2>4
<1>9. \A x \in Objs : e.parent_comp[x] # o
  BY <1>0, <1>8
<1>10. \A x \in Objs \ {o} : d.type[x] = "COMP" =>
         e.parent_comp[x] = IF d.parent_comp[x] = o THEN Freed ELSE d.parent_comp[x]
  BY <1>7, <1>8
<1>11. ASSUME NEW c \in Objs PROVE ListsMembers(e, c)
  <2>1. CASE c = o
    <3>1. e.comps[o] = << >>
      BY <1>3, <1>5, <1>6 DEF DbType
    <3>2. {x \in Members(e, o) : e.type[x] = "COMP"} = {}
      BY <1>9 DEF Members
    <3>3. IsInjective(<< >>) /\ ToSet(<< >>) = {}
      BY DEF IsInjective, ToSet
    <3> QED
      BY <2>1, <3>1, <3>2, <3>3 DEF ListsMembers
  <2>2. CASE c # o
    <3>1. e.comps[c] = u.comps[c] /\ ListsMembers(u, c)
      BY <1>2, <1>3, <1>5, <1>6, <2>2 DEF Lists, DbType
    <3>2. ASSUME NEW x \in Objs
          PROVE  (e.parent_comp[x] = c /\ e.type[x] = "COMP")
                   <=> (u.parent_comp[x] = c /\ u.type[x] = "COMP")
      <4>1. CASE x = o
        BY <1>0, <1>1, <1>8, <4>1
      <4>2. CASE x # o
        BY <1>0, <1>1, <1>8, <1>10, <2>2, <4>2
      <4> QED
        BY <4>1, <4>2
    <3> QED
      BY <3>1, <3>2, SameList
  <2> QED
    BY <2>1, <2>2
<1>12. NoRing(e.parent_comp)
  <2> SUFFICES ASSUME NEW S \in SUBSET Objs, S # {}, \A x \in S : e.parent_comp[x] \in S
               PROVE  FALSE
    BY DEF NoRing
  <2> DEFINE R == S \ M
  <2>1. ASSUME NEW x \in R PROVE d.parent_comp[x] \in R
    <3>1. x # o /\ e.parent_comp[x] = d.parent_comp[x] /\ d.parent_comp[x] \in S
      BY <1>0, <1>8
    <3>2. d.parent_comp[x] \notin M
      BY <1>7, <3>1 DEF Forest
    <3> QED
      BY <3>1, <3>2
  <2>2. R # {}
    <3> SUFFICES ASSUME S \subseteq M PROVE FALSE
      OBVIOUS
    <3>1. System \in M
      BY <1>8
    <3> QED
      BY <1>7, <3>1 DEF Forest
  <2> HIDE DEF R
  <2>3. R \in SUBSET Objs
    BY DEF R
  <2> QED
    BY <2>1, <2>2, <2>3 DEF Forest, NoRing
<1>13. \A x \in Present(e) \ {System} : e.parent_comp[x] # NoComp
  <2> SUFFICES ASSUME NEW x \in Objs \ {System}, e.type[x] # "absent"
               PROVE  e.parent_comp[x] # NoComp
    BY DEF Present
  <2>1. x # o /\ d.parent_comp[x] # NoComp
    BY <1>8 DEF Forest, Present
  <2> QED
    BY <1>0, <1>8, <2>1
<1>14. e.type[System] = "COMP"
  BY <1>0, <1>8 DEF Forest
<1>15. ASSUME NEW x \in Objs, e.parent_comp[x] \in Objs PROVE e.type[e.parent_comp[x]] = "COMP"
  <2>1. CASE x \in M
    BY <1>8, <1>14, <2>1
  <2>2. CASE x \notin M
    <3>1. x # o /\ e.parent_comp[x] = d.parent_comp[x]
      BY <1>0, <1>8, <1>15, <2>2
    <3> QED
      BY <1>8, <1>9, <1>15, <3>1 DEF Forest
  <2> QED
    BY <2>1, <2>2
<1>16. Kinds(e)
  BY <1>8 DEF Kinds
<1> QED
  BY <1>11, <1>12, <1>13, <1>14, <1>15, <1>16 DEF Forest, e

-----------------------------------------------------------------------------
(* Walks over the components of a forest                                   *)

(* A component is below its own, and below a peer is nothing else.         *)
LEMMA PeerIs ==
  ASSUME NEW d, d \in DbType, Forest(d), NEW z \in Objs, Peers(d, z) # {}
  PROVE  /\ Peer(d, z) \in Objs /\ d.parent_comp[z] \in Objs
         /\ d.parent_comp[Peer(d, z)] = d.parent_comp[z]
         /\ d.type[Peer(d, z)] = "COMP"
         /\ \E i \in 1..(Len(d.comps[d.parent_comp[z]]) - 1) :
              d.comps[d.parent_comp[z]][i] = z /\ d.comps[d.parent_comp[z]][i + 1] = Peer(d, z)
<1> DEFINE c == d.parent_comp[z]
           s == d.comps[c]
           q == Peer(d, z)
<1>1. c \in Objs
  BY DEF Peers
<1>2. s \in Seq(Objs) /\ Listed(d, c)
  <2>1. ListsMembers(d, c)
    BY <1>1 DEF Forest
  <2> QED
    BY <1>1, <2>1, ListsMembersIs DEF DbType
<1>3. q \in Peers(d, z)
  BY DEF Peer
<1>4. Peers(d, z) = {s[i + 1] : i \in {j \in 1..(Len(s) - 1) : s[j] = z}}
  BY <1>1 DEF Peers
<1> HIDE DEF q
<1>5. PICK i \in 1..(Len(s) - 1) : s[i] = z /\ s[i + 1] = q
  BY <1>3, <1>4
<1>6. i + 1 \in 1..Len(s)
  BY <1>2
<1>7. s[i + 1] \in Objs
  BY <1>2, <1>6
<1>8. d.parent_comp[s[i + 1]] = c /\ d.type[s[i + 1]] = "COMP"
  BY <1>2, <1>6 DEF Listed
<1> HIDE DEF s, c
<1>9. q \in Objs /\ d.parent_comp[q] = c /\ d.type[q] = "COMP"
  BY <1>5, <1>7, <1>8
<1> QED
  BY <1>1, <1>5, <1>9 DEF q, s, c

(* The peer of a component is the one after it in the list.                *)
LEMMA NextOnList ==
  ASSUME NEW d, d \in DbType, Forest(d), NEW x \in Objs, NEW i \in 1..(Len(d.comps[x]) - 1)
  PROVE  /\ d.comps[x][i] \in Objs /\ d.parent_comp[d.comps[x][i]] = x
         /\ Peers(d, d.comps[x][i]) # {} /\ Peer(d, d.comps[x][i]) = d.comps[x][i + 1]
<1> DEFINE s == d.comps[x]
           z == s[i]
<1>1. s \in Seq(Objs) /\ Listed(d, x) /\ Len(s) \in Nat
  <2>1. s \in Seq(Objs)
    BY DEF DbType
  <2>2. ListsMembers(d, x)
    BY DEF Forest
  <2>3. Listed(d, x)
    BY <2>2, ListsMembersIs
  <2> QED
    BY <2>1, <2>3
<1>2. i \in 1..Len(s) /\ i + 1 \in 1..Len(s)
  BY <1>1
<1>3. z \in Objs /\ d.parent_comp[z] = x
  BY <1>1, <1>2 DEF Listed
<1>4. Peers(d, z) = {s[j + 1] : j \in {k \in 1..(Len(s) - 1) : s[k] = z}}
  BY <1>3 DEF Peers
<1>5. {k \in 1..(Len(s) - 1) : s[k] = z} = {i}
  <2> SUFFICES ASSUME NEW k \in 1..(Len(s) - 1), s[k] = s[i] PROVE k = i
    OBVIOUS
  <2>1. k \in 1..Len(s)
    BY <1>1
  <2> QED
    BY <1>1, <1>2, <2>1 DEF Listed
<1> HIDE DEF s, z
<1>6. Peers(d, z) = {s[i + 1]}
  BY <1>4, <1>5
<1>7. Peer(d, z) = s[i + 1]
  BY <1>6 DEF Peer
<1> QED
  BY <1>3, <1>6, <1>7 DEF s, z

(* The first in a component.                                               *)
LEMMA HeadIs ==
  ASSUME NEW d, d \in DbType, Forest(d), NEW x \in Objs, d.comps[x] # << >>
  PROVE  /\ Head(d.comps[x]) = d.comps[x][1] /\ Head(d.comps[x]) \in Objs
         /\ d.parent_comp[Head(d.comps[x])] = x /\ d.type[Head(d.comps[x])] = "COMP"
<1>1. d.comps[x] \in Seq(Objs) /\ Listed(d, x)
  <2>1. ListsMembers(d, x)
    BY DEF Forest
  <2> QED
    BY <2>1, ListsMembersIs DEF DbType
<1>2. 1 \in 1..Len(d.comps[x]) /\ Head(d.comps[x]) = d.comps[x][1]
  BY <1>1
<1>3. d.comps[x][1] \in Objs
  BY <1>1, <1>2
<1> QED
  BY <1>1, <1>2, <1>3 DEF Listed

(* A walk that comes to the first of a list and to the end (NoComp), and   *)
(* leaves what is below one of the list only to the next of the list, or   *)
(* for good (Freed), comes to every one of the list.                       *)
LEMMA WalkThrough ==
  ASSUME NEW N \in Nat, NEW f \in [0..N -> Places], f[N] = NoComp,
         NEW s \in Seq(Objs), s # << >>, \E n \in 0..N : f[n] = s[1],
         NEW under \in [1..Len(s) -> SUBSET Objs], \A i \in 1..Len(s) : s[i] \in under[i],
         \A i \in 1..(Len(s) - 1), m, n \in 0..N :
           n = m + 1 /\ f[m] \in under[i] => f[n] \in under[i] \cup {Freed, s[i + 1]},
         \A m, n \in 0..N : n = m + 1 /\ f[m] = Freed => f[n] = Freed
  PROVE  \A i \in 1..Len(s) : \E n \in 0..N : f[n] = s[i]
<1> DEFINE met(x) == \E n \in 0..N : f[n] = x
           T == {k \in Nat : k + 1 \in 1..Len(s) => met(s[k + 1])}
<1>0. Len(s) \in Nat \ {0} /\ NoComp # Freed /\ NoComp \notin Objs
  BY ObjsAssumption
<1>1. 0 \in T
  OBVIOUS
<1>2. ASSUME NEW k \in 0..(Len(s) - 1), k \in T PROVE k + 1 \in T
  <2> SUFFICES ASSUME (k + 1) + 1 \in 1..Len(s), ~met(s[(k + 1) + 1]) PROVE FALSE
    OBVIOUS
  <2> DEFINE i == k + 1
  <2>1. i \in 1..(Len(s) - 1) /\ i \in 1..Len(s)
    BY <1>0
  <2>2. PICK m \in 0..N : f[m] = s[i]
    BY <1>2, <2>1
  <2> DEFINE U == {n \in Nat : n \in 0..N => n < m \/ f[n] \in under[i] \cup {Freed}}
  <2>3. 0 \in U
    BY <2>1, <2>2
  <2>4. ASSUME NEW n \in 0..(N - 1), n \in U PROVE n + 1 \in U
    <3> SUFFICES ASSUME n + 1 \in 0..N, ~(n + 1 < m)
                 PROVE  f[n + 1] \in under[i] \cup {Freed}
      OBVIOUS
    <3>1. CASE n + 1 = m
      BY <2>1, <2>2, <3>1
    <3>2. CASE n + 1 # m
      <4>1. n \in 0..N /\ ~(n < m)
        BY <3>2
      <4>2. f[n] \in under[i] \cup {Freed}
        BY <2>4, <4>1
      <4>3. CASE f[n] = Freed
        BY <4>1, <4>3
      <4>4. CASE f[n] \in under[i]
        <5>1. f[n + 1] \in under[i] \cup {Freed, s[i + 1]}
          BY <2>1, <4>1, <4>4
        <5>2. f[n + 1] # s[i + 1]
          OBVIOUS
        <5> QED
          BY <5>1, <5>2
      <4> QED
        BY <4>2, <4>3, <4>4
    <3> QED
      BY <3>1, <3>2
  <2> HIDE DEF U
  <2>5. \A n \in 0..N : n \in U
    BY <2>3, <2>4, UpTo
  <2>6. N \in U /\ N \in 0..N /\ ~(N < m)
    BY <2>5
  <2>7. f[N] \in under[i] \cup {Freed}
    BY <2>6 DEF U
  <2>8. under[i] \subseteq Objs
    BY <2>1
  <2> QED
    BY <1>0, <2>7, <2>8
<1> HIDE DEF T
<1>3. \A k \in 0..Len(s) : k \in T
  BY <1>0, <1>1, <1>2, UpTo
<1>4. ASSUME NEW i \in 1..Len(s) PROVE met(s[i])
  <2>1. i - 1 \in 0..Len(s) /\ (i - 1) + 1 = i
    BY <1>0
  <2>2. i - 1 \in T
    BY <1>3, <2>1
  <2> QED
    BY <2>1, <2>2 DEF T
<1> QED
  BY <1>4

(* A step to a peer stays below z, or is the one to the peer of z.         *)
LEMMA PeerUnder ==
  ASSUME NEW d, d \in DbType, Forest(d), NEW z \in Objs, NEW w \in Below(d.parent_comp, z),
         Peers(d, w) # {}
  PROVE  Peer(d, w) \in Below(d.parent_comp, z) \cup {Peer(d, z)}
<1> SUFFICES ASSUME w # z PROVE Peer(d, w) \in Below(d.parent_comp, z)
  OBVIOUS
<1>1. w \in Objs
  BY DEF Below
<1>2. d.parent_comp[w] \in Below(d.parent_comp, z)
  BY BelowIs
<1>3. Peer(d, w) \in Objs /\ d.parent_comp[Peer(d, w)] = d.parent_comp[w]
  BY <1>1, PeerIs
<1>4. HoldsBelow(d.parent_comp, Below(d.parent_comp, z))
  BY BelowIs
<1> QED
  BY <1>2, <1>3, <1>4 DEF HoldsBelow

(* So is a step to the first in a component.                               *)
LEMMA HeadUnder ==
  ASSUME NEW d, d \in DbType, Forest(d), NEW z \in Objs, NEW w \in Below(d.parent_comp, z),
         d.comps[w] # << >>
  PROVE  Head(d.comps[w]) \in Below(d.parent_comp, z)
<1>1. w \in Objs
  BY DEF Below
<1>2. Head(d.comps[w]) \in Objs /\ d.parent_comp[Head(d.comps[w])] = w
  BY <1>1, HeadIs
<1>3. HoldsBelow(d.parent_comp, Below(d.parent_comp, z))
  BY BelowIs
<1> QED
  BY <1>2, <1>3 DEF HoldsBelow

(* comp_get_next_contained within c: what it leaves, z in c, it leaves for *)
(* the peer of z, or for a stray pointer.                                  *)
LEMMA ContainedUnder ==
  ASSUME NEW d, d \in DbType, Forest(d), NEW c \in Objs, NEW z \in Objs,
         d.parent_comp[z] \in Below(d.parent_comp, c), Peers(d, z) # {},
         NEW w \in Below(d.parent_comp, z)
  PROVE  NextContained(d, c, w) \in Below(d.parent_comp, z) \cup {Freed, Peer(d, z)}
<1> DEFINE B == Below(d.parent_comp, z)
           up == d.parent_comp[w]
<1>1. B \subseteq Objs /\ NoRing(d.parent_comp) /\ NoComp \notin Objs
  BY ObjsAssumption DEF Below, Forest
<1>2. c \notin B
  <2> SUFFICES ASSUME c \in B PROVE FALSE
    OBVIOUS
  <2>1. Below(d.parent_comp, c) \subseteq B
    BY BelowIs
  <2> QED
    BY <1>1, <2>1, NotBelow
<1>3. CASE d.comps[w] # << >>
  <2>1. NextContained(d, c, w) = Head(d.comps[w])
    BY <1>3 DEF NextContained
  <2> QED
    BY <1>3, <2>1, HeadUnder
<1>4. CASE d.comps[w] = << >> /\ Peers(d, w) # {}
  <2>1. NextContained(d, c, w) = Peer(d, w)
    BY <1>2, <1>4 DEF NextContained
  <2> QED
    BY <1>4, <2>1, PeerUnder
<1>5. CASE d.comps[w] = << >> /\ Peers(d, w) = {}
  <2>1. w # z
    BY <1>5
  <2>2. up \in B
    BY <2>1, BelowIs
  <2>3. up \in Objs /\ up \notin {c, NoComp}
    BY <1>1, <1>2, <2>2
  <2>4. NextContained(d, c, w) = IF Peers(d, up) # {} THEN Peer(d, up) ELSE Freed
    BY <1>2, <1>5, <2>3 DEF NextContained
  <2>5. Peers(d, up) # {} => Peer(d, up) \in B \cup {Peer(d, z)}
    BY <2>2, PeerUnder
  <2> QED
    BY <2>4, <2>5
<1> QED
  BY <1>3, <1>4, <1>5

(* And what it comes to is in c.                                           *)
LEMMA ContainedIn ==
  ASSUME NEW d, d \in DbType, Forest(d), NEW c \in Objs, NEW w \in Objs,
         w = c \/ d.parent_comp[w] \in Below(d.parent_comp, c)
  PROVE  LET y == NextContained(d, c, w)
         IN  y \in {NoComp, Freed}
             \/ (y \in Objs /\ d.parent_comp[y] \in Below(d.parent_comp, c))
<1> DEFINE B == Below(d.parent_comp, c)
           up == d.parent_comp[w]
           y == NextContained(d, c, w)
<1>1. /\ B \subseteq Objs /\ NoRing(d.parent_comp) /\ NoComp \notin Objs
      /\ c \in B /\ \A x \in Objs : d.parent_comp[x] \in B => x \in B
      /\ \A x \in B \ {c} : d.parent_comp[x] \in B
  <2>1. B \subseteq Objs /\ NoRing(d.parent_comp) /\ NoComp \notin Objs
    BY ObjsAssumption DEF Below, Forest
  <2>2. c \in B /\ HoldsBelow(d.parent_comp, B)
    BY BelowIs
  <2>3. \A x \in B \ {c} : d.parent_comp[x] \in B
    BY BelowIs
  <2> QED
    BY <2>1, <2>2, <2>3 DEF HoldsBelow
<1>2. CASE d.comps[w] # << >>
  <2>1. y = Head(d.comps[w])
    BY <1>2 DEF NextContained
  <2>2. y \in Objs /\ d.parent_comp[y] = w
    BY <1>2, <2>1, HeadIs
  <2>3. w \in B
    BY <1>1
  <2> HIDE DEF y
  <2> QED
    BY <2>2, <2>3 DEF y
<1>3. CASE d.comps[w] = << >> /\ w = c
  BY <1>3 DEF NextContained
<1>4. CASE d.comps[w] = << >> /\ w # c /\ Peers(d, w) # {}
  <2>1. y = Peer(d, w)
    BY <1>4 DEF NextContained
  <2>2. y \in Objs /\ d.parent_comp[y] = up
    BY <1>4, <2>1, PeerIs
  <2> HIDE DEF y
  <2> QED
    BY <1>4, <2>2 DEF y
<1>5. CASE d.comps[w] = << >> /\ w # c /\ Peers(d, w) = {}
  <2>1. \/ y \in {NoComp, Freed}
        \/ up \notin {c, NoComp} /\ up \in Objs /\ Peers(d, up) # {} /\ y = Peer(d, up)
    BY <1>5 DEF NextContained
  <2> HIDE DEF y
  <2>2. ASSUME up # c, up \in Objs, Peers(d, up) # {}, y = Peer(d, up)
        PROVE  y \in Objs /\ d.parent_comp[y] \in B
    <3>1. y \in Objs /\ d.parent_comp[y] = d.parent_comp[up]
      BY <2>2, PeerIs
    <3>2. d.parent_comp[up] \in B
      BY <1>1, <1>5, <2>2
    <3> QED
      BY <3>1, <3>2
  <2> QED
    BY <2>1, <2>2 DEF y
<1> QED
  BY <1>2, <1>3, <1>4, <1>5

LEMMA ContainedPlace ==
  ASSUME NEW d, d \in DbType, Forest(d), NEW c \in Objs, NEW x \in Objs
  PROVE  NextContained(d, c, x) \in Places
<1> DEFINE up == d.parent_comp[x]
<1>1. d.comps[x] # << >> => Head(d.comps[x]) \in Places
  BY HeadIs DEF Places
<1>2. Peers(d, x) # {} => Peer(d, x) \in Places
  BY PeerIs DEF Places
<1>3. up \in Objs /\ Peers(d, up) # {} => Peer(d, up) \in Places
  BY PeerIs DEF Places
<1>4. NoComp \in Places /\ Freed \in Places
  BY DEF Places
<1> QED
  BY <1>1, <1>2, <1>3, <1>4 DEF NextContained

(* When the check of swdiag_comp_contains finds no loop, its walk has been *)
(* to every component in o, and none is p.                                 *)
LEMMA LoopApart ==
  ASSUME NEW d, d \in DbType, Forest(d), NEW p \in Objs, NEW o \in Objs, p # o,
         d.type[p] = "COMP", LoopCheck(d, p, o) = "clear"
  PROVE  Apart(d, p, o)
<1>1. CASE d.type[o] # "COMP"
  <2>1. \A x \in Objs : d.parent_comp[x] \notin {o}
    BY <1>1 DEF Forest
  <2>2. {o} \in SUBSET Objs /\ o \in {o} /\ p \notin {o}
    OBVIOUS
  <2> QED
    BY <2>1, <2>2 DEF Apart
<1>2. CASE d.type[o] = "COMP"
  <2> DEFINE N == 2 * Cardinality(Objs)
             next == Search(d, p, o)
             f == Iterate(next, NextContained(d, o, o), N)
             B == Below(d.parent_comp, o)
  <2>1. N \in Nat
    <3>1. Cardinality(Objs) \in Nat
      BY ObjsAssumption, FS_CardinalityType
    <3> QED
      BY <3>1
  <2>2. /\ next \in [Places -> Places]
        /\ \A x \in Objs \ {p} : next[x] = NextContained(d, o, x)
        /\ \A x \in Places \ (Objs \ {p}) : next[x] = x
    <3>1. \A x \in Objs : NextContained(d, o, x) \in Places
      BY ContainedPlace
    <3> QED
      BY <3>1 DEF Search, Places
  <2>3. f[N] = NoComp
    <3>1. p \notin {NoComp, Freed} /\ NoComp # Freed
      BY ObjsAssumption
    <3>2. LoopCheck(d, p, o) =
            CASE d.type[o] # "COMP"                   -> "clear"
              [] d.type[o] = "COMP" /\ f[N] = NoComp -> "clear"
              [] d.type[o] = "COMP" /\ f[N] = Freed  -> "broken"
              [] d.type[o] = "COMP" /\ f[N] = p      -> "loop"
              [] OTHER                                -> "hung"
      BY DEF LoopCheck
    <3> HIDE DEF f, N
    <3> QED
      BY <1>2, <3>1, <3>2
  <2> HIDE DEF N, next
  <2>4. NextContained(d, o, o) \in Places
    BY ContainedPlace
  <2>5. IsWalk(f, Places, next, NextContained(d, o, o), N)
    BY <2>1, <2>2, <2>4, IterateIs
  <2> HIDE DEF f
  <2>6. /\ f \in [0..N -> Places] /\ f[0] = NextContained(d, o, o)
        /\ \A m, n \in 0..N : n = m + 1 => f[n] = next[f[m]]
    BY <2>5 DEF IsWalk
  <2>7. NoComp \notin Objs /\ Freed \notin Objs /\ NoComp # Freed /\ Places = Objs \cup {NoComp, Freed}
    BY ObjsAssumption DEF Places
  <2>8. \A n \in 0..N : f[n] # p
    <3> SUFFICES ASSUME NEW k \in 0..N, f[k] = p PROVE FALSE
      OBVIOUS
    <3> DEFINE T == {n \in Nat : n \in 0..N => n < k \/ f[n] = p}
    <3>1. 0 \in T
      BY <2>1
    <3>2. ASSUME NEW n \in 0..(N - 1), n \in T PROVE n + 1 \in T
      <4>1. n \in 0..N /\ n + 1 \in 0..N
        BY <2>1
      <4>2. n < k \/ f[n] = p
        BY <3>2, <4>1
      <4>3. f[n] = p => f[n + 1] = p
        <5>1. f[n + 1] = next[f[n]]
          BY <2>6, <4>1
        <5>2. next[p] = p
          BY <2>2, <2>7
        <5> QED
          BY <5>1, <5>2
      <4>4. n + 1 < k \/ f[n + 1] = p
        BY <4>1, <4>2, <4>3
      <4> QED
        BY <4>4
    <3> HIDE DEF T
    <3>3. \A n \in 0..N : n \in T
      BY <2>1, <3>1, <3>2, UpTo
    <3>4. f[N] = p
      BY <2>1, <3>3 DEF T
    <3> QED
      BY <2>3, <2>7, <3>4
  <2>9. \A m, n \in 0..N : n = m + 1 /\ f[m] \in Objs => f[n] = NextContained(d, o, f[m])
    BY <2>2, <2>6, <2>8
  <2>10. \A m, n \in 0..N : n = m + 1 /\ f[m] \notin Objs => f[n] = f[m]
    <3>1. \A m \in 0..N : f[m] \in Places
      BY <2>6
    <3> QED
      BY <2>2, <2>6, <3>1
  <2>11. \A n \in 0..N : f[n] \in Objs => d.parent_comp[f[n]] \in B
    <3> DEFINE T == {n \in Nat : n \in 0..N /\ f[n] \in Objs => d.parent_comp[f[n]] \in B}
    <3>1. 0 \in T
      BY <2>6, <2>7, ContainedIn
    <3>2. ASSUME NEW n \in 0..(N - 1), n \in T PROVE n + 1 \in T
      <4>1. n \in 0..N /\ n + 1 \in 0..N
        BY <2>1
      <4>2. ASSUME f[n + 1] \in Objs PROVE d.parent_comp[f[n + 1]] \in B
        <5>1. f[n] \in Objs
          BY <2>10, <4>1, <4>2
        <5>2. f[n + 1] = NextContained(d, o, f[n])
          BY <2>9, <4>1, <5>1
        <5>3. d.parent_comp[f[n]] \in B
          BY <3>2, <4>1, <5>1
        <5>4. \/ NextContained(d, o, f[n]) \in {NoComp, Freed}
              \/ d.parent_comp[NextContained(d, o, f[n])] \in B
          BY <5>1, <5>3, ContainedIn
        <5> QED
          BY <2>7, <4>2, <5>2, <5>4
      <4> QED
        BY <4>2
    <3> HIDE DEF T
    <3>3. \A n \in 0..N : n \in T
      BY <2>1, <3>1, <3>2, UpTo
    <3> QED
      BY <3>3 DEF T
  <2> DEFINE V == {o} \cup {x \in Objs : \E n \in 0..N : f[n] = x}
  <2>12. ASSUME NEW y \in Objs, d.type[y] = "COMP", d.parent_comp[y] \in V PROVE y \in V
    <3> DEFINE x == d.parent_comp[y]
               s == d.comps[x]
               under == [i \in 1..Len(s) |-> Below(d.parent_comp, s[i])]
    <3>1. x \in Objs /\ x \in B
      <4>1. o \in B /\ HoldsBelow(d.parent_comp, B)
        BY BelowIs
      <4> QED
        BY <2>11, <2>12, <4>1 DEF HoldsBelow
    <3>2. s \in Seq(Objs) /\ Listed(d, x)
      <4>1. ListsMembers(d, x)
        BY <3>1 DEF Forest
      <4> QED
        BY <3>1, <4>1, ListsMembersIs DEF DbType
    <3>3. PICK j \in 1..Len(s) : s[j] = y
      BY <2>12, <3>2 DEF Listed
    <3>4. s # << >>
      BY <3>2, <3>3
    <3>5. \E n \in 0..N : f[n] = s[1]
      <4>1. NextContained(d, o, x) = s[1]
        <5>1. Head(s) = s[1]
          BY <3>1, <3>4, HeadIs
        <5> QED
          BY <3>4, <5>1 DEF NextContained
      <4>2. CASE x = o
        <5>1. 0 \in 0..N
          BY <2>1
        <5> QED
          BY <2>6, <4>1, <4>2, <5>1
      <4>3. CASE x # o
        <5>1. PICK m \in 0..N : f[m] = x
          BY <2>12, <4>3
        <5>2. m + 1 \in 0..N
          BY <2>1, <2>3, <2>7, <3>1, <5>1
        <5>3. f[m + 1] = NextContained(d, o, f[m])
          BY <2>9, <3>1, <5>1, <5>2
        <5> QED
          BY <4>1, <5>1, <5>2, <5>3
      <4> QED
        BY <4>2, <4>3
    <3>6. under \in [1..Len(s) -> SUBSET Objs] /\ \A i \in 1..Len(s) : s[i] \in under[i]
      <4>1. \A i \in 1..Len(s) : s[i] \in Objs
        BY <3>2
      <4>2. \A i \in 1..Len(s) : s[i] \in Below(d.parent_comp, s[i])
        BY <4>1, BelowIs
      <4> QED
        BY <4>2 DEF Below
    <3>7. ASSUME NEW i \in 1..(Len(s) - 1), NEW m \in 0..N, NEW n \in 0..N,
                 n = m + 1, f[m] \in under[i]
          PROVE  f[n] \in under[i] \cup {Freed, s[i + 1]}
      <4>1. i \in 1..Len(s)
        BY <3>2
      <4>2. f[m] \in Below(d.parent_comp, s[i]) /\ f[m] \in Objs
        BY <3>7, <4>1 DEF Below
      <4>3. /\ s[i] \in Objs /\ d.parent_comp[s[i]] \in Below(d.parent_comp, o)
            /\ Peers(d, s[i]) # {} /\ Peer(d, s[i]) = s[i + 1]
        <5> HIDE DEF x
        <5> QED
          BY <3>1, NextOnList
      <4>4. f[n] = NextContained(d, o, f[m])
        BY <2>9, <3>7, <4>2
      <4> HIDE DEF s, x
      <4>5. NextContained(d, o, f[m]) \in Below(d.parent_comp, s[i]) \cup {Freed, Peer(d, s[i])}
        BY <4>2, <4>3, ContainedUnder
      <4> QED
        BY <4>1, <4>3, <4>4, <4>5 DEF s, x
    <3>8. \A m, n \in 0..N : n = m + 1 /\ f[m] = Freed => f[n] = Freed
      BY <2>7, <2>10
    <3> HIDE DEF s, x, under
    <3>9. \A i \in 1..Len(s) : \E n \in 0..N : f[n] = s[i]
      BY <2>1, <2>3, <2>6, <3>2, <3>4, <3>5, <3>6, <3>7, <3>8, WalkThrough
    <3> QED
      BY <3>3, <3>9
  <2>13. V \in SUBSET Objs /\ o \in V /\ p \notin V
    BY <2>8
  <2> HIDE DEF V
  <2> QED
    BY <2>12, <2>13 DEF Apart
<1> QED
  BY <1>1, <1>2

-----------------------------------------------------------------------------
(* The forest is inductive                                                 *)

(* What the client has to see to itself: the check of swdiag_comp_contains *)
(* lets a component into itself.                                           *)
NoSelfContainment == \A c \in CompNames : <<c, c>> \notin Containments

TreeInv == IInv /\ Forest(db) /\ Kinds(db)

LEMMA InitTree == Init => Forest(db) /\ Kinds(db)
<1> SUFFICES ASSUME Init PROVE Forest(db) /\ Kinds(db)
  OBVIOUS
<1>0. System \in Objs /\ System \in CompNames /\ NoComp \notin Objs
  BY ObjsAssumption
<1>1. /\ db.type = [o \in Objs |-> IF o = System THEN "COMP" ELSE "absent"]
      /\ db.parent_comp = [o \in Objs |-> NoComp] /\ db.comps = [o \in Objs |-> << >>]
  BY DEF Init, EmptyDb
<1>2. ASSUME NEW c \in Objs PROVE ListsMembers(db, c)
  <2>1. IsInjective(<< >>) /\ ToSet(<< >>) = {}
    BY DEF IsInjective, ToSet
  <2>2. Members(db, c) = {}
    BY <1>0, <1>1 DEF Members
  <2> QED
    BY <1>1, <2>1, <2>2 DEF ListsMembers
<1>3. NoRing(db.parent_comp)
  BY <1>0, <1>1 DEF NoRing
<1> QED
  BY <1>0, <1>1, <1>2, <1>3 DEF Forest, Kinds, Kind, Present

(* Containing.                                                             *)
(* The database that swdiag_comp_contains searches: p and o created.       *)
LEMMA FoundTree ==
  ASSUME NoSelfContainment, TreeInv, NEW p \in CompNames, NEW o \in Objs, CompContains(p, o)
  PROVE  LET d == GetAny(GetOrCreate(db, p, "COMP"), o)
         IN  /\ p \in Objs /\ p # o /\ Sound(d) /\ o \in Present(d)
             /\ Forest(d) /\ Kinds(d) /\ d.type[p] = "COMP"
<1> DEFINE g == GetOrCreate(db, p, "COMP")
           d == GetAny(g, o)
<1>0. p \in Objs /\ "COMP" = Kind(p) /\ p # o
  BY ObjsAssumption DEF Kind, CompContains, NoSelfContainment
<1>1. Sound(g)
  BY <1>0, GetOrCreateSound DEF TreeInv, IInv, Types
<1>2. Forest(g) /\ Kinds(g) /\ g.type[p] = "COMP"
  <2>1. /\ Forest(GetOrCreate(db, p, Kind(p))) /\ Kinds(GetOrCreate(db, p, Kind(p)))
        /\ GetOrCreate(db, p, Kind(p)).type[p] = Kind(p)
    BY <1>0, GetOrCreateForest DEF TreeInv, IInv
  <2> QED
    BY <1>0, <2>1
<1> HIDE DEF g
<1>3. Sound(d) /\ o \in Present(d)
  BY <1>1, GetAnySound
<1>4. Forest(d) /\ Kinds(d) /\ d.type[p] = "COMP"
  BY <1>0, <1>1, <1>2, GetAnyForest
<1> QED
  BY <1>0, <1>3, <1>4 DEF g, d

LEMMA ContainsTree ==
  ASSUME NoSelfContainment, TreeInv, NEW p \in CompNames, NEW o \in Objs, CompContains(p, o)
  PROVE  Forest(db') /\ Kinds(db')
<1> DEFINE d == GetAny(GetOrCreate(db, p, "COMP"), o)
<1>0. p \in Objs /\ p # o /\ Sound(d) /\ o \in Present(d)
      /\ Forest(d) /\ Kinds(d) /\ d.type[p] = "COMP"
  BY FoundTree
<1>1. \/ db' = d
      \/ db' = Contain(d, p, o) /\ LoopCheck(d, p, o) = "clear" /\ d.parent_comp[o] # Freed
  BY DEF CompContains
<1> HIDE DEF d
<1>2. CASE db' = d
  BY <1>0, <1>2
<1>3. CASE db' = Contain(d, p, o) /\ LoopCheck(d, p, o) = "clear" /\ d.parent_comp[o] # Freed
  <2>1. Apart(d, p, o)
    BY <1>0, <1>3, LoopApart DEF Sound
  <2>2. Forest(Contain(d, p, o)) /\ Kinds(Contain(d, p, o))
    BY <1>0, <1>3, <2>1, ContainForest
  <2> QED
    BY <1>3, <2>2
<1> QED
  BY <1>1, <1>2, <1>3

(* Deleting.                                                               *)
LEMMA DeleteTree ==
  ASSUME TreeInv, NEW o \in Objs, DeleteObj(o)
  PROVE  Forest(db') /\ Kinds(db')
<1>1. CASE db.parent_comp[o] = Freed
  BY <1>1 DEF DeleteObj, TreeInv
<1>2. CASE db.parent_comp[o] # Freed
  <2>1. PICK order : db' = RemoveObj(db, o, order)
    BY <1>2 DEF DeleteObj
  <2>2. o \in Objs \ {System} /\ db.type[o] # "absent"
    BY DependenciesAssumption DEF DeleteObj, Present
  <2>3. Forest(RemoveObj(db, o, order)) /\ Kinds(RemoveObj(db, o, order))
    BY <1>2, <2>2, RemoveForest DEF TreeInv, IInv
  <2> QED
    BY <2>1, <2>3
<1> QED
  BY <1>1, <1>2

(* Depending: the names are created in System, nothing moves.              *)
LEMMA DependTree ==
  ASSUME TreeInv, NEW p \in Objs, NEW c \in Objs, DependCreate(p, c)
  PROVE  Forest(db') /\ Kinds(db')
<1> DEFINE g == GetAny(db, p)
           d == GetAny(g, c)
<1>1. Sound(g) /\ Forest(g) /\ Kinds(g)
  BY GetAnySound, GetAnyForest DEF TreeInv, IInv
<1> HIDE DEF g
<1>2. Sound(d) /\ Forest(d) /\ Kinds(d)
  BY <1>1, GetAnySound, GetAnyForest
<1>3. db' = d \/ db' = Connect(d, p, c)
  BY DEF DependCreate, LinkInDomain, LinkAcross, Refuse, g
<1> HIDE DEF d
<1>4. Forest(Connect(d, p, c)) /\ Kinds(Connect(d, p, c))
  BY <1>2, ConnectForest
<1> QED
  BY <1>2, <1>3, <1>4

LEMMA NextTree == NoSelfContainment => (TreeInv /\ [Next]_vars => TreeInv')
<1> SUFFICES ASSUME NoSelfContainment, TreeInv, [Next]_vars PROVE TreeInv'
  OBVIOUS
<1>1. IInv'
  BY NextIInv DEF TreeInv
<1>2. CASE UNCHANGED vars
  BY <1>1, <1>2 DEF vars, TreeInv
<1>3. ASSUME NEW o \in Objs, CreateObj(o) PROVE Forest(db') /\ Kinds(db')
  BY <1>3, GetOrCreateForest DEF CreateObj, TreeInv, IInv
<1>4. ASSUME NEW o \in Objs, DeleteObj(o) PROVE Forest(db') /\ Kinds(db')
  BY <1>4, DeleteTree
<1>5. ASSUME NEW p \in CompNames, NEW o \in Objs, CompContains(p, o)
      PROVE  Forest(db') /\ Kinds(db')
  BY <1>5, ContainsTree
<1>6. ASSUME NEW p \in Objs, NEW c \in Objs, DependCreate(p, c) PROVE Forest(db') /\ Kinds(db')
  BY <1>6, DependTree
<1> QED
  BY <1>1, <1>2, <1>3, <1>4, <1>5, <1>6 DEF Next, TreeInv

LEMMA TreeInvariant == ASSUME NoSelfContainment PROVE Spec => []TreeInv
<1>1. Init => TreeInv
  BY InitIInv, InitTree DEF TreeInv
<1>2. TreeInv /\ [Next]_vars => TreeInv'
  BY NextTree
<1> QED
  BY <1>1, <1>2, PTL DEF Spec

(* Whatever is created, converted, moved and deleted, containment is a     *)
(* forest and the list of each component has the components in it: the     *)
(* search of swdiag_api_comp_contains refuses what would close a ring, but *)
(* for a component in itself.                                              *)
THEOREM NestedAlways == ASSUME NoSelfContainment PROVE Spec => []Nested
<1>1. TreeInv => Nested
  BY DEF TreeInv, Nested
<1>2. Spec => []TreeInv
  BY TreeInvariant
<1> QED
  BY <1>1, <1>2, PTL

-----------------------------------------------------------------------------
(* The walk of the system                                                  *)

(* The ancestors of x, and where they end.                                 *)
LEMMA UpIs ==
  ASSUME NEW d, d \in DbType, Forest(d), NEW x \in Objs
  PROVE  /\ Cardinality(Objs) \in Nat
         /\ IsWalk(Up(d, x), Places, Parent(d), x, Cardinality(Objs))
         /\ Up(d, x)[Cardinality(Objs)] \notin Objs
<1> DEFINE N == Cardinality(Objs)
<1>1. N \in Nat
  BY ObjsAssumption, FS_CardinalityType
<1>2. /\ Parent(d) \in [Places -> Places]
      /\ \A y \in Objs : Parent(d)[y] = d.parent_comp[y]
      /\ \A y \in Places \ Objs : Parent(d)[y] \notin Objs
  BY ObjsAssumption DEF Parent, Places, DbType
<1>3. x \in Places
  BY DEF Places
<1>4. NoRing(Parent(d))
  BY <1>2 DEF Forest, NoRing
<1> DEFINE next == Parent(d)
<1>5. next \in [Places -> Places] /\ NoRing(next) /\ \A y \in Places \ Objs : next[y] \notin Objs
  BY <1>2, <1>4
<1> HIDE DEF next
<1>6. Iterate(next, x, Cardinality(Objs))[Cardinality(Objs)] \notin Objs
  BY <1>3, <1>5, NoRingEnds
<1>7. IsWalk(Iterate(next, x, Cardinality(Objs)), Places, next, x, Cardinality(Objs))
  BY <1>1, <1>3, <1>5, IterateIs
<1> QED
  BY <1>1, <1>6, <1>7 DEF Up, next

(* comp_get_next: the first in x, or the peer of the nearest ancestor that *)
(* has one, or the end.                                                    *)
LEMMA NextCompIs ==
  ASSUME NEW d, d \in DbType, Forest(d), NEW x \in Objs
  PROVE  \/ d.comps[x] # << >> /\ NextComp(d, x) = Head(d.comps[x])
         \/ /\ NextComp(d, x) = NoComp
            /\ \A z \in Objs : x \in Below(d.parent_comp, z) => Peers(d, z) = {}
         \/ \E a \in Objs :
              /\ x \in Below(d.parent_comp, a)
              /\ Peers(d, a) # {} /\ NextComp(d, x) = Peer(d, a)
              /\ \A z \in Objs : x \in Below(d.parent_comp, z) /\ Peers(d, z) # {}
                                   => a \in Below(d.parent_comp, z)
<1> DEFINE N == Cardinality(Objs)
           up == Up(d, x)
           turns == {n \in DOMAIN up : up[n] \in Objs /\ Peers(d, up[n]) # {}}
           par == d.parent_comp
<1>1. /\ N \in Nat /\ up \in [0..N -> Places] /\ up[0] = x /\ up[N] \notin Objs
      /\ \A m, n \in 0..N : n = m + 1 => up[n] = Parent(d)[up[m]]
  BY UpIs DEF IsWalk
<1> HIDE DEF N, up
<1>2. /\ \A y \in Objs : Parent(d)[y] = par[y]
      /\ \A y \in Places \ Objs : Parent(d)[y] \notin Objs
  BY ObjsAssumption DEF Parent, Places
<1>3. turns \in SUBSET (0..N)
  BY <1>1
<1>4. CASE d.comps[x] # << >>
  BY <1>4 DEF NextComp
<1>5. ASSUME NEW z \in Objs, x \in Below(par, z), Peers(d, z) # {},
             NEW k \in 0..N, \A n \in turns : ~(n < k)
      PROVE  up[k] \in Below(par, z)
  <2> DEFINE T == {n \in Nat : n <= k => up[n] \in Below(par, z)}
  <2>1. 0 \in T
    BY <1>1, <1>5
  <2>2. ASSUME NEW n \in 0..(N - 1), n \in T PROVE n + 1 \in T
    <3> SUFFICES ASSUME n + 1 <= k PROVE up[n + 1] \in Below(par, z)
      BY <1>1
    <3>1. n \in 0..N /\ n + 1 \in 0..N /\ n < k /\ n <= k
      BY <1>1
    <3>2. up[n] \in Below(par, z)
      BY <2>2, <3>1
    <3>3. up[n] \in Objs /\ n \notin turns
      BY <1>5, <3>1, <3>2 DEF Below
    <3>4. up[n] # z
      BY <1>1, <1>5, <3>1, <3>3
    <3>5. par[up[n]] \in Below(par, z)
      BY <3>2, <3>4, BelowIs
    <3> QED
      BY <1>1, <1>2, <3>1, <3>3, <3>5
  <2> HIDE DEF T
  <2>3. \A n \in 0..N : n \in T
    BY <1>1, <2>1, <2>2, UpTo
  <2> QED
    BY <2>3 DEF T
<1>6. \A k \in 0..N : up[k] \in Objs => x \in Below(par, up[k])
  <2> DEFINE T == {n \in Nat : n \in 0..N /\ up[n] \in Objs => x \in Below(par, up[n])}
  <2>1. 0 \in T
    BY <1>1, BelowIs
  <2>2. ASSUME NEW n \in 0..(N - 1), n \in T PROVE n + 1 \in T
    <3> SUFFICES ASSUME up[n + 1] \in Objs PROVE x \in Below(par, up[n + 1])
      OBVIOUS
    <3>1. n \in 0..N /\ n + 1 \in 0..N
      BY <1>1
    <3>2. up[n + 1] = Parent(d)[up[n]] /\ up[n] \in Places
      BY <1>1, <3>1
    <3>3. up[n] \in Objs /\ up[n + 1] = par[up[n]]
      BY <1>2, <3>2
    <3>4. x \in Below(par, up[n])
      BY <2>2, <3>1, <3>3
    <3>5. up[n] \in Below(par, up[n + 1])
      <4>1. up[n + 1] \in Below(par, up[n + 1]) /\ HoldsBelow(par, Below(par, up[n + 1]))
        BY BelowIs
      <4> QED
        BY <3>3, <4>1 DEF HoldsBelow
    <3>6. Below(par, up[n]) \subseteq Below(par, up[n + 1])
      BY <3>5, BelowIs
    <3> QED
      BY <3>4, <3>6
  <2> HIDE DEF T
  <2>3. \A n \in 0..N : n \in T
    BY <1>1, <2>1, <2>2, UpTo
  <2> QED
    BY <2>3 DEF T
<1>7. CASE d.comps[x] = << >> /\ turns = {}
  <2>1. NextComp(d, x) = NoComp
    BY <1>7 DEF NextComp, up
  <2>2. ASSUME NEW z \in Objs, x \in Below(par, z), Peers(d, z) # {} PROVE FALSE
    <3>1. N \in 0..N
      BY <1>1
    <3>2. up[N] \in Below(par, z)
      BY <1>5, <1>7, <2>2, <3>1
    <3> QED
      BY <1>1, <3>2 DEF Below
  <2> QED
    BY <2>1, <2>2
<1>8. CASE d.comps[x] = << >> /\ turns # {}
  <2> DEFINE k == CHOOSE n \in turns : \A m \in turns : n <= m
  <2>1. k \in turns /\ \A m \in turns : k <= m
    <3>1. turns \in SUBSET Nat
      BY <1>3
    <3>2. \E n \in turns : \A m \in turns : n <= m
      BY <1>8, <3>1, NatMin
    <3> QED
      BY <3>2
  <2>2. NextComp(d, x) = Peer(d, up[k])
    BY <1>8 DEF NextComp, up
  <2> HIDE DEF k
  <2>3. k \in 0..N /\ up[k] \in Objs /\ Peers(d, up[k]) # {} /\ \A n \in turns : ~(n < k)
    BY <1>1, <1>3, <2>1
  <2>4. x \in Below(par, up[k])
    BY <1>6, <2>3
  <2>5. \A z \in Objs : x \in Below(par, z) /\ Peers(d, z) # {} => up[k] \in Below(par, z)
    BY <1>5, <2>3
  <2> QED
    BY <2>2, <2>3, <2>4, <2>5
<1> QED
  BY <1>4, <1>7, <1>8

(* What it leaves, it leaves for the peer.                                 *)
LEMMA NextUnder ==
  ASSUME NEW d, d \in DbType, Forest(d), NEW z \in Objs, Peers(d, z) # {},
         NEW w \in Below(d.parent_comp, z)
  PROVE  NextComp(d, w) \in Below(d.parent_comp, z) \cup {Peer(d, z)}
<1>1. w \in Objs
  BY DEF Below
<1>2. \/ d.comps[w] # << >> /\ NextComp(d, w) = Head(d.comps[w])
      \/ \E a \in Below(d.parent_comp, z) : Peers(d, a) # {} /\ NextComp(d, w) = Peer(d, a)
  BY <1>1, NextCompIs
<1>3. CASE d.comps[w] # << >> /\ NextComp(d, w) = Head(d.comps[w])
  BY <1>3, HeadUnder
<1>4. ASSUME NEW a \in Below(d.parent_comp, z), Peers(d, a) # {}, NextComp(d, w) = Peer(d, a)
      PROVE  NextComp(d, w) \in Below(d.parent_comp, z) \cup {Peer(d, z)}
  BY <1>4, PeerUnder
<1> QED
  BY <1>2, <1>3, <1>4

LEMMA NextPlace ==
  ASSUME NEW d, d \in DbType, Forest(d), NEW x \in Objs
  PROVE  NextComp(d, x) \in Objs \cup {NoComp}
  BY NextCompIs, PeerIs, HeadIs

(* Where there is a ring, there is a least one, in which every place is    *)
(* stepped to.                                                             *)
LEMMA LeastRing ==
  ASSUME NEW next, ~NoRing(next)
  PROVE  \E R \in SUBSET Objs :
           /\ R # {} /\ \A x \in R : next[x] \in R
           /\ \A U \in SUBSET R : U # {} /\ (\A x \in U : next[x] \in U) => U = R
           /\ \A y \in R : \E x \in R : next[x] = y
<1> DEFINE Ring(S) == S # {} /\ \A x \in S : next[x] \in S
           T == {Cardinality(S) : S \in {S \in SUBSET Objs : Ring(S)}}
<1>1. \A S \in SUBSET Objs : IsFiniteSet(S) /\ Cardinality(S) \in Nat
  BY ObjsAssumption, FS_Subset, FS_CardinalityType
<1>2. PICK n \in T : \A m \in T : n <= m
  <2>1. T \in SUBSET Nat
    BY <1>1
  <2>2. T # {}
    BY DEF NoRing
  <2> HIDE DEF T
  <2> QED
    BY <2>1, <2>2, NatMin
<1>3. PICK R \in SUBSET Objs : Ring(R) /\ n = Cardinality(R)
  BY <1>2
<1>4. ASSUME NEW U \in SUBSET R, Ring(U) PROVE U = R
  <2>1. U \in SUBSET Objs
    OBVIOUS
  <2>2. Cardinality(R) <= Cardinality(U)
    BY <1>2, <1>3, <1>4, <2>1
  <2>3. Cardinality(U) <= Cardinality(R) /\ (Cardinality(R) = Cardinality(U) => R = U)
    BY <1>1, FS_Subset
  <2>4. Cardinality(U) \in Nat /\ Cardinality(R) \in Nat
    BY <1>1, <2>1
  <2> QED
    BY <2>2, <2>3, <2>4
<1>5. ASSUME NEW y \in R PROVE \E x \in R : next[x] = y
  <2> DEFINE U == {next[x] : x \in R}
  <2>1. U \in SUBSET R /\ Ring(U)
    BY <1>3
  <2> HIDE DEF U
  <2>2. U = R
    BY <1>4, <2>1
  <2> QED
    BY <2>2 DEF U
<1> QED
  BY <1>3, <1>4, <1>5

(* Steps that a walk over the tree may take: to a component in x, or to    *)
(* the peer of an object that x is, or is in.                              *)
Leads(d, x, y) ==
  \/ d.parent_comp[y] = x
  \/ \E a \in Objs : x \in Below(d.parent_comp, a) /\ Peers(d, a) # {} /\ y = Peer(d, a)

(* Such steps over a forest go round no ring. In a least ring take what    *)
(* has no component in the ring, and of these of one component the first   *)
(* on its list: it was stepped to from below the one before it on the      *)
(* list, and below that one nothing steps to from outside but to itself.   *)
LEMMA StepsNoRing ==
  ASSUME NEW d, d \in DbType, Forest(d), NEW next,
         \A x \in Objs : next[x] \in Objs => Leads(d, x, next[x])
  PROVE  NoRing(next)
<1> SUFFICES ASSUME ~NoRing(next) PROVE FALSE
  OBVIOUS
<1> DEFINE par == d.parent_comp
<1>1. PICK R \in SUBSET Objs :
        /\ R # {} /\ \A x \in R : next[x] \in R
        /\ \A U \in SUBSET R : U # {} /\ (\A x \in U : next[x] \in U) => U = R
        /\ \A y \in R : \E x \in R : next[x] = y
  BY LeastRing
<1>2. NoRing(par) /\ NoComp \notin Objs
  BY ObjsAssumption DEF Forest
<1>3. ASSUME NEW v \in R
      PROVE  \/ par[next[v]] = v
             \/ \E a \in Objs : /\ v \in Below(par, a) /\ Peers(d, a) # {}
                                /\ next[v] = Peer(d, a)
  <2>1. v \in Objs /\ next[v] \in Objs
    BY <1>1
  <2> QED
    BY <2>1 DEF Leads
<1>4. ASSUME NEW y \in R, par[y] \notin R
      PROVE  /\ par[y] \in Objs
             /\ \E a \in Objs, i \in 1..(Len(d.comps[par[y]]) - 1), v \in R :
                  /\ par[a] = par[y] /\ v \in Below(par, a)
                  /\ d.comps[par[y]][i] = a /\ d.comps[par[y]][i + 1] = y
  <2>1. PICK v \in R : next[v] = y
    BY <1>1
  <2>2. PICK a \in Objs : v \in Below(par, a) /\ Peers(d, a) # {} /\ y = Peer(d, a)
    BY <1>3, <1>4, <2>1
  <2>3. /\ par[a] \in Objs /\ par[y] = par[a]
        /\ \E i \in 1..(Len(d.comps[par[a]]) - 1) :
             d.comps[par[a]][i] = a /\ d.comps[par[a]][i + 1] = Peer(d, a)
    BY <2>2, PeerIs
  <2> QED
    BY <2>2, <2>3
<1>5. PICK z \in R : par[z] \notin R
  BY <1>1, <1>2 DEF NoRing
<1> DEFINE c == par[z]
           s == d.comps[c]
           I == {i \in 1..Len(s) : s[i] \in R}
<1>6. c \in Objs /\ c \notin R
  BY <1>4, <1>5
<1>7. s \in Seq(Objs) /\ Listed(d, c) /\ Len(s) \in Nat
  <2>1. ListsMembers(d, c)
    BY <1>6 DEF Forest
  <2>2. s \in Seq(Objs)
    BY <1>6 DEF DbType
  <2> QED
    BY <1>6, <2>1, <2>2, ListsMembersIs
<1>8. PICK k \in I : \A i \in I : k <= i
  <2>1. I # {}
    <3>1. PICK i \in 1..(Len(s) - 1) : s[i + 1] = z
      BY <1>4, <1>5
    <3>2. i + 1 \in 1..Len(s)
      BY <1>7
    <3> QED
      BY <3>1, <3>2
  <2>2. I \in SUBSET Nat
    OBVIOUS
  <2> HIDE DEF I
  <2> QED
    BY <2>1, <2>2, NatMin
<1> DEFINE y == s[k]
<1>9. k \in 1..Len(s) /\ y \in R /\ par[y] = c
  BY <1>7, <1>8 DEF Listed
<1>10. PICK a \in Objs, i \in 1..(Len(s) - 1), v \in R :
         par[a] = c /\ v \in Below(par, a) /\ s[i] = a /\ s[i + 1] = y
  <2> HIDE DEF y, c
  <2>1. \E a \in Objs, i \in 1..(Len(d.comps[par[y]]) - 1), v \in R :
          /\ par[a] = par[y] /\ v \in Below(par, a)
          /\ d.comps[par[y]][i] = a /\ d.comps[par[y]][i + 1] = y
    BY <1>4, <1>6, <1>9
  <2> QED
    BY <1>9, <2>1
<1>11. a \notin R
  <2>1. i \in 1..Len(s) /\ i + 1 \in 1..Len(s)
    BY <1>7
  <2>2. i + 1 = k
    BY <1>7, <1>9, <1>10, <2>1 DEF Listed
  <2>3. i \notin I
    BY <1>8, <2>1, <2>2
  <2> QED
    BY <1>10, <2>1, <2>3
<1> HIDE DEF y, s, c, I
<1> DEFINE B == Below(par, a)
           U == R \ B
<1>12. /\ HoldsBelow(par, B) /\ \A x \in B \ {a} : par[x] \in B
       /\ par[a] \notin B /\ \A x \in B : Below(par, x) \subseteq B
  BY <1>2, BelowIs, NotBelow
<1> HIDE DEF B
<1>13. y \in U
  BY <1>9, <1>10, <1>11, <1>12
<1>14. ASSUME NEW x \in U PROVE next[x] \in U
  <2> DEFINE w == next[x]
  <2>1. w \in R /\ w # a
    BY <1>1, <1>11
  <2> SUFFICES ASSUME w \in B PROVE FALSE
    BY <2>1
  <2>2. par[w] \in B
    BY <1>12, <2>1
  <2>3. CASE par[w] = x
    BY <2>2, <2>3
  <2>4. ASSUME NEW b \in Objs, x \in Below(par, b), Peers(d, b) # {}, w = Peer(d, b)
        PROVE  FALSE
    <3>1. par[w] = par[b]
      BY <2>4, PeerIs
    <3>2. b \in B
      BY <1>12, <2>2, <3>1 DEF HoldsBelow
    <3> QED
      BY <1>12, <2>4, <3>2
  <2> QED
    BY <1>3, <2>3, <2>4
<1>15. U = R
  BY <1>1, <1>13, <1>14
<1> QED
  BY <1>10, <1>15 DEF B

LEMMA NextNoRing ==
  ASSUME NEW d, d \in DbType, Forest(d)
  PROVE  NoRing(NextInSystem(d))
<1> DEFINE next == NextInSystem(d)
<1>1. ASSUME NEW x \in Objs, next[x] \in Objs PROVE Leads(d, x, next[x])
  <2>1. next[x] = NextComp(d, x) /\ NoComp \notin Objs
    BY ObjsAssumption DEF NextInSystem, Places
  <2>2. d.comps[x] # << >> => d.parent_comp[Head(d.comps[x])] = x
    BY HeadIs
  <2> HIDE DEF next
  <2> QED
    BY <1>1, <2>1, <2>2, NextCompIs DEF Leads
<1> HIDE DEF next
<1>2. NoRing(next)
  BY <1>1, StepsNoRing
<1> QED
  BY <1>2 DEF next

(* The walk of the system ends.                                            *)
LEMMA WalkEnds ==
  ASSUME NEW d, d \in DbType, Forest(d)
  PROVE  LET N == Cardinality(Objs)
             walk == Iterate(NextInSystem(d), System, N)
         IN  /\ IsWalk(walk, Places, NextInSystem(d), System, N)
             /\ walk[N] = NoComp
<1> DEFINE N == Cardinality(Objs)
           next == NextInSystem(d)
           f == Iterate(next, System, N)
<1>1. N \in Nat
  BY ObjsAssumption, FS_CardinalityType
<1>2. /\ next \in [Places -> Places]
      /\ \A x \in Places : next[x] \in Objs \cup {NoComp}
      /\ \A x \in Places \ Objs : next[x] \notin Objs
  <2>1. \A x \in Objs : NextComp(d, x) \in Objs \cup {NoComp}
    BY NextPlace
  <2>2. Places = Objs \cup {NoComp, Freed} /\ NoComp \notin Objs
    BY ObjsAssumption DEF Places
  <2> QED
    BY <2>1, <2>2 DEF NextInSystem
<1>3. NoRing(next)
  BY NextNoRing
<1>4. System \in Places /\ System \in Objs /\ NoComp \notin Objs
  BY ObjsAssumption DEF Places
<1> HIDE DEF next
<1>5. Iterate(next, System, Cardinality(Objs))[Cardinality(Objs)] \notin Objs
  BY <1>2, <1>3, <1>4, NoRingEnds
<1>6. IsWalk(Iterate(next, System, Cardinality(Objs)), Places, next, System, Cardinality(Objs))
  BY <1>1, <1>2, <1>4, IterateIs
<1>7. f[N] \notin Objs /\ IsWalk(f, Places, next, System, N)
  BY <1>5, <1>6
<1> HIDE DEF f, N
<1>8. f[N] \in Objs \cup {NoComp}
  <2>1. f[0] = System /\ f \in [0..N -> Places]
        /\ \A m, n \in 0..N : n = m + 1 => f[n] = next[f[m]]
    BY <1>7 DEF IsWalk
  <2>2. CASE N = 0
    BY <1>4, <2>1, <2>2
  <2>3. CASE N # 0
    <3>1. N - 1 \in 0..N /\ N \in 0..N /\ N = (N - 1) + 1
      BY <1>1, <2>3
    <3>2. f[N] = next[f[N - 1]] /\ f[N - 1] \in Places
      BY <2>1, <3>1
    <3> QED
      BY <1>2, <3>2
  <2> QED
    BY <2>2, <2>3
<1>9. f[N] = NoComp
  BY <1>7, <1>8
<1> QED
  BY <1>7, <1>9 DEF f, N, next

(* It comes to all components in those it comes to.                        *)
LEMMA WalkCloses ==
  ASSUME NEW d, d \in DbType, Forest(d), NEW N \in Nat, NEW f,
         IsWalk(f, Places, NextInSystem(d), System, N), f[N] = NoComp,
         NEW y \in Objs, d.type[y] = "COMP", NEW m0 \in 0..N, f[m0] = d.parent_comp[y],
         d.parent_comp[y] \in Objs
  PROVE  \E n \in 0..N : f[n] = y
<1> DEFINE x == d.parent_comp[y]
           s == d.comps[x]
           under == [i \in 1..Len(s) |-> Below(d.parent_comp, s[i])]
<1>1. NoComp \notin Objs /\ Freed \notin Objs /\ NoComp # Freed
  BY ObjsAssumption
<1>2. /\ f \in [0..N -> Places] /\ f[0] = System
      /\ \A m, n \in 0..N : n = m + 1 => f[n] = NextInSystem(d)[f[m]]
  BY DEF IsWalk
<1>3. \A z \in Objs : NextInSystem(d)[z] = NextComp(d, z)
  BY DEF NextInSystem, Places
<1>4. \A z \in Places : NextInSystem(d)[z] # Freed
  <2>1. \A z \in Objs : NextComp(d, z) # Freed
    BY <1>1, NextPlace
  <2> QED
    BY <1>1, <2>1 DEF NextInSystem, Places
<1>5. s \in Seq(Objs) /\ Listed(d, x)
  <2>1. ListsMembers(d, x)
    BY DEF Forest
  <2> QED
    BY <2>1, ListsMembersIs DEF DbType
<1>6. PICK j \in 1..Len(s) : s[j] = y
  BY <1>5 DEF Listed
<1>7. s # << >>
  BY <1>5, <1>6
<1>8. \E n \in 0..N : f[n] = s[1]
  <2>1. m0 + 1 \in 0..N
    BY <1>1
  <2>2. f[m0 + 1] = NextComp(d, x)
    BY <1>2, <1>3, <2>1
  <2>3. NextComp(d, x) = Head(s)
    BY <1>7 DEF NextComp
  <2>4. Head(s) = s[1]
    BY <1>7, HeadIs
  <2> QED
    BY <2>1, <2>2, <2>3, <2>4
<1>9. under \in [1..Len(s) -> SUBSET Objs] /\ \A i \in 1..Len(s) : s[i] \in under[i]
  <2>1. \A i \in 1..Len(s) : s[i] \in Objs
    BY <1>5
  <2>2. \A i \in 1..Len(s) : s[i] \in Below(d.parent_comp, s[i])
    BY <2>1, BelowIs
  <2> QED
    BY <2>2 DEF Below
<1>10. ASSUME NEW i \in 1..(Len(s) - 1), NEW m \in 0..N, NEW n \in 0..N,
              n = m + 1, f[m] \in under[i]
       PROVE  f[n] \in under[i] \cup {Freed, s[i + 1]}
  <2>1. i \in 1..Len(s)
    BY <1>5
  <2>2. f[m] \in Below(d.parent_comp, s[i]) /\ f[m] \in Objs
    BY <1>10, <2>1 DEF Below
  <2>3. s[i] \in Objs /\ Peers(d, s[i]) # {} /\ Peer(d, s[i]) = s[i + 1]
    <3> HIDE DEF x
    <3>1. x \in Objs
      BY DEF x
    <3> QED
      BY <3>1, NextOnList
  <2>4. f[n] = NextComp(d, f[m])
    BY <1>2, <1>3, <1>10, <2>2
  <2> HIDE DEF s, x
  <2>5. NextComp(d, f[m]) \in Below(d.parent_comp, s[i]) \cup {Peer(d, s[i])}
    BY <2>2, <2>3, NextUnder
  <2> QED
    BY <2>1, <2>3, <2>4, <2>5 DEF s, x
<1>11. \A m, n \in 0..N : n = m + 1 /\ f[m] = Freed => f[n] = Freed
  <2>1. \A m \in 0..N : f[m] # Freed
    <3> SUFFICES ASSUME NEW m \in 0..N, f[m] = Freed PROVE FALSE
      OBVIOUS
    <3>1. CASE m = 0
      BY <1>1, <1>2, <3>1, ObjsAssumption
    <3>2. CASE m # 0
      <4>1. m - 1 \in 0..N /\ m = (m - 1) + 1
        BY <3>2
      <4>2. f[m] = NextInSystem(d)[f[m - 1]] /\ f[m - 1] \in Places
        BY <1>2, <4>1
      <4> QED
        BY <1>4, <4>2
    <3> QED
      BY <3>1, <3>2
  <2> QED
    BY <2>1
<1> HIDE DEF s, x, under
<1>12. \A i \in 1..Len(s) : \E n \in 0..N : f[n] = s[i]
  BY <1>2, <1>5, <1>7, <1>8, <1>9, <1>10, <1>11, WalkThrough
<1> QED
  BY <1>6, <1>12

(* So it comes to the component of every object: the components it misses  *)
(* would be in each other.                                                 *)
LEMMA FindsAll == TreeInv => AllFound
<1> SUFFICES ASSUME TreeInv, \A o \in Objs : db.parent_comp[o] # Freed
             PROVE  LET last == Cardinality(Objs)
                        walk == Iterate(NextInSystem(db), System, last)
                    IN  /\ walk[last] = NoComp
                        /\ \A o \in Present(db) \ {System} :
                             \E n \in 0..last : walk[n] = db.parent_comp[o]
  BY DEF AllFound
<1> DEFINE N == Cardinality(Objs)
           f == Iterate(NextInSystem(db), System, N)
           par == db.parent_comp
<1>1. db \in DbType /\ Forest(db)
  BY DEF TreeInv, IInv, Sound
<1>2. IsWalk(f, Places, NextInSystem(db), System, N) /\ f[N] = NoComp
  BY <1>1, WalkEnds
<1>3. N \in Nat
  BY ObjsAssumption, FS_CardinalityType
<1> HIDE DEF f, N
<1> DEFINE C == {x \in Objs : db.type[x] = "COMP" /\ \A n \in 0..N : f[n] # x}
<1>4. ASSUME NEW x \in Objs, db.type[x] # "absent", x # System
      PROVE  par[x] \in Objs /\ db.type[par[x]] = "COMP"
  BY <1>1, <1>4 DEF DbType, Forest, Present
<1>5. C = {}
  <2>1. ASSUME NEW x \in C PROVE par[x] \in C
    <3>1. x # System
      <4>1. 0 \in 0..N /\ f[0] = System
        BY <1>2, <1>3 DEF IsWalk
      <4> QED
        BY <4>1
    <3>2. x \in Objs /\ db.type[x] = "COMP" /\ par[x] \in Objs /\ db.type[par[x]] = "COMP"
      BY <1>4, <3>1
    <3>3. ASSUME NEW n \in 0..N, f[n] = par[x] PROVE FALSE
      <4>1. \E m \in 0..N : f[m] = x
        BY <1>1, <1>2, <1>3, <3>2, <3>3, WalkCloses
      <4> QED
        BY <4>1
    <3> QED
      BY <3>2, <3>3
  <2>2. C \in SUBSET Objs
    OBVIOUS
  <2> HIDE DEF C
  <2> QED
    BY <1>1, <2>1, <2>2 DEF Forest, NoRing
<1>6. ASSUME NEW o \in Present(db) \ {System} PROVE \E n \in 0..N : f[n] = par[o]
  <2>1. par[o] \in Objs /\ db.type[par[o]] = "COMP"
    BY <1>4 DEF Present
  <2> QED
    BY <1>5, <2>1
<1> QED
  BY <1>2, <1>6 DEF f, N

(* As long as no component is deleted with components in it, the walk of   *)
(* comp_get_next ends and comes to the component of every object, so that  *)
(* every name that was created is found.                                   *)
THEOREM AllFoundAlways == ASSUME NoSelfContainment PROVE Spec => []AllFound
<1>1. Spec => []TreeInv
  BY TreeInvariant
<1> QED
  BY <1>1, FindsAll, PTL

-----------------------------------------------------------------------------
(* The search of swdiag_comp_contains ends                                 *)

LEMMA ContainedLeads ==
  ASSUME NEW d, d \in DbType, Forest(d), NEW c \in Objs, NEW x \in Objs,
         NextContained(d, c, x) \in Objs
  PROVE  Leads(d, x, NextContained(d, c, x))
<1> DEFINE up == d.parent_comp[x]
<1>1. NoComp \notin Objs /\ Freed \notin Objs
  BY ObjsAssumption
<1>2. x \in Below(d.parent_comp, x)
  BY BelowIs
<1>3. CASE d.comps[x] # << >>
  <2>1. NextContained(d, c, x) = Head(d.comps[x])
    BY <1>3 DEF NextContained
  <2>2. d.parent_comp[Head(d.comps[x])] = x
    BY <1>3, HeadIs
  <2> QED
    BY <2>1, <2>2 DEF Leads
<1>4. CASE d.comps[x] = << >> /\ Peers(d, x) # {}
  <2>1. NextContained(d, c, x) = Peer(d, x)
    BY <1>1, <1>4 DEF NextContained
  <2> QED
    BY <1>2, <1>4, <2>1 DEF Leads
<1>5. CASE d.comps[x] = << >> /\ Peers(d, x) = {}
  <2>1. up \in Objs /\ Peers(d, up) # {} /\ NextContained(d, c, x) = Peer(d, up)
    BY <1>1, <1>5 DEF NextContained
  <2>2. x \in Below(d.parent_comp, up)
    BY <2>1, BelowIs DEF HoldsBelow
  <2> QED
    BY <2>1, <2>2 DEF Leads
<1> QED
  BY <1>3, <1>4, <1>5

(* The search stays at p once it is there, and at the end; up to there it  *)
(* is a walk that goes round no ring.                                      *)
LEMMA SearchEnds ==
  ASSUME NEW d, d \in DbType, Forest(d), NEW p \in Objs, NEW c \in Objs
  PROVE  LoopCheck(d, p, c) # "hung"
<1> DEFINE N == Cardinality(Objs)
           M == 2 * N
           from == NextContained(d, c, c)
           search == Search(d, p, c)
           step == [x \in Places |-> IF x \in Objs \ {p} THEN NextContained(d, c, x) ELSE NoComp]
           f == Iterate(search, from, M)
           h == Iterate(step, from, N)
           Stops == {p, NoComp, Freed}
<1>1. N \in Nat /\ M \in Nat /\ N <= M /\ M = N + N
  <2>1. Cardinality(Objs) \in Nat
    BY ObjsAssumption, FS_CardinalityType
  <2> QED
    BY <2>1
<1>2. /\ NoComp \notin Objs /\ Freed \notin Objs
      /\ Places = Objs \cup {NoComp, Freed}
  BY ObjsAssumption DEF Places
<1>3. \A x \in Objs : NextContained(d, c, x) \in Places
  BY ContainedPlace
<1>4. /\ search \in [Places -> Places] /\ step \in [Places -> Places]
      /\ \A x \in Objs \ {p} : search[x] = step[x]
      /\ \A x \in Stops : search[x] = x
      /\ \A x \in Places \ Objs : step[x] \notin Objs
  BY <1>2, <1>3 DEF Search
<1>5. ASSUME NEW x \in Objs, step[x] \in Objs PROVE Leads(d, x, step[x])
  <2>1. step[x] = NextContained(d, c, x)
    BY <1>2, <1>5
  <2> QED
    BY <1>5, <2>1, ContainedLeads
<1>6. from \in Places
  BY <1>3
<1>7. LoopCheck(d, p, c) = "hung" => f[M] \notin Stops
  <2>1. LoopCheck(d, p, c) =
          CASE d.type[c] # "COMP"                   -> "clear"
            [] d.type[c] = "COMP" /\ f[M] = NoComp -> "clear"
            [] d.type[c] = "COMP" /\ f[M] = Freed  -> "broken"
            [] d.type[c] = "COMP" /\ f[M] = p      -> "loop"
            [] OTHER                                -> "hung"
    BY DEF LoopCheck
  <2> HIDE DEF f, M
  <2>2. CASE d.type[c] # "COMP"
    BY <2>1, <2>2
  <2>3. CASE f[M] \in Stops
    <3>1. p # NoComp /\ p # Freed /\ NoComp # Freed
      BY <1>2, ObjsAssumption
    <3> QED
      BY <2>1, <2>3, <3>1
  <2> QED
    BY <2>2, <2>3
<1> HIDE DEF search, step, from
<1>8. NoRing(step)
  BY <1>5, StepsNoRing
<1>9. Iterate(step, from, Cardinality(Objs))[Cardinality(Objs)] \notin Objs
  BY <1>4, <1>6, <1>8, NoRingEnds
<1>10. IsWalk(h, Places, step, from, N) /\ h[N] \notin Objs
  <2>1. IsWalk(Iterate(step, from, Cardinality(Objs)), Places, step, from, Cardinality(Objs))
    BY <1>1, <1>4, <1>6, IterateIs
  <2> QED
    BY <1>9, <2>1
<1> HIDE DEF M
<1>11. IsWalk(f, Places, search, from, M)
  BY <1>1, <1>4, <1>6, IterateIs
<1> HIDE DEF f, h, N, Stops
<1>12. /\ f \in [0..M -> Places] /\ f[0] = from /\ h[0] = from /\ h \in [0..N -> Places]
       /\ \A m, n \in 0..M : n = m + 1 => f[n] = search[f[m]]
       /\ \A m, n \in 0..N : n = m + 1 => h[n] = step[h[m]]
  BY <1>10, <1>11 DEF IsWalk
<1>13. \A n \in 0..N : f[n] = h[n] \/ f[n] \in Stops
  <2> DEFINE T == {n \in Nat : f[n] = h[n] \/ f[n] \in Stops}
  <2>1. 0 \in T
    BY <1>12
  <2>2. ASSUME NEW n \in 0..(N - 1), n \in T PROVE n + 1 \in T
    <3>1. n \in 0..N /\ n + 1 \in 0..N /\ n \in 0..M /\ n + 1 \in 0..M
      BY <1>1
    <3>2. f[n + 1] = search[f[n]] /\ h[n + 1] = step[h[n]] /\ f[n] \in Places
      BY <1>12, <3>1
    <3>3. f[n] \in Objs \ {p} \/ f[n] \in Stops
      BY <1>2, <3>2 DEF Stops
    <3>4. CASE f[n] \in Stops
      BY <1>4, <3>1, <3>2, <3>4
    <3>5. CASE f[n] \in Objs \ {p} /\ f[n] = h[n]
      BY <1>4, <3>1, <3>2, <3>5
    <3> QED
      BY <2>2, <3>3, <3>4, <3>5
  <2> HIDE DEF T
  <2>3. \A n \in 0..N : n \in T
    BY <1>1, <2>1, <2>2, UpTo
  <2> QED
    BY <2>3 DEF T
<1>14. f[N] \in Stops
  <2>1. N \in 0..N /\ N \in 0..M
    BY <1>1
  <2>2. f[N] \in Places
    BY <1>12, <2>1
  <2> QED
    BY <1>2, <1>10, <1>13, <2>1, <2>2 DEF Stops
<1>15. \A k \in 0..N : f[N + k] \in Stops
  <2> DEFINE T == {k \in Nat : f[N + k] \in Stops}
  <2>1. 0 \in T
    BY <1>1, <1>14
  <2>2. ASSUME NEW k \in 0..(N - 1), k \in T PROVE k + 1 \in T
    <3>1. N + k \in 0..M /\ N + (k + 1) \in 0..M /\ N + (k + 1) = (N + k) + 1
      BY <1>1
    <3>2. f[N + (k + 1)] = search[f[N + k]]
      BY <1>12, <3>1
    <3> QED
      BY <1>4, <2>2, <3>2
  <2> HIDE DEF T
  <2>3. \A k \in 0..N : k \in T
    BY <1>1, <2>1, <2>2, UpTo
  <2> QED
    BY <2>3 DEF T
<1>16. f[M] \in Stops
  <2>1. N \in 0..N
    BY <1>1
  <2> QED
    BY <1>1, <1>15, <2>1
<1> QED
  BY <1>7, <1>16

(* swdiag_comp_contains returns, whatever was called before: its search    *)
(* for the parent in the child (comp_get_next_contained) never goes round. *)
THEOREM ContainsAlwaysReturns == ASSUME NoSelfContainment PROVE Spec => ContainsReturns
<1>1. TreeInv => [fate' = "hung" => \A p \in CompNames, o \in Objs : ~CompContains(p, o)]_vars
  <2> SUFFICES ASSUME TreeInv, fate' = "hung",
                      NEW p \in CompNames, NEW o \in Objs, CompContains(p, o)
               PROVE  FALSE
    OBVIOUS
  <2> DEFINE d == GetAny(GetOrCreate(db, p, "COMP"), o)
  <2>1. p \in Objs /\ Sound(d) /\ Forest(d)
    BY FoundTree
  <2>2. LoopCheck(d, p, o) = "hung"
    BY DEF CompContains
  <2> HIDE DEF d
  <2> QED
    BY <2>1, <2>2, SearchEnds DEF Sound
<1>2. Spec => []TreeInv
  BY TreeInvariant
<1> QED
  BY <1>1, <1>2, PTL DEF ContainsReturns
=============================================================================
