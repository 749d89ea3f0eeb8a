---------------------------- MODULE ObjectTree ----------------------------
(* The object database: every rule and component by its name, the tree of  *)
(* components they are contained in, and the dependencies that link them   *)
(* (swdiag_obj.c, swdiag_api.c).  Each operator takes the database to the  *)
(* one a C function leaves; the actions, in Dependencies, compose them as  *)
(* the entry points of the API do.                                         *)
EXTENDS Naturals, SequencesExt, FiniteSets

CONSTANTS
  Objs,         \* names of rules and components
  CompNames,    \* those the client creates as components
  System,       \* the component every object is in when it is created
  NoComp,       \* NULL where a component is expected
  Freed         \* a component whose memory was handed to the collector

ASSUME ObjsAssumption ==
  /\ IsFiniteSet(Objs) /\ System \in CompNames /\ CompNames \subseteq Objs
  /\ NoComp \notin Objs /\ Freed \notin Objs /\ NoComp # Freed

(* Types of an object; "absent" stands for a name the database has not. A  *)
(* name that is used before it is created is a NONE: a forward reference.  *)
Types == {"absent", "NONE", "RULE", "COMP"}
Kind(o) == IF o \in CompNames THEN "COMP" ELSE "RULE"

EmptyDb ==
  [type          |-> [o \in Objs |-> IF o = System THEN "COMP" ELSE "absent"],
   parent_comp   |-> [o \in Objs |-> NoComp],
   comps         |-> [o \in Objs |-> << >>],  \* contained components, newest first
   top_depend    |-> [o \in Objs |-> {}],
   bottom_depend |-> [o \in Objs |-> {}],
   child_depend  |-> [o \in Objs |-> {}],
   parent_depend |-> [o \in Objs |-> {}]]

DbType ==
  [type          : [Objs -> Types],
   parent_comp   : [Objs -> Objs \cup {NoComp, Freed}],
   comps         : [Objs -> Seq(Objs)],
   top_depend    : [Objs -> SUBSET Objs],
   bottom_depend : [Objs -> SUBSET Objs],
   child_depend  : [Objs -> SUBSET Objs],
   parent_depend : [Objs -> SUBSET Objs]]

Present(d) == {o \in Objs : d.type[o] # "absent"}
Members(d, c) == {o \in Objs : d.parent_comp[o] = c}
OnBoundary(d, o) == d.type[o] \in {"RULE", "COMP"}

-----------------------------------------------------------------------------
(* Linking and unlinking, creation, containment, deletion                  *)

Link(d, c, o) ==
  [d EXCEPT !.parent_comp[o] = c,
            !.comps[c] = IF d.type[o] = "COMP" THEN <<o>> \o d.comps[c] ELSE d.comps[c]]

(* Mutant: the boundary lists of the component keep the object.            *)
UnlinkOffListOnly(d, o) ==
  LET c == d.parent_comp[o]
  IN  IF c \notin Objs THEN d
      ELSE [d EXCEPT !.parent_comp[o] = NoComp, !.comps[c] = RemoveFirst(d.comps[c], o)]

(* Mutant: the list of components keeps it.                                *)
UnlinkOffBoundaryOnly(d, o) ==
  LET c == d.parent_comp[o]
  IN  IF c \notin Objs THEN d
      ELSE [d EXCEPT !.parent_comp[o] = NoComp,
                     !.top_depend[c] = d.top_depend[c] \ {o},
                     !.bottom_depend[c] = d.bottom_depend[c] \ {o}]

Unlink(d, o) ==
  LET c == d.parent_comp[o]
  IN  IF c \notin Objs THEN d
      ELSE [d EXCEPT !.parent_comp[o] = NoComp,
                     !.comps[c] = RemoveFirst(d.comps[c], o),
                     !.top_depend[c] = d.top_depend[c] \ {o},
                     !.bottom_depend[c] = d.bottom_depend[c] \ {o}]

(* A new object goes to System; a rule or component to the boundary too.   *)
Create(d, o, t) ==
  LET linked == Link([d EXCEPT !.type[o] = t], System, o)
      added  == IF t = "NONE" THEN {} ELSE {o}
  IN  [linked EXCEPT !.top_depend[System] = linked.top_depend[System] \cup added,
                     !.bottom_depend[System] = linked.bottom_depend[System] \cup added]

(* A forward reference takes its type and moves to the list of that type,  *)
(* in the same component.                                                  *)
Convert(d, o, t) == Link([Unlink(d, o) EXCEPT !.type[o] = t], d.parent_comp[o], o)

GetOrCreate(d, o, t) ==
  CASE d.type[o] = "absent"            -> Create(d, o, t)
    [] d.type[o] = "NONE" /\ t # "NONE" -> Convert(d, o, t)
    [] OTHER                           -> d

(* Objects found or created with any type are left as they are.            *)
GetAny(d, o) == IF d.type[o] = "absent" THEN Create(d, o, "NONE") ELSE d

FoundComp(d, deps, c) == \E o \in deps : d.parent_comp[o] = c

(* Move o into c, and onto the boundary of c unless a dependency within c  *)
(* is above (below) it.                                                    *)
Contain(d, c, o) ==
  LET l     == Link(Unlink(d, o), c, o)
      above == ~OnBoundary(l, o) \/ FoundComp(l, l.parent_depend[o], c)
      below == ~OnBoundary(l, o) \/ FoundComp(l, l.child_depend[o], c)
  IN  [l EXCEPT !.top_depend[c] = l.top_depend[c] \cup (IF above THEN {} ELSE {o}),
                !.bottom_depend[c] = l.bottom_depend[c] \cup (IF below THEN {} ELSE {o})]

(* Mutant: the objects o depends on keep it as a parent.                   *)
ForgetChildOnly(d, o) ==
  [d EXCEPT !.child_depend  = [x \in Objs |-> IF x = o THEN {} ELSE d.child_depend[x] \ {o}],
            !.parent_depend = [d.parent_depend EXCEPT ![o] = {}]]

(* What remains of the database without the links to and from o.           *)
Forget(d, o) ==
  [d EXCEPT !.child_depend  = [x \in Objs |-> IF x = o THEN {} ELSE d.child_depend[x] \ {o}],
            !.parent_depend = [x \in Objs |-> IF x = o THEN {} ELSE d.parent_depend[x] \ {o}]]

(* The members of a deleted component that are no components move to       *)
(* System one by one: forward references first, then rules, in the order   *)
(* of its lists, taken here to be any.                                     *)
Orders(d, M) ==
  {f \in [M -> 1..Cardinality(M)] :
     \A x, y \in M : /\ f[x] = f[y] => x = y
                     /\ d.type[x] = "NONE" /\ d.type[y] # "NONE" => f[x] < f[y]}
Moved(d, c) == {o \in Members(d, c) : d.type[o] # "COMP"}

MoveToSystem(d, M, order) ==
  LET there(x, m) == d.parent_comp[x] = System \/ (x \in M /\ order[x] < order[m])
      rules == {m \in M : d.type[m] = "RULE"}
  IN  [d EXCEPT
        !.parent_comp = [o \in Objs |-> IF o \in M THEN System ELSE d.parent_comp[o]],
        !.top_depend[System] = d.top_depend[System] \cup
            {m \in rules : \A x \in d.parent_depend[m] : ~there(x, m)},
        !.bottom_depend[System] = d.bottom_depend[System] \cup
            {m \in rules : \A x \in d.child_depend[m] : ~there(x, m)}]

(* The components in a deleted component stay where they are: their        *)
(* parent_comp is left pointing at it.                                     *)
RemoveObj(d, o, order) ==
  LET out  == Forget(Unlink(d, o), o)
      left == MoveToSystem(out, Moved(out, o), order)
  IN  [left EXCEPT
        !.type[o] = "absent",
        !.parent_comp = [x \in Objs |-> IF left.parent_comp[x] = o THEN Freed
                                        ELSE left.parent_comp[x]],
        !.comps[o] = << >>, !.top_depend[o] = {}, !.bottom_depend[o] = {}]

-----------------------------------------------------------------------------
(* Walks over the components                                               *)

(* The component after c in the list of its parent, if any.                *)
Peers(d, c) ==
  IF d.parent_comp[c] \notin Objs THEN {}
  ELSE LET s == d.comps[d.parent_comp[c]]
       IN  {s[i + 1] : i \in {j \in 1..(Len(s) - 1) : s[j] = c}}
Peer(d, c) == CHOOSE x \in Peers(d, c) : TRUE

(* Where a walk is after each of its first steps: next is a function.      *)
Iterate(next, from, steps) ==
  LET at[n \in 0..steps] == IF n = 0 THEN from ELSE next[at[n - 1]]
  IN  at
Places == Objs \cup {NoComp, Freed}

(* The ancestors of c: c itself, its component, and so on.                 *)
Parent(d) == [x \in Places |-> IF x \in Objs THEN d.parent_comp[x] ELSE NoComp]
Up(d, c) == Iterate(Parent(d), c, Cardinality(Objs))

(* comp_get_next: first child, else next peer, else next peer of the       *)
(* nearest ancestor that has one.                                          *)
NextComp(d, c) ==
  LET up    == Up(d, c)
      turns == {n \in DOMAIN up : up[n] \in Objs /\ Peers(d, up[n]) # {}}
  IN  IF d.comps[c] # << >> THEN Head(d.comps[c])
      ELSE IF turns = {} THEN NoComp
      ELSE Peer(d, up[CHOOSE n \in turns : \A m \in turns : n <= m])

(* comp_get_next_contained, from c within top: its climb looks at the      *)
(* parent of c only, and takes the peer of that parent without looking     *)
(* whether there is one.  Freed stands for the NULL it then reads from.    *)
NextContained(d, top, c) ==
  LET up == d.parent_comp[c]
  IN  CASE d.comps[c] # << >>    -> Head(d.comps[c])
        [] d.comps[c] = << >> /\ c = top -> NoComp
        [] d.comps[c] = << >> /\ c # top /\ Peers(d, c) # {} -> Peer(d, c)
        [] d.comps[c] = << >> /\ c # top /\ Peers(d, c) = {} ->
             IF up \in {top, NoComp} THEN NoComp
             ELSE IF up \in Objs /\ Peers(d, up) # {} THEN Peer(d, up)
             ELSE Freed

(* Mutant: the components below c are not looked at.                       *)
LoopCheckSelfOnly(d, p, c) == IF p = c THEN "loop" ELSE "clear"

(* Mutant: the parent is not looked for.                                   *)
SearchForNothing(d, p, c) ==
  [x \in Places |-> IF x \in Objs THEN NextContained(d, c, x) ELSE x]

(* The walk down the components of c that looks for p, from the first in c *)
(* on: it stops at p, at the end, or at a NULL pointer; or it never stops. *)
Search(d, p, c) ==
  [x \in Places |-> IF x \in Objs /\ x # p THEN NextContained(d, c, x) ELSE x]
LoopCheck(d, p, c) ==
  LET steps == 2 * Cardinality(Objs)
      end   == Iterate(Search(d, p, c), NextContained(d, c, c), steps)[steps]
  IN  CASE d.type[c] # "COMP"                  -> "clear"
        [] d.type[c] = "COMP" /\ end = NoComp -> "clear"
        [] d.type[c] = "COMP" /\ end = Freed  -> "broken"
        [] d.type[c] = "COMP" /\ end = p      -> "loop"
        [] OTHER                              -> "hung"
=============================================================================
