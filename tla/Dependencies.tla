--------------------------- MODULE Dependencies ---------------------------
(* The entry points of the API that shape the object database: create,     *)
(* contain, depend on, delete (swdiag_api.c, swdiag_rci.c).  Each runs     *)
(* with the database lock held from its first to its last line, so each is *)
(* one step.  A new dependency is checked for loops with the help of       *)
(* domains: objects that were linked when neither had a domain share a new *)
(* one, and a domain lists the domains its objects can reach.              *)
EXTENDS ObjectTree

CONSTANTS
  Containments,  \* pairs <<c, o>> the client may declare: c contains o
  Declared,      \* pairs <<p, c>> the client may declare: p depends on c
  Deletable,     \* objects the client may delete
  MaxDomains     \* bound on the number of domains

ASSUME DependenciesAssumption ==
  /\ Containments \subseteq CompNames \X Objs
  /\ Declared \subseteq Objs \X Objs
  /\ Deletable \subseteq Objs \ {System}
  /\ MaxDomains \in Nat

VARIABLES
  db,            \* the object database
  domain,        \* domain of each object, 0 for none
  reachable,     \* the domains each domain reaches
  next_domain,   \* number of the next domain
  fate           \* "up"; "hung" in a walk that does not end, the database
                 \* locked; "broken" after a read through a stray pointer

vars == <<db, domain, reachable, next_domain, fate>>
domainVars == <<domain, reachable, next_domain>>

Init ==
  /\ db = EmptyDb
  /\ domain = [o \in Objs |-> 0]
  /\ reachable = [n \in 1..MaxDomains |-> {}]
  /\ next_domain = 1
  /\ fate = "up"

-----------------------------------------------------------------------------
(* is_obj_in_tree: target is r or below it.  The recursion over            *)
(* child_depend is written as what it computes: target is in every set     *)
(* that holds r and, with an object, those it depends on.                  *)
Closed(d, S) == \A x \in S : d.child_depend[x] \subseteq S
InTree(d, target, r) ==
  \A S \in SUBSET Objs : (r \in S /\ Closed(d, S)) => target \in S

(* It visits a shared object once for each path to it, and so does not end *)
(* when a loop is below r, unless it meets the target first.               *)
OnLoop(d, x) == \E y \in d.child_depend[x] : InTree(d, x, y)
Endless(d, r) == \E x \in Objs : OnLoop(d, x) /\ InTree(d, x, r)

-----------------------------------------------------------------------------
(* Creating a rule or a component, or looking it up                        *)
CreateObj(o) ==
  /\ fate = "up"
  /\ db' = GetOrCreate(db, o, Kind(o))
  /\ UNCHANGED <<domainVars, fate>>

(* swdiag_comp_contains: p and o are created if need be, and o is moved    *)
(* into p unless p is found in it.                                         *)
CompContains(p, o) ==
  /\ fate = "up" /\ <<p, o>> \in Containments
  /\ LET d     == GetAny(GetOrCreate(db, p, "COMP"), o)
         check == LoopCheck(d, p, o)
     IN  \/ /\ check = "clear" /\ d.parent_comp[o] # Freed
            /\ db' = Contain(d, p, o)
            /\ fate' = fate
         \/ /\ check = "loop"
            /\ db' = d
            /\ fate' = fate
         \/ /\ check \in {"broken", "hung"}
            /\ db' = d
            /\ fate' = check
         \/ /\ check = "clear" /\ d.parent_comp[o] = Freed
            /\ db' = d
            /\ fate' = "broken"
  /\ UNCHANGED domainVars

(* swdiag_obj_delete of a rule or component.  The domains are left.        *)
DeleteObj(o) ==
  /\ fate = "up" /\ o \in Deletable /\ o \in Present(db)
  /\ IF db.parent_comp[o] = Freed
     THEN fate' = "broken" /\ UNCHANGED <<db, domain>>
     ELSE /\ \E order \in Orders(db, Moved(Unlink(db, o), o)) : db' = RemoveObj(db, o, order)
          /\ domain' = [domain EXCEPT ![o] = 0]
          /\ fate' = fate
  /\ UNCHANGED <<reachable, next_domain>>

-----------------------------------------------------------------------------
(* swdiag_depend_create                                                    *)

(* The link and what it takes off the boundary of the component both are   *)
(* in.                                                                     *)
Connect(d, p, c) ==
  LET l    == [d EXCEPT !.child_depend[p] = d.child_depend[p] \cup {c},
                        !.parent_depend[c] = d.parent_depend[c] \cup {p}]
      comp == d.parent_comp[p]
  IN  IF comp \in Objs /\ comp = d.parent_comp[c]
      THEN [l EXCEPT !.top_depend[comp] = d.top_depend[comp] \ {c},
                     !.bottom_depend[comp] = d.bottom_depend[comp] \ {p}]
      ELSE l

(* The scan of the domains, newest first, as far as the numbers in scanned: *)
(* pd, and any other than cd that reaches pd, now reaches cd.              *)
Scan(r, pd, cd, scanned) ==
  [n \in DOMAIN r |->
     IF n \in scanned /\ (n = pd \/ (n # cd /\ pd \in r[n])) THEN r[n] \cup {cd} ELSE r[n]]

(* A refused dependency takes cd off the list of pd again, if the scan had *)
(* got to it.                                                              *)
Undo(r, pd, cd) ==
  [n \in DOMAIN r |-> IF n = pd /\ pd > cd THEN r[n] \ {cd} ELSE r[n]]

(* Mutant: the number of a new domain is not used up.                      *)
LinkInDomainSameNumber(d, p, c) ==
  /\ domain[p] = 0 /\ domain[c] = 0 /\ next_domain <= MaxDomains
  /\ domain' = [domain EXCEPT ![p] = next_domain, ![c] = next_domain]
  /\ next_domain' = next_domain
  /\ db' = Connect(d, p, c)

(* Mutant: objects that share a domain are linked unchecked.               *)
LinkInDomainUnchecked(d, p, c) ==
  \/ /\ domain[p] = 0 /\ domain[c] = 0 /\ next_domain <= MaxDomains
     /\ domain' = [domain EXCEPT ![p] = next_domain, ![c] = next_domain]
     /\ next_domain' = next_domain + 1
     /\ db' = Connect(d, p, c)
  \/ /\ domain[p] # 0 /\ domain[p] = domain[c]
     /\ UNCHANGED <<domain, next_domain>>
     /\ db' = Connect(d, p, c)

(* Objects with no domain, or of the same: no other domain is concerned.   *)
LinkInDomain(d, p, c) ==
  LET pd == domain[p]
      cd == domain[c]
  IN  \/ /\ pd = 0 /\ cd = 0 /\ next_domain <= MaxDomains
         /\ domain' = [domain EXCEPT ![p] = next_domain, ![c] = next_domain]
         /\ next_domain' = next_domain + 1
         /\ db' = Connect(d, p, c)
      \/ /\ (pd = 0) # (cd = 0)
         /\ domain' = [domain EXCEPT ![p] = pd + cd, ![c] = pd + cd]
         /\ next_domain' = next_domain
         /\ db' = Connect(d, p, c)
      \/ /\ pd # 0 /\ pd = cd /\ ~InTree(d, p, c) /\ ~Endless(d, c)
         /\ UNCHANGED <<domain, next_domain>>
         /\ db' = Connect(d, p, c)

LinkAcross(d, p, c) ==
  LET pd == domain[p]
      cd == domain[c]
  IN  /\ pd # 0 /\ cd # 0 /\ pd # cd
      /\ pd \in reachable[cd] => ~InTree(d, p, c) /\ ~Endless(d, c)
      /\ reachable' = Scan(reachable, pd, cd, DOMAIN reachable)
      /\ db' = Connect(d, p, c)
      /\ UNCHANGED <<domain, next_domain>>

Walked(p, c) == domain[p] # 0 /\ domain[c] # 0 /\
                (domain[p] = domain[c] \/ domain[p] \in reachable[domain[c]])

Refuse(d, p, c) ==
  LET pd == domain[p]
      cd == domain[c]
  IN  /\ Walked(p, c) /\ InTree(d, p, c)
      /\ reachable' = IF pd = cd THEN reachable
                      ELSE Undo(Scan(reachable, pd, cd, {n \in DOMAIN reachable : n > cd}), pd, cd)
      /\ db' = d
      /\ UNCHANGED <<domain, next_domain>>

DependCreate(p, c) ==
  /\ fate = "up" /\ <<p, c>> \in Declared
  /\ LET d == GetAny(GetAny(db, p), c)
     IN  \/ /\ p = c \/ c \in d.child_depend[p] \/ p \in d.parent_depend[c]
            /\ db' = d
            /\ UNCHANGED <<domainVars, fate>>
         \/ /\ p # c /\ c \notin d.child_depend[p] /\ p \notin d.parent_depend[c]
            /\ \/ LinkInDomain(d, p, c) /\ UNCHANGED <<reachable, fate>>
               \/ LinkAcross(d, p, c) /\ UNCHANGED fate
               \/ Refuse(d, p, c) /\ UNCHANGED fate
               \/ /\ Walked(p, c) /\ Endless(d, c)
                  /\ fate' = "hung"
                  /\ db' = d
                  /\ UNCHANGED domainVars

Next ==
  \/ \E o \in Objs : CreateObj(o) \/ DeleteObj(o)
  \/ \E p \in CompNames, o \in Objs : CompContains(p, o)
  \/ \E p, c \in Objs : DependCreate(p, c)

Spec == Init /\ [][Next]_vars
=============================================================================
