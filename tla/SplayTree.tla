------------------------------ MODULE SplayTree ------------------------------
(***************************************************************************)
(* The splay tree of splay/src/tree.c: nodes with two children, a parent   *)
(* and the side of the parent they hang on (isLeft).  A call is a sequence *)
(* of steps: an iteration of each loop is one, so is each rotation and     *)
(* each visit of the recursive splayRemoveInterval_from_node, whose call   *)
(* stack is explicit.  The mirrored functions and branches of the code are *)
(* one operator with the side as a parameter.                              *)
(***************************************************************************)
EXTENDS Integers, Sequences, FiniteSets, Functions

CONSTANTS
  Addresses,         \* uintptr_t values
  NodeIds,           \* what __libc_malloc may return for a node
  Null,
  Absent, Conflict   \* answers that are no interval

Sides == {"left", "right"}
Other(s) == IF s = "left" THEN "right" ELSE "left"

Behaviors == {"IB_EXTEND", "IB_REPLACE", "IB_ERROR"}

(* Intervals that hold a value (the assertion of splayInsert). *)
Proper == {i \in [base : Addresses, bound : Addresses] : i.base < i.bound}

ASSUME TreeAssumption ==
  /\ Addresses \subseteq Nat /\ Null \notin NodeIds
  /\ Absent # Conflict /\ Absent \notin Proper /\ Conflict \notin Proper

VARIABLES
  root, numNodes,
  span,     \* base and bound of each allocated node
  child,    \* leftChild and rightChild
  parent,
  side,     \* isLeft
  pc,       \* the loop or function that runs; "idle" between calls
  call,     \* "find", "remove" or the behavior of an insertion
  arg,      \* its interval or value
  cur,      \* current, x of splay, E of removeNode
  par, dir, \* parent and left of splayInsert; what splay still has to rotate
  stack,    \* activations that visit a node, the insertion's own first
  answer    \* what the call answers, as soon as that is certain

tree == <<root, numNodes, span, child, parent, side>>
local == <<call, arg, cur, par, dir, stack>>
vars == <<tree, pc, local, answer>>

Nodes == DOMAIN span

Init ==
  /\ root = Null /\ numNodes = 0
  /\ span = [n \in {} |-> Null] /\ child = [n \in {} |-> Null]
  /\ parent = [n \in {} |-> Null] /\ side = [n \in {} |-> Null]
  /\ pc = "idle" /\ call = Null /\ arg = Null
  /\ cur = Null /\ par = Null /\ dir = "right" /\ stack = <<>>
  /\ answer = Absent

-----------------------------------------------------------------------------
(* Links *)

(* f[n] := v, unless there is no node n *)
Put(f, n, v) == IF n = Null THEN f ELSE [f EXCEPT ![n] = v]

(* Faulty variant: the root stays when it is replaced. *)
RootWith_Kept(res, new) == root

(* replaceInParent: what the root and the children become *)
RootWith(res, new) == IF parent[res] = Null THEN new ELSE root

ChildWith(res, new) ==
  IF parent[res] = Null THEN child ELSE [child EXCEPT ![parent[res]][side[res]] = new]

(* Faulty variant: the subtree that changes hands keeps its parent. *)
Rotate_ForgetsInner(p, s) ==
  LET x == child[p][s]
      b == child[x][Other(s)]
  IN  /\ root' = RootWith(p, x)
      /\ child' = [ChildWith(p, x) EXCEPT ![x][Other(s)] = p, ![p][s] = b]
      /\ parent' = [parent EXCEPT ![x] = parent[p], ![p] = x]
      /\ side' = [side EXCEPT ![x] = side[p], ![p] = Other(s)]
      /\ UNCHANGED <<numNodes, span>>

(* Faulty variant: the subtree that changes hands is read after its place   *)
(* has been taken.                                                          *)
Rotate_ReadsLate(p, s) ==
  LET x == child[p][s]
  IN  /\ root' = RootWith(p, x)
      /\ child' = [ChildWith(p, x) EXCEPT ![x][Other(s)] = p, ![p][s] = p]
      /\ parent' = [parent EXCEPT ![x] = parent[p], ![p] = p]
      /\ side' = [side EXCEPT ![x] = side[p], ![p] = s]
      /\ UNCHANGED <<numNodes, span>>

(* rotateRight for the left side, rotateLeft for the right one *)
Rotate(p, s) ==
  LET x == child[p][s]
      b == child[x][Other(s)]
  IN  /\ root' = RootWith(p, x)
      /\ child' = [ChildWith(p, x) EXCEPT ![x][Other(s)] = p, ![p][s] = b]
      /\ parent' = Put([parent EXCEPT ![x] = parent[p], ![p] = x], b, p)
      /\ side' = Put([side EXCEPT ![x] = side[p], ![p] = Other(s)], b, s)
      /\ UNCHANGED <<numNodes, span>>

(* Node e, which has no other child than new, leaves the tree and is freed. *)
Unlink(e, new) ==
  LET rest == Nodes \ {e}
  IN  /\ root' = RootWith(e, new)
      /\ child' = Restrict(ChildWith(e, new), rest)
      /\ parent' = Restrict(Put(parent, new, parent[e]), rest)
      /\ side' = Restrict(Put(side, new, side[e]), rest)
      /\ numNodes' = numNodes - 1

-----------------------------------------------------------------------------
(* Calls *)

Running == answer # Conflict

Start(label, name, argument) ==
  /\ pc = "idle" /\ Running
  /\ pc' = label /\ call' = name /\ arg' = argument /\ cur' = root
  /\ UNCHANGED <<tree, par, dir, stack, answer>>

Find(val) == Start("find", "find", val)

Remove(val) == Start("find", "remove", val)

Insert(new, ib) == Start("descend", ib, new)

Return ==
  /\ pc' = "idle" /\ call' = Null /\ arg' = Null
  /\ cur' = Null /\ par' = Null /\ dir' = "right" /\ stack' = <<>>

-----------------------------------------------------------------------------
(* splay(cur) *)

Zig == parent[parent[cur]] = Null

ZigZig == side[cur] = side[parent[cur]]

SplayStep ==
  LET p == parent[cur]
      g == parent[p]
  IN  /\ pc = "splay" /\ p # Null
      /\ \/ /\ Zig
            /\ Rotate(p, side[cur])
            /\ UNCHANGED <<pc, par, dir>>
         \/ /\ ~Zig /\ ZigZig
            /\ Rotate(g, side[cur])
            /\ pc' = "second" /\ par' = p /\ dir' = side[cur]
         \/ /\ ~Zig /\ ~ZigZig
            /\ Rotate(p, side[cur])
            /\ pc' = "second" /\ par' = g /\ dir' = side[p]
      /\ UNCHANGED <<call, arg, cur, stack, answer>>

SecondRotation ==
  /\ pc = "second"
  /\ Rotate(par, dir)
  /\ pc' = "splay" /\ par' = Null /\ dir' = "right"
  /\ UNCHANGED <<call, arg, cur, stack, answer>>

Splayed ==
  /\ pc = "splay" /\ parent[cur] = Null
  /\ Return
  /\ UNCHANGED <<tree, answer>>

-----------------------------------------------------------------------------
(* find_from_node, splayFind, splayRemove *)

Holds(n, val) == span[n].base <= val /\ val < span[n].bound

FindStep ==
  /\ pc = "find" /\ cur # Null /\ ~Holds(cur, arg)
  /\ cur' = child[cur][IF arg < span[cur].base THEN "left" ELSE "right"]
  /\ UNCHANGED <<tree, pc, call, arg, par, dir, stack, answer>>

NotFound ==
  /\ pc = "find" /\ cur = Null
  /\ answer' = Absent
  /\ Return
  /\ UNCHANGED tree

Found ==
  /\ pc = "find" /\ cur # Null /\ Holds(cur, arg)
  /\ \/ /\ call = "find"
        /\ pc' = "splay" /\ answer' = span[cur]
        /\ UNCHANGED <<cur, stack>>
     \/ /\ call = "remove"
        /\ pc' = "remove" /\ stack' = <<[node |-> cur, at |-> "done"]>> /\ cur' = Null
        /\ UNCHANGED answer
  /\ UNCHANGED <<tree, call, arg, par, dir>>

-----------------------------------------------------------------------------
(* removeNode, of the node that the last activation visits *)

Top == stack[Len(stack)]

Popped == SubSeq(stack, 1, Len(stack) - 1)

Doomed == Top.node

TwoChildren == child[Doomed]["left"] # Null /\ child[Doomed]["right"] # Null

(* Back to splayRemove and its caller, or to the activation below *)
Removed ==
  IF call = "remove"
  THEN Return /\ answer' = span[Doomed]
  ELSE /\ pc' = "clear" /\ cur' = Null /\ stack' = Popped
       /\ UNCHANGED <<call, arg, par, dir, answer>>

RemoveNode ==
  LET left == child[Doomed]["left"]
  IN  /\ pc = "remove" /\ ~TwoChildren
      /\ Unlink(Doomed, IF left = Null THEN child[Doomed]["right"] ELSE left)
      /\ span' = Restrict(span, Nodes \ {Doomed})
      /\ Removed

FindMin ==
  /\ pc = "remove" /\ TwoChildren
  /\ pc' = "min" /\ cur' = child[Doomed]["right"]
  /\ UNCHANGED <<tree, call, arg, par, dir, stack, answer>>

FindMinStep ==
  /\ pc = "min" /\ child[cur]["left"] # Null
  /\ cur' = child[cur]["left"]
  /\ UNCHANGED <<tree, pc, call, arg, par, dir, stack, answer>>

(* The successor's data is copied and the successor freed. *)
RemoveSuccessor ==
  /\ pc = "min" /\ child[cur]["left"] = Null
  /\ Unlink(cur, child[cur]["right"])
  /\ span' = Restrict([span EXCEPT ![Doomed] = span[cur]], Nodes \ {cur})
  /\ Removed

-----------------------------------------------------------------------------
(* splayInsert *)

DescendStep ==
  /\ pc = "descend" /\ cur # Null
  /\ \/ arg.bound <= span[cur].base /\ dir' = "left"
     \/ arg.base >= span[cur].bound /\ dir' = "right"
  /\ par' = cur /\ cur' = child[cur][dir']
  /\ UNCHANGED <<tree, pc, call, arg, stack, answer>>

Link(n) ==
  /\ pc = "descend" /\ cur = Null
  /\ span' = [m \in Nodes \cup {n} |-> IF m = n THEN arg ELSE span[m]]
  /\ parent' = [m \in Nodes \cup {n} |-> IF m = n THEN par ELSE parent[m]]
  /\ side' = [m \in Nodes \cup {n} |-> IF m = n THEN dir ELSE side[m]]
  /\ child' = [m \in Nodes \cup {n} |->
                 IF m = n THEN [s \in Sides |-> Null]
                 ELSE IF m = par THEN [child[m] EXCEPT ![dir] = n] ELSE child[m]]
  /\ root' = IF par = Null THEN n ELSE root
  /\ numNodes' = numNodes + 1
  /\ pc' = "splay" /\ cur' = n /\ par' = Null /\ dir' = "right" /\ answer' = arg
  /\ UNCHANGED <<call, arg, stack>>

Meets(n) == ~(arg.bound <= span[n].base) /\ ~(arg.base >= span[n].bound)

Contained(n) == span[n].base <= arg.base /\ span[n].bound >= arg.bound

Lower(x, y) == IF x < y THEN x ELSE y
Upper(x, y) == IF x > y THEN x ELSE y

(* What an overlapped node n becomes *)
Result(n) ==
  IF call = "IB_EXTEND"
  THEN [base |-> Lower(span[n].base, arg.base), bound |-> Upper(span[n].bound, arg.bound)]
  ELSE arg

Refuse ==
  /\ pc = "descend" /\ cur # Null /\ Meets(cur) /\ call = "IB_ERROR"
  /\ answer' = Conflict
  /\ Return
  /\ UNCHANGED tree

Overlapped ==
  /\ pc = "descend" /\ cur # Null /\ Meets(cur) /\ call # "IB_ERROR"
  /\ stack' = <<[node |-> cur, at |-> IF Contained(cur) THEN "done" ELSE "left"]>>
  /\ pc' = "clear" /\ cur' = Null /\ par' = Null /\ dir' = "right" /\ answer' = Result(cur)
  /\ UNCHANGED <<tree, call, arg>>

Overwrite ==
  /\ pc = "clear" /\ Len(stack) = 1 /\ Top.at = "done"
  /\ span' = [span EXCEPT ![Top.node] = Result(Top.node)]
  /\ pc' = "splay" /\ cur' = Top.node /\ stack' = <<>>
  /\ UNCHANGED <<root, numNodes, child, parent, side, call, arg, par, dir, answer>>

-----------------------------------------------------------------------------
(* splayRemoveInterval_from_node, of the node that the last activation      *)
(* visits.  The insertion visits its own node in the same way, but clears   *)
(* both sides in any case and does not remove the node.                     *)

At(label) == [stack EXCEPT ![Len(stack)].at = label]

Continue(newStack) ==
  /\ stack' = newStack
  /\ UNCHANGED <<tree, pc, call, arg, cur, par, dir, answer>>

StartRemoval ==
  /\ pc' = "remove"
  /\ UNCHANGED <<tree, local, answer>>

(* Faulty variant: a node that reaches beyond the interval stays. *)
Hit_OnlyContained(node) == arg.base <= node.base /\ node.bound <= arg.bound

Hit(node) ==
  \/ arg.base <= node.base /\ node.bound <= arg.bound
  \/ node.base <= arg.base /\ node.bound > arg.base
  \/ node.base < arg.bound /\ node.bound >= arg.bound

Skips(node, s) == IF s = "left" THEN node.base <= arg.base ELSE node.bound >= arg.bound

Enter ==
  /\ pc = "clear" /\ Top.at = "enter"
  /\ IF Contained(Top.node) THEN StartRemoval ELSE Continue(At("left"))

Visit(s) ==
  LET below == child[Top.node][s]
      next  == At(IF s = "left" THEN "right" ELSE "done")
  IN  /\ pc = "clear" /\ Top.at = s
      /\ IF below = Null \/ (Len(stack) > 1 /\ Skips(span[Top.node], s))
         THEN Continue(next)
         ELSE Continue(Append(next, [node |-> below, at |-> "enter"]))

Leave ==
  /\ pc = "clear" /\ Len(stack) > 1 /\ Top.at = "done"
  /\ IF Hit(span[Top.node]) THEN StartRemoval ELSE Continue(Popped)

-----------------------------------------------------------------------------
Next ==
  \/ \E val \in Addresses : Find(val) \/ Remove(val)
  \/ \E new \in Proper, ib \in Behaviors : Insert(new, ib)
  \/ SplayStep \/ SecondRotation \/ Splayed
  \/ FindStep \/ NotFound \/ Found
  \/ RemoveNode \/ FindMin \/ FindMinStep \/ RemoveSuccessor
  \/ DescendStep \/ Refuse \/ Overlapped \/ Overwrite
  \/ \E n \in NodeIds \ Nodes : Link(n)
  \/ Enter \/ Leave \/ \E s \in Sides : Visit(s)

Spec == Init /\ [][Next]_vars
-----------------------------------------------------------------------------
(* Properties *)

Labels == {"idle", "find", "descend", "splay", "second", "clear", "remove", "min"}

TypeOK ==
  /\ Nodes \subseteq NodeIds /\ numNodes \in Nat
  /\ span \in [Nodes -> Proper]
  /\ child \in [Nodes -> [Sides -> Nodes \cup {Null}]]
  /\ parent \in [Nodes -> Nodes \cup {Null}] /\ side \in [Nodes -> Sides]
  /\ pc \in Labels /\ call \in Behaviors \cup {"find", "remove", Null}
  /\ root \in Nodes \cup {Null} /\ cur \in Nodes \cup {Null} /\ par \in Nodes \cup {Null}
  /\ dir \in Sides
  /\ stack \in Seq([node : Nodes, at : Sides \cup {"enter", "done"}])
  /\ answer \in Proper \cup {Absent, Conflict}

(* The nodes of the subtree of n: what every set has that has n and, with   *)
(* each node, its children.                                                 *)
Closed(S) == \A m \in S, s \in Sides : child[m][s] \in S \cup {Null}

Below(n) ==
  IF n = Null THEN {}
  ELSE {m \in Nodes : \A S \in SUBSET Nodes : n \in S /\ Closed(S) => m \in S}

(* In every step of every call, the tree is what validateTree               *)
(* (tree_tools.c:85) checks, and more: every link is matched by its back    *)
(* link, all nodes left of a node end before it begins and all nodes right  *)
(* of it begin after it ends, and exactly the allocated nodes, numNodes of  *)
(* them, hang on the root: no removal or rotation leaks a node or leaves    *)
(* one freed in the tree.                                                   *)
ValidTree ==
  /\ root # Null => parent[root] = Null
  /\ \A n \in Nodes, s \in Sides :
       LET c == child[n][s]
       IN  c # Null => parent[c] = n /\ side[c] = s
  /\ \A n \in Nodes :
       /\ \A l \in Below(child[n]["left"]) : span[l].bound <= span[n].base
       /\ \A r \in Below(child[n]["right"]) : span[n].bound <= span[r].base
  /\ Below(root) = Nodes
  /\ Cardinality(Nodes) = numNodes

(* An insertion has met a node and clears what else it overlaps. *)
Clearing == stack # <<>> /\ call # "remove"

Above(x) == {n \in Nodes \ {x} : x \in Below(n)}

(* The sides that an activation has not visited yet, and what is below them *)
Ahead(f) == {s \in Sides : f.at \in {"enter", "left"} \/ (s = "right" /\ f.at = "right")}

Pending ==
  {m \in Nodes : \E i \in 1..Len(stack) : \E s \in Ahead(stack[i]) : m \in Below(child[stack[i].node][s])}

(* How far the last activation is *)
Stage ==
  IF pc = "clear" THEN [enter |-> 0, left |-> 1, right |-> 2, done |-> 3][Top.at]
  ELSE IF pc = "remove" THEN 4 ELSE 5

(* No loop and no recursion runs for ever: each iteration of a descent has  *)
(* a smaller subtree before it; each rotation of splay (tree.c:103) takes   *)
(* the node nearer to the root; and in each step of a clearing (tree.c:226) *)
(* fewer nodes are still to be visited, or an activation has ended, or the  *)
(* last one is further than before.                                         *)
Advances ==
  /\ pc \in {"find", "descend", "min"} /\ pc' = pc =>
       Below(cur)' \subseteq Below(cur) /\ Below(cur)' # Below(cur)
  /\ pc \in {"splay", "second"} /\ pc' \in {"splay", "second"} =>
       Above(cur)' \subseteq Above(cur) /\ Above(cur)' # Above(cur)
  /\ Clearing /\ Clearing' /\ ~(pc = "min" /\ pc' = "min") =>
       /\ Pending' \subseteq Pending
       /\ Pending' = Pending =>
            Len(stack') < Len(stack) \/ (Len(stack') = Len(stack) /\ Stage < Stage')

LoopsAdvance == [][Advances]_vars

Overlaps(i, j) == i.base < j.bound /\ j.base < i.bound

(* The tree is a set of disjoint intervals to its callers: whatever its     *)
(* shape, every operation answers and changes the set as IntervalMap says.  *)
(* An insertion that overlaps others takes effect when it meets the first   *)
(* of them; what it clears afterwards is then no longer in the set.  In     *)
(* particular clearing the subtrees below an overlapped node removes        *)
(* exactly the intervals that the new one overlaps.                         *)
Contents ==
  IF Clearing
  THEN {span[n] : n \in {m \in Nodes \ {stack[1].node} : ~Overlaps(span[m], arg)}}
       \cup {Result(stack[1].node)}
  ELSE {span[n] : n \in Nodes}

Map == INSTANCE IntervalMap WITH map <- Contents

ImplementsIntervalMap == Map!Spec
=============================================================================
