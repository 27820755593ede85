----------------------------- MODULE VersionDag -----------------------------
(***************************************************************************)
(* The causal graph of content versions (src/src/core/version-dag.ts).     *)
(* A graph maps the id of a version to its node: parents, the content hash *)
(* (its blob address) and the file it belongs to.  An id may be named as a *)
(* parent before its own op has arrived, or although it never will; such a *)
(* parent is a stub and has no node.                                       *)
(*                                                                         *)
(* The walks of the class are worklist loops with a visited set.  What     *)
(* such a loop computes is a set; here it is built by generations, and     *)
(* nothing depends on the graph being acyclic, as in the code.             *)
(***************************************************************************)
EXTENDS Integers, FiniteSets

CONSTANTS
    NoHash,         \* the empty content hash of a node that has none
    NoFile,         \* the empty file id of a node that has none
    NoBase,         \* mergeBase: null, no common ancestor
    MultipleBases   \* mergeBase: MULTIPLE_BASES

EmptyDag == [v \in {} |-> {}]

----------------------------------------------------------------------------
\* addVersion: a version seen again keeps what it has, gains the parents it lacks and
\* fills in a missing hash or file.  A version is never its own parent.
AddVersion(dag, v, parents, hash, file) ==
    LET node == IF v \in DOMAIN dag THEN dag[v]
                ELSE [parents |-> {}, hash |-> NoHash, file |-> NoFile]
    IN  [u \in DOMAIN dag \cup {v} |->
            IF u # v THEN dag[u]
            ELSE [parents |-> node.parents \cup (parents \ {v}),
                  hash    |-> IF node.hash = NoHash THEN hash ELSE node.hash,
                  file    |-> IF node.file = NoFile THEN file ELSE node.file]]

ParentsOf(dag, v) == IF v \in DOMAIN dag THEN dag[v].parents ELSE {}

\* S and everything above it.  No simple path is longer than the number of nodes.
WalkUp(dag, S) ==
    LET reach[n \in Nat] ==
            IF n = 0 THEN S ELSE UNION {{u} \cup ParentsOf(dag, u) : u \in reach[n - 1]}
    IN  reach[Cardinality(DOMAIN dag)]

ancestors(dag, v) == WalkUp(dag, {v})

isAncestor(dag, a, v) == a \in ancestors(dag, v)

contentHashOf(dag, v) == IF v \in DOMAIN dag THEN dag[v].hash ELSE NoHash

isMergeNode(dag, v) == Cardinality(ParentsOf(dag, v)) >= 2

\* leaves(fileId): nodes of the file that nothing names as a parent.
leaves(dag, file) ==
    LET hasChild == UNION {dag[u].parents : u \in DOMAIN dag}
    IN  {v \in DOMAIN dag : dag[v].file = file /\ v \notin hasChild}

----------------------------------------------------------------------------
(* The three-way base of two heads *)

\* Common ancestors that are proper ancestors of another: one walk up from the parents
\* of every common ancestor.
Dominated(dag, common) == WalkUp(dag, UNION {ParentsOf(dag, c) : c \in common})

mergeBase(dag, a, b) ==
    LET common  == ancestors(dag, a) \cap ancestors(dag, b)
        maximal == common \ Dominated(dag, common)
    IN  CASE common = {} -> NoBase
          [] common # {} /\ Cardinality(maximal) = 1 -> CHOOSE c \in maximal : TRUE
          [] OTHER -> MultipleBases

----------------------------------------------------------------------------
(* The hashes a round stages and the content GC keeps *)

\* The walk goes on above v if its bytes are held, if it has no hash, or if it is where
\* the walk started.
WalkContinues(dag, v, held, start) ==
    v \in DOMAIN dag /\ (v = start \/ dag[v].hash = NoHash \/ dag[v].hash \in held)

\* reachableContentHashes(v, {has}): the hashes along v's history, each branch cut above
\* the first version whose bytes are not held.
reachableContentHashes(dag, v, held) ==
    LET reach[n \in Nat] ==
            IF n = 0 THEN {v}
            ELSE UNION {{u} \cup {w \in ParentsOf(dag, u) : WalkContinues(dag, u, held, v)} :
                           u \in reach[n - 1]}
    IN  {contentHashOf(dag, u) : u \in reach[Cardinality(DOMAIN dag)]} \ {NoHash}
=============================================================================
