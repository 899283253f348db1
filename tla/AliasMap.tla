------------------------------- MODULE AliasMap ------------------------------
(***************************************************************************)
(* Who is who: build_alias_map of memory_intelligence.py, which joins the  *)
(* names, mentions, addresses and Slack ids of people in the memory rows   *)
(* of a window.                                                            *)
(*                                                                         *)
(* An alias is known by its signature: a Slack id, or its words in small   *)
(* letters.  Aliases with the same signature are one; a first name joins   *)
(* the only full name it starts; text like "Rahul Verma (<@U1>)" joins an  *)
(* id and a name.  Joins go through a union-find with path compression,    *)
(* rows come in any order.  Labels, display names, counts, and projects    *)
(* and channels (which join on equal words alone) are left out.            *)
(***************************************************************************)
EXTENDS Naturals, FiniteSets, Sequences

CONSTANTS Ids,    \* Slack ids that rows may mention
          Names,  \* sequences of words
          Pairs,  \* of an id and a name that a text may put side by side
          Order   \* the order of repr: a number for each id and name

Signatures == Ids \cup Names

ASSUME AliasAssumption ==
  /\ IsFiniteSet(Signatures) /\ Pairs \subseteq Ids \X Names
  /\ Order \in [Signatures -> Nat]
  /\ \A a, b \in Signatures : a # b => Order[a] # Order[b]

VARIABLES aliases,  \* signatures of the aliases in the rows
          pairs,    \* what the rows put side by side
          phase,    \* "single", "pair", "done"
          left,     \* first names, then pairs, that are still to do
          parent,   \* the union-find
          joined    \* pairs that were united, with the rule (history)

aliasVars == <<aliases, pairs, phase, left, parent, joined>>

Multi == {n \in Names \cap aliases : Len(n) >= 2}
Single == {n \in Names \cap aliases : Len(n) = 1}

AliasInit ==
  /\ aliases \in SUBSET Signatures /\ pairs \in SUBSET Pairs
  /\ phase = "single" /\ left = Single
  /\ parent = [s \in aliases |-> s] /\ joined = {}

-----------------------------------------------------------------------------
(* _UnionFind.                                                             *)

Added(f, keys) == [k \in DOMAIN f \cup keys |-> IF k \in DOMAIN f THEN f[k] ELSE k]

\* Where n steps lead from a.
Iterated(step, a, n) == LET at[i \in 0..n] == IF i = 0 THEN a ELSE step[at[i - 1]] IN at[n]

\* The root that k leads up to; the keys on the way.
Root(f, k)  == Iterated(f, k, Cardinality(DOMAIN f))
Path(f, k)  == {Iterated(f, k, n) : n \in 0..Cardinality(DOMAIN f)}

FoundRoot(f, k) == [j \in DOMAIN f |-> IF j \in Path(f, k) THEN Root(f, k) ELSE f[j]]

\* Mutant of United: the key itself is hung up, not its root.
UnitedKeys(f, a, b) ==
  LET ra == Root(f, a)
      rb == Root(f, b)
  IN IF Order[ra] <= Order[rb] THEN [f EXCEPT ![b] = ra] ELSE [f EXCEPT ![a] = rb]

United(f, a, b) ==
  LET ra == Root(f, a)
      rb == Root(f, b)
      g  == FoundRoot(FoundRoot(f, a), b)
  IN IF Order[ra] <= Order[rb] THEN [g EXCEPT ![rb] = ra] ELSE [g EXCEPT ![ra] = rb]

-----------------------------------------------------------------------------
(* build_alias_map.                                                        *)

\* first_name_unambiguous: full names that start with the first name s.
NameCandidates(s) == {m \in Multi : m[1] = s[1]}

FirstName(s) ==
  /\ phase = "single" /\ s \in left /\ left' = left \ {s}
  /\ IF Cardinality(NameCandidates(s)) = 1
     THEN \E m \in NameCandidates(s) :
            /\ parent' = United(parent, s, m)
            /\ joined' = joined \cup {[rule |-> "first_name", of |-> <<s, m>>]}
     ELSE UNCHANGED <<parent, joined>>
  /\ UNCHANGED <<aliases, pairs, phase>>

FirstNamesDone ==
  /\ phase = "single" /\ left = {}
  /\ phase' = "pair" /\ left' = pairs
  /\ UNCHANGED <<aliases, pairs, parent, joined>>

\* slack_id_adjacency.
Adjacent(p) ==
  /\ phase = "pair" /\ p \in left /\ left' = left \ {p}
  /\ parent' = United(Added(parent, {p[1], p[2]}), p[1], p[2])
  /\ joined' = joined \cup {[rule |-> "adjacency", of |-> p]}
  /\ UNCHANGED <<aliases, pairs, phase>>

AdjacentDone ==
  /\ phase = "pair" /\ left = {}
  /\ phase' = "done"
  /\ UNCHANGED <<aliases, pairs, left, parent, joined>>

AliasNext ==
  \/ FirstNamesDone \/ AdjacentDone
  \/ \E s \in Names : FirstName(s)
  \/ \E p \in Pairs : Adjacent(p)

AliasSpec == AliasInit /\ [][AliasNext]_aliasVars

-----------------------------------------------------------------------------
(* Properties.                                                             *)

Known == DOMAIN parent
Joins == {{j.of[1], j.of[2]} : j \in joined}

\* Keys with those that are joined to one of them; what joins connect to k.
Spread   == [keys \in SUBSET Known |-> keys \cup UNION {e \in Joins : e \cap keys # {}}]
Group(k) == Iterated(Spread, {k}, Cardinality(Known))

(* "Deterministic union": whatever the order of the rows, two signatures   *)
(* have one root if and only if joins connect them, and it is the least    *)
(* ("lexicographically smaller repr wins") of all they connect.            *)
RootIsLeast ==
  \A k \in Known : LET group == Group(k) IN
    Root(parent, k) = CHOOSE r \in group : \A j \in group : Order[r] <= Order[j]

InWindow == aliases \cup {p[2] : p \in pairs}

(* "A single-token alias merges into a multi-token person ONLY when        *)
(* exactly one such person exists in the window. Two candidates -> no      *)
(* merge."                                                                 *)
TwoCandidatesNoMerge ==
  \A j \in joined : j.rule = "first_name" =>
    {n \in InWindow \cap Names : Len(n) >= 2 /\ n[1] = j.of[1][1]} = {j.of[2]}

(* Aliases are canonicalized to "ONE person", and "ambiguity always means  *)
(* do not merge": two Slack ids are two people.                            *)
IdsApart ==
  phase = "done" =>
    \A a, b \in Ids \cap Known : a # b => Root(parent, a) # Root(parent, b)
==============================================================================
