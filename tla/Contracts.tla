----------------------------- MODULE Contracts -----------------------------
(***************************************************************************)
(* The contract of a library and the label of an update.                   *)
(*                                                                         *)
(* vault-index reads from a tree what its users depend on - the sets of    *)
(* variants with their names, axes and tokens, and the colours,            *)
(* typographies and tokens the library exports - and compares two such     *)
(* contracts: patch, migration, minor or major.  The algorithm is here as  *)
(* the code has it, set by set; the reference it is checked against looks  *)
(* at the components one by one and knows neither groups nor keys.         *)
(*                                                                         *)
(* A library is edited step by step, as its author does it in Penpot, and  *)
(* compared with what it was: `before' is the version a user has pinned.   *)
(***************************************************************************)
EXTENDS Naturals, FiniteSets, FiniteSetsExt, Functions

CONSTANTS
    Comps,    \* component ids
    Words,    \* names and paths: an initial segment of the numbers, ordered as the strings are
    Variants, \* variantIds, ordered as the uuids are
    Axes,     \* names of variant properties
    Tokens,   \* token paths
    Types,    \* what a token's $type can be
    Colours,  \* names of exported colours and typographies
    Libraries,\* bound: the libraries an edit may start from
    MaxEdits, \* bound: edits between two versions
    Absent

ASSUME WordsAssumption == /\ Words \subseteq Nat \ {0} /\ Variants \subseteq Nat \ {0}
                          /\ Types \subseteq Nat \ {0}
                          /\ IsFiniteSet(Words) /\ IsFiniteSet(Variants) /\ IsFiniteSet(Comps)

VARIABLES before, after, edits
versions == <<before, after, edits>>

\* A component of the tree; no variantId and no path are 0.
Component == [name : Words, path : Words \cup {0}, variant : Variants \cup {0},
              axes : SUBSET Axes, uses : SUBSET Tokens]
Library == [comps : [Comps -> Component \cup {Absent}], colours : SUBSET Colours,
            tokens : [Tokens -> Types \cup {0}]]

Present(lib) == {c \in Comps : lib.comps[c] # Absent}

\* A variant container is one board of Penpot's, at one path.
OnePath(lib) ==
    \A c, d \in Present(lib) : lib.comps[c].variant # 0 /\ lib.comps[d].variant = lib.comps[c].variant
                             => lib.comps[d].path = lib.comps[c].path

ASSUME LibrariesAssumption == \A lib \in Libraries : lib \in Library /\ OnePath(lib)

LibrariesOK == before \in Library /\ after \in Library /\ edits \in 0 .. MaxEdits

ContractInit == before \in Libraries /\ after = before /\ edits = 0

----------------------------------------------------------------------------
(* What an author does between two versions.                               *)

Change(lib) == /\ edits < MaxEdits /\ edits' = edits + 1
               /\ after' = lib /\ lib # after /\ UNCHANGED before

Add(c) == /\ c \notin Present(after)
          /\ \E n \in Words, p \in Words \cup {0} :
               Change([after EXCEPT !.comps[c] = [name |-> n, path |-> p, variant |-> 0,
                                                  axes |-> {}, uses |-> {}]])

Drop(c) == c \in Present(after) /\ Change([after EXCEPT !.comps[c] = Absent])

Rename(c) == /\ c \in Present(after)
             /\ \E n \in Words : Change([after EXCEPT !.comps[c].name = n])

\* A component takes its path from the group it is dragged into; one of a
\* variant container takes the container's.
Regroup(c) ==
    /\ c \in Present(after)
    /\ \E p \in Words \cup {0} :
         Change([after EXCEPT !.comps = [d \in Comps |->
           IF d = c \/ (d \in Present(after) /\ after.comps[c].variant # 0
                          /\ after.comps[d].variant = after.comps[c].variant)
           THEN [after.comps[d] EXCEPT !.path = p] ELSE after.comps[d]]])

\* Components of one path are combined as variants, or the container is undone.
Combine(p, v) ==
    LET G == {c \in Present(after) : after.comps[c].path = p /\ after.comps[c].variant = 0} IN
    /\ G # {} /\ \A c \in Present(after) : after.comps[c].variant # v
    /\ \E A \in SUBSET Axes :
         Change([after EXCEPT !.comps = [c \in Comps |->
           IF c \in G THEN [after.comps[c] EXCEPT !.variant = v, !.axes = A] ELSE after.comps[c]]])

Uncombine(v) ==
    Change([after EXCEPT !.comps = [c \in Comps |->
      IF c \in Present(after) /\ after.comps[c].variant = v
      THEN [after.comps[c] EXCEPT !.variant = 0, !.axes = {}] ELSE after.comps[c]]])

EditAxes(c) == /\ c \in Present(after) /\ after.comps[c].variant # 0
               /\ \E A \in SUBSET Axes : Change([after EXCEPT !.comps[c].axes = A])

Apply(c) == /\ c \in Present(after)
            /\ \E U \in SUBSET Tokens : Change([after EXCEPT !.comps[c].uses = U])

EditExports ==
    \/ \E C \in SUBSET Colours : Change([after EXCEPT !.colours = C])
    \/ \E t \in Tokens, ty \in Types \cup {0} : Change([after EXCEPT !.tokens[t] = ty])

\* The library is imported as a new file: every id is another one.
Reimport ==
    \E f \in Bijection(Variants, Variants) :
      Change([after EXCEPT !.comps = [c \in Comps |->
        IF c \in Present(after) /\ after.comps[c].variant # 0
        THEN [after.comps[c] EXCEPT !.variant = f[@]] ELSE after.comps[c]]])

ContractNext ==
    \/ \E c \in Comps : Add(c) \/ Drop(c) \/ Rename(c) \/ Regroup(c) \/ EditAxes(c) \/ Apply(c)
    \/ \E p \in Words \cup {0}, v \in Variants : Combine(p, v)
    \/ \E v \in Variants : Uncombine(v)
    \/ EditExports \/ Reimport

ContractSpec == ContractInit /\ [][ContractNext]_versions

----------------------------------------------------------------------------
(* extract_contracts.                                                      *)

\* Sets are found by variantId where there is one, by shared path elsewhere.
GroupKey(c) == IF c.variant # 0 THEN <<"first-class", c.variant>> ELSE <<"legacy", c.path>>

Groups(lib) == {GroupKey(lib.comps[c]) : c \in Present(lib)}
Members(lib, g) == {lib.comps[c] : c \in {d \in Present(lib) : GroupKey(lib.comps[d]) = g}}

\* A set goes by its path, the first of several; without one by its first name.
SetName(M) == LET P == {c.path : c \in M} \ {0} IN Min(IF P # {} THEN P ELSE {c.name : c \in M})

SetOf(lib, g) == LET M == Members(lib, g) IN
    [variantNames      |-> {c.name : c \in M},
     exposedProperties |-> UNION {c.axes : c \in M},
     tokensUsed        |-> UNION {c.uses : c \in M}]

\* Mutant: a set is known by its path alone.
PathOnly(lib, g) == <<"legacy", SetName(Members(lib, g))>>

\* The identity of a set: its kind and its path, never its variantId.
SetKey(lib, g) == <<g[1], SetName(Members(lib, g))>>

\* Two groups of one key: the map keeps the one that comes last, and groups
\* come in the order of what they were grouped by.
contract_index(lib) ==
    [k \in {SetKey(lib, g) : g \in Groups(lib)} |->
       LET G == {g \in Groups(lib) : SetKey(lib, g) = k}
           last == CHOOSE g \in G : \A h \in G : h[2] <= g[2] IN
       SetOf(lib, last)]

token_strings(lib) == {<<t, lib.tokens[t]>> : t \in {u \in Tokens : lib.tokens[u] # 0}}

----------------------------------------------------------------------------
(* diff_contracts.                                                         *)

classify_field(b, a) == IF b \ a # {} THEN "major" ELSE IF a \ b # {} THEN "minor" ELSE "patch"

\* Patch and migration rank the same, and the first of them stays.
max_bump(B) == IF "major" \in B THEN "major" ELSE IF "minor" \in B THEN "minor"
               ELSE IF "migration" \in B THEN "migration" ELSE "patch"

diff_normal(b, a) == max_bump({classify_field(b.variantNames, a.variantNames),
                               classify_field(b.exposedProperties, a.exposedProperties),
                               classify_field(b.tokensUsed, a.tokensUsed)})

\* The axes of a set that became first-class are no growth.
diff_migration(b, a) == max_bump({classify_field(b.variantNames, a.variantNames),
                                  classify_field(b.tokensUsed, a.tokensUsed), "migration"})

\* The legacy sets that turned into first-class ones.
Switched(b, a) ==
    {p \in Words : /\ <<"legacy", p>> \in DOMAIN b /\ b[<<"legacy", p>>].exposedProperties = {}
                   /\ <<"legacy", p>> \notin DOMAIN a /\ <<"first-class", p>> \notin DOMAIN b
                   /\ <<"first-class", p>> \in DOMAIN a}

diff_sets(b, a) ==
    LET P == Switched(b, a)
        K == {k \in DOMAIN b \cup DOMAIN a : k[2] \notin P} IN
    {diff_migration(b[<<"legacy", p>>], a[<<"first-class", p>>]) : p \in P}
    \cup {IF k \notin DOMAIN a THEN "major" ELSE IF k \notin DOMAIN b THEN "minor"
          ELSE diff_normal(b[k], a[k]) : k \in K}

diff_contracts(x, y) ==
    max_bump(diff_sets(contract_index(x), contract_index(y))
             \cup {classify_field(x.colours, y.colours),
                   classify_field(token_strings(x), token_strings(y))})

----------------------------------------------------------------------------
(* The reference: what a user of the library can see of it.                *)

KindOf(c) == IF c.variant # 0 THEN "first-class" ELSE "legacy"

\* A component is seen by its path, and its variants, axes and tokens there.
Seen(c) == {<<KindOf(c), c.path, "set", 0>>, <<KindOf(c), c.path, "name", c.name>>}
           \cup {<<KindOf(c), c.path, "axis", x>> : x \in c.axes}
           \cup {<<KindOf(c), c.path, "token", t>> : t \in c.uses}

Sets(lib) == UNION {Seen(lib.comps[c]) : c \in Present(lib)}
Exports(lib) == {<<"colour", c>> : c \in lib.colours} \cup {<<"token", t>> : t \in token_strings(lib)}

KindsOf(lib, p) == {e[1] : e \in {x \in Sets(lib) : x[2] = p}}
Undeclared(lib, p) == \A e \in Sets(lib) : e[2] = p => e[3] # "axis"

\* The paths whose components were combined into variants, and nothing else.
Migrated == {p \in Words : /\ KindsOf(before, p) = {"legacy"} /\ KindsOf(after, p) = {"first-class"}
                           /\ Undeclared(before, p)}

\* There the kind and the axes do not count.
View(lib) == {<<IF e[2] \in Migrated THEN "legacy" ELSE e[1], e[2], e[3], e[4]>> :
                e \in {x \in Sets(lib) : x[2] \notin Migrated \/ x[3] # "axis"}}

Lost == (View(before) \ View(after)) # {} \/ (Exports(before) \ Exports(after)) # {}
Grown == (View(after) \ View(before)) # {} \/ (Exports(after) \ Exports(before)) # {}

Label == IF Lost THEN "major" ELSE IF Grown THEN "minor"
         ELSE IF Migrated # {} THEN "migration" ELSE "patch"

\* Every component is in a group ...
Placed(lib) == \A c \in Present(lib) : lib.comps[c].path # 0

\* ... and no two variant containers share a path.
Tidy(lib) ==
    /\ Placed(lib)
    /\ \A c, d \in Present(lib) : (KindOf(lib.comps[c]) = "first-class" /\ KindOf(lib.comps[d]) = "first-class"
                                 /\ lib.comps[c].path = lib.comps[d].path)
                               => lib.comps[c].variant = lib.comps[d].variant

(* In a tidy library the label says what happened to what users can see,   *)
(* whatever became of the ids: major if something of it is gone, minor if  *)
(* it only grew, migration if all that changed is how variants are kept.   *)
Labelled == Tidy(before) /\ Tidy(after) => diff_contracts(before, after) = Label

(* What is gone is a major change also when two variant containers share a *)
(* path: sets of one key must not hide one another.                        *)
BreaksTold == Placed(before) /\ Placed(after) /\ Lost => diff_contracts(before, after) = "major"
=============================================================================
