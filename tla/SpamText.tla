------------------------------ MODULE SpamText ------------------------------
(***************************************************************************)
(* The normal form of a message and the score of its phrases.              *)
(*                                                                         *)
(* Of the characters there is one of each kind that normalize tells apart: *)
(* a letter with its capital; a letter with its capital, the full-width    *)
(* form of that, both with an accent, and the capital with a dot, whose    *)
(* small form is written with a mark; marks that compose with a letter,    *)
(* and one that does not; an invisible character; two kinds of white       *)
(* space.  macron_below is U+0331.  Unicode's tables are external, and     *)
(* what follows is all they say of these characters.                       *)
(***************************************************************************)
EXTENDS Integers, SequencesExt

Letters == {"q", "Q", "i", "I", "wide_I", "i_acute", "I_acute", "I_dot"}
Marks == {"acute", "dot", "macron_below"}
ZERO_WIDTH == {"zero_width"}
Whitespace == {"blank", "tab"}
Characters == Letters \cup Marks \cup ZERO_WIDTH \cup Whitespace

Plain(c) == IF c = "wide_I" THEN "I" ELSE c
LowerCase(c) ==
  CASE c = "Q" -> <<"q">> [] c = "I" -> <<"i">> [] c = "I_acute" -> <<"i_acute">>
    [] c = "I_dot" -> <<"i", "dot">> [] OTHER -> <<c>>

\* The marks above the letter, of one combining class: one that is left there
\* keeps the next from the letter.
Above == {"acute", "dot"}
Composes(b, m) == <<b, m>> \in {<<"i", "acute">>, <<"I", "acute">>, <<"I", "dot">>}
Composed(b, m) ==
  IF m = "dot" THEN "I_dot" ELSE IF b = "i" THEN "i_acute" ELSE "I_acute"

\* The marks that stay are not put in order, as pass_one drops them.
Compose(s, c) ==
  LET base == SelectLastInSeq(s, LAMBDA b : b \notin Marks) IN
  IF /\ base # 0 /\ Composes(s[base], c)
     /\ \A n \in base + 1 .. Len(s) : s[n] \notin Above
  THEN [s EXCEPT ![base] = Composed(@, c)]
  ELSE Append(s, c)

\* Full-width letters become plain ones, then a letter takes in a mark that follows
\* it, if the two compose and no other mark is in the way.
nfkc(s) == FoldLeft(LAMBDA t, c : Compose(t, Plain(c)), <<>>, s)

\* s without the characters in S.
Without(s, S) == FoldLeft(LAMBDA t, c : IF c \in S THEN t ELSE Append(t, c), <<>>, s)

to_lowercase(s) == FoldLeft(LAMBDA t, c : t \o LowerCase(c), <<>>, s)

\* Mutant: what to_lowercase writes with marks is left so.
pass_one_OneFilter(s) == to_lowercase(Without(nfkc(s), ZERO_WIDTH \cup Marks))

pass_one(s) == Without(to_lowercase(Without(nfkc(s), ZERO_WIDTH \cup Marks)), Marks)

\* One blank for any run of white space, none at the ends.
Collapse(t, c) ==
  IF c \notin Whitespace THEN Append(t, c)
  ELSE IF t = <<>> \/ (t # <<>> /\ Last(t) = "blank") THEN t
  ELSE Append(t, "blank")

normalize(s) ==
  LET t == FoldLeft(Collapse, <<>>, pass_one(s)) IN
  IF t # <<>> /\ Last(t) = "blank" THEN Front(t) ELSE t
-----------------------------------------------------------------------------
DEFAULT_PHRASE_WEIGHT == 1

\* weights: phrase -> weight, for the phrases whose weight a chat overrides.
weight_for(p, weights) ==
  IF p \in DOMAIN weights THEN weights[p] ELSE DEFAULT_PHRASE_WEIGHT

matches(normalized, phrases) == {p \in phrases : p \in SubSeqs(normalized)}

score_of(normalized, phrases, weights) ==
  MapThenSumSet(LAMBDA p : weight_for(p, weights), matches(normalized, phrases))
-----------------------------------------------------------------------------
(***************************************************************************)
(* What a text looks like, for the properties                              *)
(***************************************************************************)
\* Characters that are written differently and read the same.
Alike == {{"q", "Q"}, {"i", "I", "wide_I"}, {"i_acute", "I_acute"}, Whitespace}

Marked(s) == {n \in DOMAIN s : n + 1 \in DOMAIN s /\ s[n + 1] \in Marks}

\* The texts one step away from s that read the same: another form of one
\* character; I_dot for an i, or an i for it, where no mark follows (i takes an
\* acute in, and I_dot does not); a mark that does not compose anywhere, or
\* something invisible, but not between a letter and its mark (there nfkc no longer
\* composes the two); more white space where there is some, or at an end.
Disguises(s) ==
  (UNION {{ReplaceAt(s, n, c) : c \in UNION {A \in Alike : s[n] \in A}} : n \in DOMAIN s})
  \cup {ReplaceAt(s, n, c) : c \in {"i", "I_dot"},
          n \in {n \in DOMAIN s : s[n] \in {"i", "I_dot"}} \ Marked(s)}
  \cup {InsertAt(s, n, "macron_below") : n \in 1 .. Len(s) + 1}
  \cup {InsertAt(s, n, "zero_width") :
          n \in (1 .. Len(s) + 1) \ {n \in DOMAIN s : s[n] \in Marks}}
  \cup {InsertAt(s, n, c) : c \in Whitespace,
          n \in {1, Len(s) + 1} \cup {n \in DOMAIN s : s[n] \in Whitespace}}
=============================================================================
