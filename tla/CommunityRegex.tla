--------------------------- MODULE CommunityRegex ---------------------------
(***************************************************************************)
(* n2n_regex.c: the regular expressions of the supernode's list of allowed *)
(* communities, and the test with which a REGISTER_SUPER for an unknown    *)
(* community is let in.  Characters are their codes.  A pattern is the     *)
(* sequence of its symbols; the members of a character class are kept as   *)
(* characters in a static buffer, to which compiled classes point.         *)
(***************************************************************************)
EXTENDS Integers, Sequences, SequencesExt

CONSTANTS Patterns,       \* what may stand in a line of the list
          Texts,          \* names of communities
          MaxRules,       \* bound: rules
          MaxObjects,     \* MAX_REGEXP_OBJECTS
          MaxClass        \* MAX_CHAR_CLASS_LEN

Dash == 45
Backslash == 92

VARIABLES lines,          \* the patterns that were read
          rules,          \* sss->rules: the compiled ones
          ccl_buf,        \* static, 0 .. MaxClass - 1
          text, answer    \* the last name that was tested, and how

vars == <<lines, rules, ccl_buf, text, answer>>

-----------------------------------------------------------------------------
(* re_compile                                                              *)

\* the objects of a pattern that is too long are left out: the last
\* place is for the sentinel
Kept(p) == IF Len(p) < MaxObjects THEN p ELSE SubSeq(p, 1, MaxObjects - 1)

\* where the class of the i-th object starts: each is followed by a zero
Start(p, i) == 1 + FoldLeft(LAMBDA n, s : n + Len(s.class) + 1, 0,
                            SelectSeq(SubSeq(p, 1, i - 1), LAMBDA s : s.type \in {"class", "inverse"}))

IsClass(s) == s.type \in {"class", "inverse"}

Fits(p) == \A i \in DOMAIN p : IsClass(p[i]) => Start(p, i) + Len(p[i].class) < MaxClass

Object(type, c, ccl) == [type |-> type, ch |-> c, ccl |-> ccl]
Unused == Object("unused", 0, 0)

\* the compiled pattern, with its sentinel
Compiled(p) == [i \in DOMAIN p |-> Object(p[i].type, p[i].c, IF IsClass(p[i]) THEN Start(p, i) ELSE 0)] \o <<Unused>>

\* the buffer after the classes of p were written to it
Written(p, buf) ==
    [k \in 0 .. MaxClass - 1 |->
        IF \E i \in DOMAIN p : IsClass(p[i]) /\ k \in Start(p, i) .. Start(p, i) + Len(p[i].class)
        THEN LET i == CHOOSE i \in DOMAIN p : IsClass(p[i]) /\ k \in Start(p, i) .. Start(p, i) + Len(p[i].class)
             IN (p[i].class \o <<0>>)[k - Start(p, i) + 1]
        ELSE buf[k]]

-----------------------------------------------------------------------------
(* matchone and below                                                      *)

matchdigit(c) == c \in 48 .. 57
matchalpha(c) == c \in 97 .. 122 \/ c \in 65 .. 90
matchwhitespace(c) == c \in {32, 9, 10, 13, 12, 11}
matchalphanum(c) == c = 95 \/ matchalpha(c) \/ matchdigit(c)
matchdot(c) == c \notin {10, 13}

\* the characters of the escapes d, D, w, W, s, S
ismetachar(c) == c \in {100, 68, 119, 87, 115, 83}

matchmetachar(c, m) ==
    CASE m = 100 -> matchdigit(c)
      [] m = 68  -> ~matchdigit(c)
      [] m = 119 -> matchalphanum(c)
      [] m = 87  -> ~matchalphanum(c)
      [] m = 115 -> matchwhitespace(c)
      [] m = 83  -> ~matchwhitespace(c)
      [] OTHER   -> c = m

At(k) == IF k < MaxClass THEN ccl_buf[k] ELSE 0

matchrange(c, k) ==
    /\ c # Dash /\ At(k) # 0 /\ At(k) # Dash
    /\ At(k + 1) = Dash /\ At(k + 2) # 0 /\ c >= At(k) /\ c <= At(k + 2)

RECURSIVE matchcharclass(_, _)
matchcharclass(c, k) ==
    IF matchrange(c, k) THEN TRUE
    ELSE IF At(k) = Backslash
    THEN \/ matchmetachar(c, At(k + 1))
         \/ c = At(k + 1) /\ ~ismetachar(c)
         \/ At(k + 1) # 0 /\ matchcharclass(c, k + 2)
    ELSE IF c = At(k) THEN c = Dash => At(k - 1) = 0 \/ At(k + 1) = 0
    ELSE At(k) # 0 /\ matchcharclass(c, k + 1)

matchone(o, c) ==
    CASE o.type = "dot"         -> matchdot(c)
      [] o.type = "class"       -> matchcharclass(c, o.ccl)
      [] o.type = "inverse"     -> ~matchcharclass(c, o.ccl)
      [] o.type = "digit"       -> matchdigit(c)
      [] o.type = "notdigit"    -> ~matchdigit(c)
      [] o.type = "alpha"       -> matchalphanum(c)
      [] o.type = "notalpha"    -> ~matchalphanum(c)
      [] o.type = "white"       -> matchwhitespace(c)
      [] o.type = "notwhite"    -> ~matchwhitespace(c)
      [] OTHER                  -> o.ch = c

-----------------------------------------------------------------------------
(* matchpattern: objects from p on, characters of s from t on; the result  *)
(* has the length, which every function adds to and not every one puts     *)
(* back when it fails.                                                     *)

Result(ok, n) == [ok |-> ok, n |-> n]

\* how far the characters from t on are matched by o
RECURSIVE Run(_, _, _)
Run(o, s, t) == IF t <= Len(s) /\ matchone(o, s[t]) THEN Run(o, s, t + 1) ELSE t

RECURSIVE matchpattern(_, _, _, _, _)

\* the second loops of matchstar and matchplus: from t back to low
RECURSIVE Back(_, _, _, _, _, _)
Back(re, p, s, t, low, n) ==
    IF t < low THEN Result(FALSE, n)
    ELSE LET r == matchpattern(re, p, s, t, n)
         IN IF r.ok THEN r ELSE Back(re, p, s, t - 1, low, r.n - 1)

matchstar(o, re, p, s, t, n) ==
    LET e == Run(o, s, t)
        r == Back(re, p, s, e, t, n + (e - t))
    IN IF r.ok THEN r ELSE Result(FALSE, n)

\* the wrong version that does not give characters back
matchplusGreedy(o, re, p, s, t, n) ==
    LET e == Run(o, s, t) IN IF e = t THEN Result(FALSE, n) ELSE matchpattern(re, p, s, e, n + (e - t))

matchplus(o, re, p, s, t, n) ==
    LET e == Run(o, s, t) IN Back(re, p, s, e, t + 1, n + (e - t))

matchquestion(o, re, p, s, t, n) ==
    IF o.type = "unused" THEN Result(TRUE, n)
    ELSE LET r == matchpattern(re, p, s, t, n)
         IN IF r.ok THEN r
            ELSE IF t <= Len(s) /\ matchone(o, s[t])
            THEN LET q == matchpattern(re, p, s, t + 1, r.n) IN IF q.ok THEN Result(TRUE, q.n + 1) ELSE q
            ELSE Result(FALSE, r.n)

\* the loop of matchpattern, with the length that it had when it started
RECURSIVE Loop(_, _, _, _, _, _)
Loop(re, p, s, t, n, pre) ==
    LET o == re[p]
        q == IF p < Len(re) THEN re[p + 1].type ELSE "unused"
    IN IF o.type = "unused" \/ q = "question" THEN matchquestion(o, re, p + 2, s, t, n)
       ELSE IF q = "star" THEN matchstar(o, re, p + 2, s, t, n)
       ELSE IF q = "plus" THEN matchplus(o, re, p + 2, s, t, n)
       ELSE IF t <= Len(s) /\ matchone(o, s[t]) THEN Loop(re, p + 1, s, t + 1, n + 1, pre)
       ELSE Result(FALSE, pre)

matchpattern(re, p, s, t, n) == Loop(re, p, s, t, n, n)

\* re_matchp: the first place, from 0, where the pattern is found, and the length
RECURSIVE From(_, _, _, _)
From(re, s, t, n) ==
    LET r == matchpattern(re, 1, s, t, n)
    IN IF r.ok THEN [at |-> IF t > Len(s) THEN -1 ELSE t - 1, n |-> r.n]
       ELSE IF t > Len(s) THEN [at |-> -1, n |-> r.n]
       ELSE From(re, s, t + 1, r.n)

re_matchp(re, s) == IF re = <<>> THEN [at |-> -1, n |-> 0] ELSE From(re, s, 1, 0)

-----------------------------------------------------------------------------
None == [at |-> -2, n |-> 0, allowed |-> FALSE]

Init ==
    /\ lines = <<>> /\ rules = <<>> /\ ccl_buf = [k \in 0 .. MaxClass - 1 |-> 0]
    /\ text = <<>> /\ answer = None

\* re_compile of a line of the list: 0 when the classes do not fit the buffer,
\* of which then only the last class is incomplete
Compile(p) ==
    /\ Len(lines) < MaxRules /\ answer = None
    /\ lines' = Append(lines, p)
    /\ rules' = Append(rules, IF Fits(Kept(p)) THEN Compiled(Kept(p)) ELSE <<>>)
    /\ ccl_buf' = Written(Kept(p), ccl_buf)
    /\ UNCHANGED <<text, answer>>

\* the condition on a rule in the handlers of REGISTER_SUPER and QUERY_PEER
Allowed(r, s) == re_matchp(r, s).at = 0 /\ re_matchp(r, s).n = Len(s)

\* a name is tested against the rules
Ask(s) ==
    /\ lines # <<>> /\ answer = None
    /\ text' = s
    /\ answer' = [at |-> re_matchp(Last(rules), s).at, n |-> re_matchp(Last(rules), s).n,
                  allowed |-> \E i \in DOMAIN rules : Allowed(rules[i], s)]
    /\ UNCHANGED <<lines, rules, ccl_buf>>

Next == (\E p \in Patterns : Compile(p)) \/ (\E s \in Texts : Ask(s))

Spec == Init /\ [][Next]_vars

-----------------------------------------------------------------------------
(* What is checked.                                                        *)

TypeOK ==
    /\ Len(rules) = Len(lines)
    /\ \A i \in DOMAIN rules : rules[i] # <<>> => Len(rules[i]) <= MaxObjects /\ Last(rules[i]) = Unused
    /\ \A k \in DOMAIN ccl_buf : ccl_buf[k] \in 0 .. 127

Quantifiers == {"star", "plus", "question"}

\* the members of a class: single characters and ranges
Members(s) ==
    {s[i] : i \in {i \in DOMAIN s : s[i] # Dash}}
        \cup UNION {s[i] .. s[i + 2] : i \in {i \in DOMAIN s : i + 2 <= Len(s) /\ s[i + 1] = Dash}}

Accepts(y, c) ==
    CASE y.type = "char" -> c = y.c
      [] y.type = "class" -> c \in Members(y.class)
      [] y.type = "inverse" -> c \notin Members(y.class)
      [] y.type = "digit" -> c \in 48 .. 57
      [] y.type = "dot" -> TRUE
      [] OTHER -> FALSE

\* s is in the language of the pattern p
RECURSIVE InLanguage(_, _)
InLanguage(p, s) ==
    IF p = <<>> THEN s = <<>>
    ELSE LET q == IF Len(p) > 1 THEN p[2].type ELSE "none"
             rest == IF q \in Quantifiers THEN SubSeq(p, 3, Len(p)) ELSE Tail(p)
             one(s1) == s1 # <<>> /\ Accepts(p[1], s1[1])
         IN CASE q = "star" -> InLanguage(rest, s) \/ (one(s) /\ InLanguage(p, Tail(s)))
              [] q = "plus" -> one(s) /\ (InLanguage(rest, Tail(s)) \/ InLanguage(p, Tail(s)))
              [] q = "question" -> InLanguage(rest, s) \/ (one(s) /\ InLanguage(rest, Tail(s)))
              [] OTHER -> one(s) /\ InLanguage(rest, Tail(s))

\* the first place where some part of the text is in the language
FoundAt(p, s) ==
    LET places == {t \in 1 .. Len(s) : \E e \in t - 1 .. Len(s) : InLanguage(p, SubSeq(s, t, e))}
    IN IF places = {} THEN -1 ELSE (CHOOSE t \in places : \A u \in places : t <= u) - 1

\* re_matchp finds the pattern in the name exactly where it first is, with all of
\* its repetitions and the backtracking that they need.
FoundFirst == answer # None => answer.at = FoundAt(Last(lines), text)

\* With at most one repetition in it, a line lets in exactly the names that match it
\* from end to end, as the list of communities and the comment at the test in
\* REGISTER_SUPER ("only full matches allowed") have it.
SimpleExact ==
    answer # None =>
        LET y == Last(lines)
        IN Len(SelectSeq(y, LAMBDA z : z.type \in Quantifiers)) <= 1 /\ (\A i \in DOMAIN y : y[i].type # "question")
           => (answer.allowed <=> InLanguage(y, text))

=============================================================================
