---------------------------- MODULE RepositoryKey ----------------------------
(***************************************************************************)
(* The identity of a repository, pkg/repository/key.go: namespace, type    *)
(* and repository in HTTP, and the two coordinates org and repo that SQL   *)
(* and RPC have kept since there was one namespace.  The namespace is      *)
(* encoded in the org.                                                     *)
(*                                                                         *)
(* A path is the sequence of its segments, the strings between slashes;    *)
(* the empty string is the empty sequence.  The module is not run: its     *)
(* theorems say what TLC would check for a few paths.                      *)
(***************************************************************************)
EXTENDS Naturals, Sequences, SequenceTheorems, TLAPS

CONSTANTS Segments,     \* strings without a slash that ValidatePath accepts in a path
          Short,        \* namespaces with repositories that are short enough for a key
          ShortSql,     \* orgs with repos that fit VARCHAR(100), each and joined
          Characters,   \* of escaped texts
          PathEscape,   \* net/url: functions from paths to their escaped texts
          QueryEscape

RepoTypes  == {"models", "datasets", "spaces"}
Operations == {"metadata", "snapshot", "file", "files", "tree", "archive"}
Local      == "dingo-local"
HF         == <<"huggingface">>
ModelScope == <<"modelscope">>

Key(namespace, type, repo) == [namespace |-> namespace, type |-> type, repo |-> repo]

\* The namespaces are one segment, revisions and etags too; repositories and files are paths.
ValidatePath(path, multiple) ==
  /\ path \in Seq(Segments) /\ path # <<>>
  /\ multiple \/ Len(path) = 1

Validate(k) ==
  /\ k.type \in RepoTypes
  /\ ValidatePath(k.namespace, FALSE) /\ ValidatePath(k.repo, TRUE)
  /\ <<k.namespace, k.repo>> \in Short

\* strings.HasPrefix(org, prefix + "/")
HasPrefix(org, prefix) == Len(org) >= 2 /\ org[1] = prefix

FromWire(type, org, repo) ==
  IF HasPrefix(org, Local) THEN Key(Tail(org), type, repo)
  ELSE IF HasPrefix(org, "modelscope") THEN Key(ModelScope, type, Tail(org) \o repo)
  ELSE Key(HF, type, org \o repo)

\* The coordinates of a key; the prefix of the org tells the namespaces apart.
Storage(k) ==
  IF k.namespace = HF
  THEN IF Len(k.repo) >= 2 THEN [org |-> <<Head(k.repo)>>, repo |-> Tail(k.repo)]
                           ELSE [org |-> <<>>, repo |-> k.repo]
  ELSE IF k.namespace = ModelScope THEN [org |-> <<"modelscope", Head(k.repo)>>, repo |-> Tail(k.repo)]
  ELSE [org |-> <<Local, Head(k.namespace)>>, repo |-> k.repo]

\* Storage returns no error.
Storable(k) ==
  /\ Validate(k)
  /\ k.namespace = ModelScope => Len(k.repo) >= 2
  /\ k.namespace # HF => <<Storage(k).org, Storage(k).repo>> \in ShortSql

DefaultRevision(k) == IF k.namespace = ModelScope THEN "master" ELSE "main"

\* "" stands for an absent revision.
Revision(k, revision) == IF revision = "" THEN DefaultRevision(k) ELSE revision

\* url.Values.Encode: the parameters in the order of their names; that of the path only if there
\* is one.
Encode(repo, revision, path) ==
  LET rest == <<"repo", "=">> \o (QueryEscape[repo] \o
                (<<"&">> \o (<<"revision", "=">> \o QueryEscape[<<revision>>])))
  IN  IF path = <<>> THEN rest
      ELSE <<"path", "=">> \o (QueryEscape[path] \o (<<"&">> \o rest))

\* A path and query of DingoSpeed's own API as one text: the words that are always or only among
\* a few the same stand for their characters, none of which is a separator.
OperationURI(k, operation, revision, path) ==
  <<"/", "api", "/", "repositories", "/", k.type, "/">> \o (PathEscape[k.namespace] \o
    (<<"/">> \o (<<operation, "?">> \o Encode(k.repo, Revision(k, revision), path))))

\* OperationURI returns no error.
OperationAllowed(k, operation, revision, path) ==
  /\ Validate(k)
  /\ operation \in Operations
  /\ ValidatePath(<<Revision(k, revision)>>, FALSE)
  /\ path = <<>> \/ ValidatePath(path, TRUE)
-----------------------------------------------------------------------------
\* A path is its first segment followed by the rest.
LEMMA HeadAndTail ==
  ASSUME NEW S, NEW s \in Seq(S), s # <<>>
  PROVE  <<Head(s)>> \o Tail(s) = s
<1> DEFINE t == <<Head(s)>> \o Tail(s)
<1>1. /\ Head(s) \in S /\ Tail(s) \in Seq(S) /\ Len(Tail(s)) = Len(s) - 1
      /\ \A i \in 1..Len(Tail(s)) : Tail(s)[i] = s[i + 1]
  BY HeadTailProperties
<1>2. <<Head(s)>> \in Seq(S) /\ Len(<<Head(s)>>) = 1 /\ <<Head(s)>>[1] = Head(s)
  BY <1>1
<1>3. /\ t \in Seq(S) /\ Len(t) = 1 + Len(Tail(s))
      /\ \A i \in 1..(1 + Len(Tail(s))) : t[i] = IF i <= 1 THEN <<Head(s)>>[i] ELSE Tail(s)[i - 1]
  BY <1>1, <1>2, ConcatProperties
<1>4. Len(s) \in Nat /\ Len(s) > 0 /\ Head(s) = s[1]
  BY EmptySeq, LenProperties
<1>5. Len(t) = Len(s)
  BY <1>1, <1>3, <1>4
<1>6. ASSUME NEW i \in 1..Len(s) PROVE t[i] = s[i]
  <2>1. CASE i = 1
    BY <2>1, <1>1, <1>2, <1>3, <1>4
  <2>2. CASE i # 1
    <3>1. i - 1 \in 1..Len(Tail(s)) /\ ~(i <= 1)
      BY <2>2, <1>1, <1>4
    <3>2. t[i] = Tail(s)[i - 1] /\ Tail(s)[i - 1] = s[(i - 1) + 1]
      BY <3>1, <1>1, <1>3, <1>4
    <3> QED BY <3>2, <1>4
  <2> QED BY <2>1, <2>2
<1> QED BY <1>3, <1>5, <1>6, SeqEqual

\* A repository that was stored is read back as the same key, in whatever namespace it is and
\* however many segments it has: no owner of a Hugging Face repository is taken for the
\* prefix of another namespace.
THEOREM RoundTrip ==
  ASSUME NEW k, k = Key(k.namespace, k.type, k.repo), Storable(k)
  PROVE  FromWire(k.type, Storage(k).org, Storage(k).repo) = k
<1>1. /\ k.namespace \in Seq(Segments) /\ Len(k.namespace) = 1
      /\ k.repo \in Seq(Segments) /\ k.repo # <<>>
  BY DEF Storable, Validate, ValidatePath
<1>2. <<Head(k.repo)>> \o Tail(k.repo) = k.repo
  BY <1>1, HeadAndTail
<1>3. CASE k.namespace = HF /\ Len(k.repo) >= 2
  <2>1. Storage(k).org = <<Head(k.repo)>> /\ Storage(k).repo = Tail(k.repo)
    BY <1>3 DEF Storage
  <2>2. ~HasPrefix(<<Head(k.repo)>>, Local) /\ ~HasPrefix(<<Head(k.repo)>>, "modelscope")
    BY DEF HasPrefix
  <2> QED BY <2>1, <2>2, <1>2, <1>3 DEF FromWire
<1>4. CASE k.namespace = HF /\ ~(Len(k.repo) >= 2)
  <2>1. Storage(k).org = <<>> /\ Storage(k).repo = k.repo
    BY <1>4 DEF Storage
  <2>2. ~HasPrefix(<<>>, Local) /\ ~HasPrefix(<<>>, "modelscope")
    BY DEF HasPrefix
  <2>3. <<>> \o k.repo = k.repo
    BY <1>1, ConcatEmptySeq
  <2> QED BY <2>1, <2>2, <2>3, <1>4 DEF FromWire
<1>5. CASE k.namespace = ModelScope
  <2>1. Storage(k).org = <<"modelscope", Head(k.repo)>> /\ Storage(k).repo = Tail(k.repo)
    BY <1>5 DEF Storage, HF, ModelScope
  <2>2. HasPrefix(<<"modelscope", Head(k.repo)>>, "modelscope")
        /\ ~HasPrefix(<<"modelscope", Head(k.repo)>>, Local)
    BY DEF HasPrefix, Local
  <2>3. Tail(<<"modelscope", Head(k.repo)>>) = <<Head(k.repo)>>
    OBVIOUS
  <2> QED BY <2>1, <2>2, <2>3, <1>2, <1>5 DEF FromWire
<1>6. CASE k.namespace # HF /\ k.namespace # ModelScope
  <2>1. Storage(k).org = <<Local, Head(k.namespace)>> /\ Storage(k).repo = k.repo
    BY <1>6 DEF Storage
  <2>2. HasPrefix(<<Local, Head(k.namespace)>>, Local)
        /\ Tail(<<Local, Head(k.namespace)>>) = <<Head(k.namespace)>>
    BY DEF HasPrefix
  <2>3. k.namespace = <<Head(k.namespace)>>
    <3>1. Head(k.namespace) \in Segments /\ Head(k.namespace) = k.namespace[1]
      BY <1>1, ElementOfSeq
    <3>2. /\ <<Head(k.namespace)>> \in Seq(Segments) /\ Len(<<Head(k.namespace)>>) = 1
          /\ <<Head(k.namespace)>>[1] = k.namespace[1]
      BY <3>1
    <3> QED BY <1>1, <3>2, SeqEqual
  <2> QED BY <2>1, <2>2, <2>3 DEF FromWire
<1> QED BY <1>3, <1>4, <1>5, <1>6

\* Two repositories are never stored under the same type and coordinates.
COROLLARY StorageInjective ==
  ASSUME NEW k, k = Key(k.namespace, k.type, k.repo), Storable(k),
         NEW l, l = Key(l.namespace, l.type, l.repo), Storable(l),
         k.type = l.type, Storage(k) = Storage(l)
  PROVE  k = l
BY RoundTrip

\* No character of the text is c.
Without(s, c) == \A i \in 1..Len(s) : s[i] # c

\* What a text is written with: words that are not escaped, separators and characters.
Symbols ==
  {"/", "?", "=", "&", "api", "repositories", "path", "repo", "revision"}
    \cup RepoTypes \cup Operations \cup Characters

\* What Go's escaping is relied on for: texts differ when the paths do; that of a path segment
\* has no slash, though it may have any of &, = and +; and that of a parameter has no &.
Escaping ==
  /\ \A s \in Seq(Segments) : PathEscape[s] \in Seq(Symbols) /\ QueryEscape[s] \in Seq(Symbols)
  /\ \A s \in Seq(Segments) : Without(PathEscape[s], "/") /\ Without(QueryEscape[s], "&")
  /\ \A s, t \in Seq(Segments) : PathEscape[s] = PathEscape[t] => s = t
  /\ \A s, t \in Seq(Segments) : QueryEscape[s] = QueryEscape[t] => s = t

\* The words and separators of a URI are symbols.
LEMMA Written ==
  /\ "/" \in Symbols /\ "?" \in Symbols /\ "=" \in Symbols /\ "&" \in Symbols
  /\ "api" \in Symbols /\ "repositories" \in Symbols
  /\ "path" \in Symbols /\ "repo" \in Symbols /\ "revision" \in Symbols
  /\ RepoTypes \subseteq Symbols /\ Operations \subseteq Symbols
BY DEF Symbols

\* Texts that begin with one symbol or two.
LEMMA Pieces ==
  ASSUME NEW S, NEW x \in S, NEW y \in S, NEW t \in Seq(S)
  PROVE  /\ <<x>> \in Seq(S) /\ <<x>> \o t \in Seq(S)
         /\ <<x, y>> \in Seq(S) /\ Len(<<x, y>>) = 2
         /\ <<x, y>> \o t \in Seq(S) /\ (<<x, y>> \o t)[1] = x
<1>1. <<x>> \in Seq(S) /\ <<x>> \o t \in Seq(S)
  OBVIOUS
<1>2. <<x, y>> \in Seq(S) /\ Len(<<x, y>>) = 2 /\ <<x, y>>[1] = x
  OBVIOUS
<1> DEFINE xy == <<x, y>>
<1>3. xy \in Seq(S) /\ Len(xy) = 2 /\ xy[1] = x
  BY <1>2
<1>4. xy \o t \in Seq(S) /\ (xy \o t)[1] = x
  <2> HIDE DEF xy
  <2>1. /\ xy \o t \in Seq(S) /\ Len(t) \in Nat
        /\ \A i \in 1..Len(xy) + Len(t) : (xy \o t)[i] = IF i <= Len(xy) THEN xy[i] ELSE t[i - Len(xy)]
    BY <1>3, ConcatProperties, LenProperties
  <2>2. 1 \in 1..Len(xy) + Len(t) /\ 1 <= Len(xy)
    BY <1>3, <2>1
  <2> QED BY <1>3, <2>1, <2>2
<1> QED BY <1>1, <1>2, <1>4

\* Texts are the same when they begin with as much and go on with the same.
LEMMA SamePrefix ==
  ASSUME NEW S, NEW a \in Seq(S), NEW b \in Seq(S), NEW c \in Seq(S), NEW d \in Seq(S)
  PROVE  Len(a) = Len(c) /\ a \o b = c \o d => a = c /\ b = d
<1>1. Len(a) \in Nat /\ Len(b) \in Nat /\ Len(c) \in Nat /\ Len(d) \in Nat
  OBVIOUS
<1>2. /\ Len(a \o b) = Len(a) + Len(b)
      /\ \A i \in 1..Len(a) : (a \o b)[i] = a[i]
      /\ \A i \in 1..Len(b) : (a \o b)[Len(a) + i] = b[i]
  OBVIOUS
<1>3. /\ Len(c \o d) = Len(c) + Len(d)
      /\ \A i \in 1..Len(c) : (c \o d)[i] = c[i]
      /\ \A i \in 1..Len(d) : (c \o d)[Len(c) + i] = d[i]
  OBVIOUS
<1>4. SUFFICES ASSUME Len(a) = Len(c), a \o b = c \o d PROVE a = c /\ b = d
  OBVIOUS
<1> DEFINE ab == a \o b
           cd == c \o d
<1>5. ab = cd
  BY <1>4
<1> HIDE DEF ab, cd
<1>6. Len(b) = Len(d)
  BY <1>1, <1>2, <1>3, <1>4, <1>5 DEF ab, cd
<1>7. a = c
  <2>1. \A i \in 1..Len(a) : ab[i] = a[i]
    BY <1>2 DEF ab
  <2>2. \A i \in 1..Len(c) : cd[i] = c[i]
    BY <1>3 DEF cd
  <2>3. Len(a) = Len(c) /\ \A i \in 1..Len(a) : a[i] = c[i]
    BY <1>4, <1>5, <2>1, <2>2
  <2> QED BY <2>3, SeqEqual
<1>8. b = d
  <2>1. \A i \in 1..Len(b) : ab[Len(a) + i] = b[i]
    BY <1>2 DEF ab
  <2>2. \A i \in 1..Len(d) : cd[Len(c) + i] = d[i]
    BY <1>3 DEF cd
  <2>3. \A i \in 1..Len(b) : b[i] = d[i]
    <3>1. Len(a) = Len(c)
      BY <1>4
    <3> QED BY <3>1, <1>5, <1>6, <2>1, <2>2
  <2> QED BY <1>6, <2>3, SeqEqual
<1> QED BY <1>7, <1>8

\* A separator that the first parts do not have ends both at the same place.
LEMMA SameParts ==
  ASSUME NEW S, NEW x \in S,
         NEW a \in Seq(S), NEW b \in Seq(S), NEW c \in Seq(S), NEW d \in Seq(S),
         Without(a, x), Without(c, x)
  PROVE  a \o (<<x>> \o b) = c \o (<<x>> \o d) => a = c /\ b = d
<1>1. ASSUME NEW t \in Seq(S)
      PROVE  <<x>> \in Seq(S) /\ <<x>> \o t \in Seq(S) /\ (<<x>> \o t)[1] = x /\ Len(<<x>> \o t) = 1 + Len(t)
  OBVIOUS
<1>2. ASSUME NEW s \in Seq(S), NEW t \in Seq(S)
      PROVE  /\ Len(s) \in Nat /\ Len(s \o t) = Len(s) + Len(t)
             /\ \A i \in 1..Len(s) : (s \o t)[i] = s[i]
             /\ Len(t) > 0 => (s \o t)[Len(s) + 1] = t[1]
  OBVIOUS
\* In the longer of two first parts the separator of the other would be.
<1>3. ASSUME NEW s \in Seq(S), NEW t \in Seq(S), NEW u \in Seq(S), NEW v \in Seq(S),
             Without(u, x), Len(s) < Len(u)
      PROVE  s \o (<<x>> \o t) # u \o (<<x>> \o v)
  <2> DEFINE xt == <<x>> \o t
             xv == <<x>> \o v
  <2>1. xt \in Seq(S) /\ xv \in Seq(S) /\ xt[1] = x /\ Len(xt) > 0
    <3>1. Len(t) \in Nat
      BY <1>2
    <3> QED BY <1>1, <3>1
  <2> HIDE DEF xt, xv
  <2>2. (s \o xt)[Len(s) + 1] = x
    BY <1>2, <2>1
  <2>3. Len(s) + 1 \in 1..Len(u)
    BY <1>2, <1>3
  <2>4. (u \o xv)[Len(s) + 1] = u[Len(s) + 1] /\ u[Len(s) + 1] # x
    BY <1>2, <1>3, <2>1, <2>3 DEF Without
  <2> QED BY <2>2, <2>4 DEF xt, xv
<1>4. SUFFICES ASSUME a \o (<<x>> \o b) = c \o (<<x>> \o d) PROVE a = c /\ b = d
  OBVIOUS
<1>5. Len(a) = Len(c)
  <2>1. Len(a) \in Nat /\ Len(c) \in Nat
    BY <1>2
  <2>2. ~(Len(a) < Len(c)) /\ ~(Len(c) < Len(a))
    BY <1>3, <1>4
  <2> QED BY <2>1, <2>2
<1>6. a = c /\ <<x>> \o b = <<x>> \o d
  <2>1. <<x>> \o b \in Seq(S) /\ <<x>> \o d \in Seq(S)
    BY <1>1
  <2> QED BY <1>4, <1>5, <2>1, SamePrefix
<1>7. b = d
  <2>1. <<x>> \in Seq(S)
    BY <1>1
  <2> QED BY <1>6, <2>1, SamePrefix
<1> QED BY <1>6, <1>7

\* A query has its parameters back.
LEMMA QueriesDiffer ==
  ASSUME Escaping, NEW x \in Seq(Segments), NEW y \in Seq(Segments),
         NEW r \in Segments, NEW s \in Segments,
         NEW u \in Seq(Segments), NEW v \in Seq(Segments)
  PROVE  /\ Encode(x, r, u) \in Seq(Symbols)
         /\ Encode(x, r, u) = Encode(y, s, v) => x = y /\ r = s /\ u = v
<1> DEFINE end(t)     == <<"revision", "=">> \o QueryEscape[<<t>>]
           more(q, t) == QueryEscape[q] \o (<<"&">> \o end(t))
           last(q, t) == <<"repo", "=">> \o more(q, t)
           all(q, t, p) == QueryEscape[p] \o (<<"&">> \o last(q, t))
<1>1. ASSUME NEW q \in Seq(Segments)
      PROVE  QueryEscape[q] \in Seq(Symbols) /\ Without(QueryEscape[q], "&")
  BY DEF Escaping
<1>2. ASSUME NEW t \in Segments
      PROVE  <<t>> \in Seq(Segments) /\ QueryEscape[<<t>>] \in Seq(Symbols) /\ end(t) \in Seq(Symbols)
  <2>1. <<t>> \in Seq(Segments)
    OBVIOUS
  <2>2. QueryEscape[<<t>>] \in Seq(Symbols)
    BY <1>1, <2>1
  <2>3. end(t) \in Seq(Symbols)
    BY <2>2, Pieces, Written
  <2> QED BY <2>1, <2>2, <2>3
<1>3. ASSUME NEW q \in Seq(Segments), NEW z \in Seq(Symbols)
      PROVE  QueryEscape[q] \o (<<"&">> \o z) \in Seq(Symbols)
  <2>1. <<"&">> \o z \in Seq(Symbols)
    BY Pieces, Written
  <2> QED BY <1>1, <2>1, ConcatProperties
<1>4. ASSUME NEW q \in Seq(Segments), NEW t \in Segments
      PROVE  more(q, t) \in Seq(Symbols) /\ last(q, t) \in Seq(Symbols) /\ last(q, t)[1] = "repo"
  <2> HIDE DEF end
  <2>1. more(q, t) \in Seq(Symbols)
    BY <1>2, <1>3
  <2> HIDE DEF more
  <2> QED BY <2>1, Pieces, Written
<1>5. ASSUME NEW q \in Seq(Segments), NEW t \in Segments, NEW p \in Seq(Segments)
      PROVE  /\ all(q, t, p) \in Seq(Symbols) /\ <<"path", "=">> \o all(q, t, p) \in Seq(Symbols)
             /\ (<<"path", "=">> \o all(q, t, p))[1] = "path"
  <2> HIDE DEF last
  <2>1. all(q, t, p) \in Seq(Symbols)
    BY <1>3, <1>4
  <2> HIDE DEF all
  <2> QED BY <2>1, Pieces, Written
<1>6. ASSUME NEW q, NEW t, NEW p
      PROVE  Encode(q, t, p) = IF p = <<>> THEN last(q, t) ELSE <<"path", "=">> \o all(q, t, p)
  BY DEF Encode
\* After the same two symbols there is the same.
<1>7. ASSUME NEW a \in Symbols, NEW b \in Symbols, NEW z \in Seq(Symbols), NEW w \in Seq(Symbols),
             <<a, b>> \o z = <<a, b>> \o w
      PROVE  z = w
  <2>1. <<a, b>> \in Seq(Symbols)
    BY Pieces
  <2> QED BY <1>7, <2>1, SamePrefix, Zenon
\* An escaped text ends at the separator.
<1>8. ASSUME NEW q \in Seq(Segments), NEW p \in Seq(Segments),
             NEW z \in Seq(Symbols), NEW w \in Seq(Symbols),
             QueryEscape[q] \o (<<"&">> \o z) = QueryEscape[p] \o (<<"&">> \o w)
      PROVE  q = p /\ z = w
  <2>1. QueryEscape[q] = QueryEscape[p] /\ z = w
    BY <1>1, <1>8, SameParts, Written, Zenon
  <2> QED BY <2>1 DEF Escaping
<1>9. ASSUME last(x, r) = last(y, s) PROVE x = y /\ r = s
  <2> HIDE DEF end
  <2>1. more(x, r) = more(y, s)
    <3> HIDE DEF more
    <3> QED BY <1>4, <1>7, <1>9, Written
  <2>2. /\ end(r) \in Seq(Symbols) /\ end(s) \in Seq(Symbols)
        /\ QueryEscape[x] \o (<<"&">> \o end(r)) = QueryEscape[y] \o (<<"&">> \o end(s))
    BY <1>2, <2>1
  <2>3. x = y /\ end(r) = end(s)
    BY <1>8, <2>2
  <2>4. QueryEscape[<<r>>] = QueryEscape[<<s>>]
    BY <1>2, <1>7, <2>3, Written, Zenon DEF end
  <2>5. <<r>> = <<s>>
    BY <1>2, <2>4 DEF Escaping
  <2> QED BY <2>3, <2>5
<1> HIDE DEF last, all
<1>10. Encode(x, r, u) \in Seq(Symbols)
  BY <1>4, <1>5, <1>6
<1>11. SUFFICES ASSUME Encode(x, r, u) = Encode(y, s, v) PROVE x = y /\ r = s /\ u = v
  BY <1>10
<1>12. (u = <<>>) <=> (v = <<>>)
  BY <1>4, <1>5, <1>6, <1>11
<1>13. CASE u = <<>>
  <2>1. last(x, r) = last(y, s) /\ v = <<>>
    BY <1>6, <1>11, <1>12, <1>13, Zenon
  <2> QED BY <1>9, <1>13, <2>1
<1>14. CASE u # <<>>
  <2>1. <<"path", "=">> \o all(x, r, u) = <<"path", "=">> \o all(y, s, v)
    BY <1>6, <1>11, <1>12, <1>14, Zenon
  <2>2. all(x, r, u) = all(y, s, v)
    BY <1>5, <1>7, <2>1, Written, Zenon
  <2>3. /\ last(x, r) \in Seq(Symbols) /\ last(y, s) \in Seq(Symbols)
        /\ QueryEscape[u] \o (<<"&">> \o last(x, r)) = QueryEscape[v] \o (<<"&">> \o last(y, s))
    BY <1>4, <2>2 DEF all
  <2>4. u = v /\ last(x, r) = last(y, s)
    <3> DEFINE a == last(x, r)
               b == last(y, s)
    <3>1. /\ a \in Seq(Symbols) /\ b \in Seq(Symbols)
          /\ QueryEscape[u] \o (<<"&">> \o a) = QueryEscape[v] \o (<<"&">> \o b)
      BY <2>3
    <3> HIDE DEF a, b
    <3>2. Without(QueryEscape[u], "&") /\ Without(QueryEscape[v], "&")
          /\ QueryEscape[u] \in Seq(Symbols) /\ QueryEscape[v] \in Seq(Symbols)
      BY <1>1
    <3>3. QueryEscape[u] = QueryEscape[v] /\ a = b
      BY <3>1, <3>2, SameParts, Written, Zenon
    <3>4. u = v
      BY <3>3 DEF Escaping
    <3> QED BY <3>3, <3>4 DEF a, b
  <2> QED BY <1>9, <2>4
<1> QED BY <1>13, <1>14

\* Two requests to DingoSpeed that OperationURI allows and that are about different repositories,
\* operations, revisions or paths have different URIs: nothing in a namespace, a name or a path
\* moves a boundary between them.
THEOREM RequestsDiffer ==
  ASSUME Escaping,
         NEW k, k = Key(k.namespace, k.type, k.repo), NEW l, l = Key(l.namespace, l.type, l.repo),
         NEW o, NEW p, NEW r, NEW s, NEW u, NEW v,
         OperationAllowed(k, o, r, u), OperationAllowed(l, p, s, v)
  PROVE  OperationURI(k, o, r, u) = OperationURI(l, p, s, v) =>
           k = l /\ o = p /\ Revision(k, r) = Revision(l, s) /\ u = v
<1> DEFINE qk == Encode(k.repo, Revision(k, r), u)
           ql == Encode(l.repo, Revision(l, s), v)
           nk == PathEscape[k.namespace]
           nl == PathEscape[l.namespace]
           ok == <<o, "?">> \o qk
           pl == <<p, "?">> \o ql
<1>1. /\ k.namespace \in Seq(Segments) /\ l.namespace \in Seq(Segments)
      /\ k.repo \in Seq(Segments) /\ l.repo \in Seq(Segments)
      /\ u \in Seq(Segments) /\ v \in Seq(Segments)
  <2>1. <<>> \in Seq(Segments)
    OBVIOUS
  <2> QED BY <2>1 DEF OperationAllowed, Validate, ValidatePath
<1>2. k.type \in Symbols /\ l.type \in Symbols /\ o \in Symbols /\ p \in Symbols
  BY Written DEF OperationAllowed, Validate
<1>3. Revision(k, r) \in Segments /\ Revision(l, s) \in Segments
  <2>1. ASSUME NEW t, <<t>> \in Seq(Segments) PROVE t \in Segments
    BY <2>1
  <2> QED BY <2>1 DEF OperationAllowed, ValidatePath
<1>4. qk \in Seq(Symbols) /\ ql \in Seq(Symbols)
  BY <1>1, <1>3, QueriesDiffer, Zenon
<1>5. nk \in Seq(Symbols) /\ nl \in Seq(Symbols) /\ Without(nk, "/") /\ Without(nl, "/")
  BY <1>1 DEF Escaping
<1> HIDE DEF qk, ql, nk, nl
<1>6. ok \in Seq(Symbols) /\ pl \in Seq(Symbols)
  BY <1>2, <1>4, Pieces, Written
<1> HIDE DEF ok, pl
<1>7. nk \o (<<"/">> \o ok) \in Seq(Symbols) /\ nl \o (<<"/">> \o pl) \in Seq(Symbols)
  <2>1. <<"/">> \o ok \in Seq(Symbols) /\ <<"/">> \o pl \in Seq(Symbols)
    BY <1>6, Pieces, Written
  <2> QED BY <1>5, <2>1, ConcatProperties
<1> DEFINE begin(t) == <<"/", "api", "/", "repositories", "/", t, "/">>
<1>8. ASSUME NEW t \in Symbols
      PROVE  begin(t) \in Seq(Symbols) /\ Len(begin(t)) = 7 /\ begin(t)[6] = t
  <2>1. ASSUME NEW S, NEW a \in S, NEW b \in S, NEW c \in S, NEW z \in S
        PROVE  <<a, b, a, c, a, z, a>> \in Seq(S) /\ Len(<<a, b, a, c, a, z, a>>) = 7
                 /\ <<a, b, a, c, a, z, a>>[6] = z
    OBVIOUS
  <2> QED BY <2>1, Written
<1>9. SUFFICES ASSUME OperationURI(k, o, r, u) = OperationURI(l, p, s, v)
               PROVE  k = l /\ o = p /\ Revision(k, r) = Revision(l, s) /\ u = v
  OBVIOUS
<1>10. begin(k.type) \o (nk \o (<<"/">> \o ok)) = begin(l.type) \o (nl \o (<<"/">> \o pl))
  BY <1>9 DEF OperationURI, ok, pl, qk, ql, nk, nl
<1> HIDE DEF begin
<1>11. begin(k.type) = begin(l.type) /\ nk \o (<<"/">> \o ok) = nl \o (<<"/">> \o pl)
  <2>1. /\ begin(k.type) \in Seq(Symbols) /\ begin(l.type) \in Seq(Symbols)
        /\ Len(begin(k.type)) = Len(begin(l.type))
    BY <1>2, <1>8
  <2> DEFINE restk == nk \o (<<"/">> \o ok)
             restl == nl \o (<<"/">> \o pl)
  <2>2. restk \in Seq(Symbols) /\ restl \in Seq(Symbols) /\ begin(k.type) \o restk = begin(l.type) \o restl
    BY <1>7, <1>10
  <2> HIDE DEF restk, restl
  <2>3. begin(k.type) = begin(l.type) /\ restk = restl
    BY <2>1, <2>2, SamePrefix
  <2> QED BY <2>3 DEF restk, restl
<1>12. k.type = l.type
  BY <1>2, <1>8, <1>11
<1>13. nk = nl /\ ok = pl
  BY <1>5, <1>6, <1>11, SameParts, Written, Zenon
<1>14. o = p /\ qk = ql
  <2>1. /\ <<o, "?">> \in Seq(Symbols) /\ <<p, "?">> \in Seq(Symbols)
        /\ Len(<<o, "?">>) = Len(<<p, "?">>)
    BY <1>2, <1>4, Pieces, Written
  <2>2. <<o, "?">> = <<p, "?">> /\ qk = ql
    BY <1>4, <1>13, <2>1, SamePrefix, Zenon DEF ok, pl
  <2>3. <<o, "?">>[1] = <<p, "?">>[1]
    BY <2>2
  <2> QED BY <2>2, <2>3
<1>15. k.repo = l.repo /\ Revision(k, r) = Revision(l, s) /\ u = v
  <2>1. Encode(k.repo, Revision(k, r), u) = Encode(l.repo, Revision(l, s), v)
    BY <1>14 DEF qk, ql
  <2> DEFINE a == Revision(k, r)
             b == Revision(l, s)
             x == k.repo
             y == l.repo
  <2>2. /\ a \in Segments /\ b \in Segments /\ x \in Seq(Segments) /\ y \in Seq(Segments)
        /\ Encode(x, a, u) = Encode(y, b, v)
    BY <1>1, <1>3, <2>1
  <2> HIDE DEF a, b, x, y
  <2>3. x = y /\ a = b /\ u = v
    BY <1>1, <2>2, QueriesDiffer
  <2> QED BY <2>3 DEF a, b, x, y
<1>16. k.namespace = l.namespace
  BY <1>1, <1>13 DEF Escaping, nk, nl
<1> QED BY <1>12, <1>14, <1>15, <1>16
=============================================================================
