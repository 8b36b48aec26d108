----------------------------- MODULE CoapProofs -----------------------------
(***************************************************************************)
(* What Coap promises for any number of clients, resources, peers and      *)
(* tokens, any list of resources and any requests, in all its worlds.      *)
(*                                                                         *)
(* AnswerIsCurrent is not inductive alone: an answer is the current one    *)
(* because the token a client keeps is the one of the request its task     *)
(* waits for, or zero (TokensAgree), and it stays the current one because  *)
(* behind it nothing is under way any more (Alone).                        *)
(***************************************************************************)
EXTENDS Coap, NaturalsInduction, WellFoundedInduction, TLAPS

(* A request waits for the engine whole, and no reply waits then.          *)
ServerWaits ==
  Server \in unread => /\ msg_in[Server] \in Request /\ Proper(msg_in[Server])
                       /\ reply = Null

(* As long as the sequence of tokens does not reach zero, it means that a  *)
(* client expects nothing; and a task was told of the request it made.     *)
TokensAgree == "wrap" \notin world =>
  /\ seq # 0 /\ 0 \notin network
  /\ \A c \in Client :
       /\ out[c] # 0 /\ asking[c] # 0 /\ token[c] \in {0, asking[c]}
       /\ c \in unread => msg_in[c].token # 0
       /\ note[c] # None => token[c] = 0 /\ note[c].answers = asking[c] /\ asking[c] # None

(* With one client, and no answer that comes late, there is one request    *)
(* under way at most, and none when its answer has come in.                *)
OneRequest == world \cap {"wrap", "late", "clients"} = {}
Alone == OneRequest =>
  /\ \A c, d \in Started : c = d
  /\ \A c \in Client \ Started : out[c] = Null /\ note[c] = None /\ c \notin unread
  /\ \A t, u \in network : t = u
  /\ \A c \in Client : out[c] \in Token => 
       /\ out[c] = token[c] /\ out[c] \notin network
       /\ c \in unread => msg_in[c].token # out[c]
  /\ \A c \in Client :
       (c \in unread /\ Matches(c)) \/ Payload(c) => network = {} /\ Leaving = {}

Typed == TypeOK /\ \A c \in Client : c \in unread => msg_in[c] \in Answer

CoapInv ==
  /\ Typed /\ ServerWaits /\ TokensAgree /\ Alone
  /\ ServerHearsEveryone /\ RightResource /\ AnswerIsCurrent

-----------------------------------------------------------------------------
(* What the walk over the options of a request computes.                   *)

(* Induction over a set of numbers.                                        *)
LEMMA Induction ==
  ASSUME NEW S, 0 \in S, \A k \in Nat : k \in S => k + 1 \in S
  PROVE  \A k \in Nat : k \in S
<1>1. ASSUME NEW n \in Nat, n \notin S PROVE FALSE
  <2> DEFINE T == {k \in Nat : k \notin S}
  <2>1. PICK k \in T : \A y \in T : ~(<<y, k>> \in OpToRel(<, Nat))
    <3>1. T \subseteq Nat /\ T # {}
      BY <1>1
    <3> HIDE DEF T
    <3> QED
      BY <3>1, NatLessThanWellFounded, WFMin
  <2>2. k \in Nat /\ k \notin S /\ k # 0
    BY <2>1
  <2>3. k - 1 \in Nat /\ (k - 1) + 1 = k /\ k - 1 < k
    BY <2>2
  <2>4. k - 1 \notin T
    BY <2>1, <2>2, <2>3 DEF OpToRel
  <2>5. k - 1 \in S
    BY <2>3, <2>4
  <2> QED
    BY <2>2, <2>3, <2>5
<1> QED
  BY <1>1

(* The resource that a segment leads to.                                   *)
LEMMA LookupFinds ==
  ASSUME NEW parent, NEW name
  PROVE  LET r == Lookup(parent, name)
         IN r = Null \/ (r \in Range(Resource) /\ Names(r, parent, name))
<1> DEFINE found == {i \in DOMAIN Resource : Names(Resource[i], parent, name)}
<1>1. CASE found = {}
  BY <1>1 DEF Lookup
<1>2. CASE found # {}
  <2>1. found \subseteq Nat
    BY MessageAssumption
  <2> DEFINE i == CHOOSE k \in found : \A j \in found : k <= j
  <2>2. PICK k \in found : \A j \in found : ~(<<j, k>> \in OpToRel(<, Nat))
    <3> HIDE DEF found
    <3> QED
      BY <1>2, <2>1, NatLessThanWellFounded, WFMin
  <2>3. k \in found /\ \A j \in found : k <= j
    <3> HIDE DEF found
    <3>1. ASSUME NEW j \in found, j < k PROVE FALSE
      <4>1. j \in Nat /\ k \in Nat /\ <<j, k>> \notin OpToRel(<, Nat)
        BY <2>1, <2>2
      <4> QED
        BY <3>1, <4>1 DEF OpToRel
    <3> QED
      BY <2>1, <3>1
  <2>4. i \in found
    <3> HIDE DEF found
    <3> QED
      BY <2>3
  <2>5. Lookup(parent, name) = Resource[i]
    BY <1>2 DEF Lookup
  <2> HIDE DEF i
  <2>6. Resource[i] \in Range(Resource)
    BY <2>4 DEF Range
  <2> QED
    BY <2>4, <2>5, <2>6
<1> QED
  BY <1>1, <1>2

(* The walk and the segments are the functions that their definitions      *)
(* describe, one option at a time.                                         *)
WalkTo(q, f, i) ==
  IF i = 0 THEN [resource |-> Fresh.resource, error |-> ""]
           ELSE Walk(q.code, q.options[i], f[i - 1])
NamesTo(q, f, i) ==
  IF i = 0 THEN <<>>
  ELSE IF q.options[i].number = "path"
         THEN Append(f[i - 1], q.options[i].name) ELSE f[i - 1]

LEMMA OptionsAre ==
  ASSUME NEW q \in Request
  PROVE  \E f : /\ Options(q) = f[Len(q.options)]
                /\ \A i \in 0..Len(q.options) : f[i] = WalkTo(q, f, i)
<1> DEFINE n == Len(q.options)
           Is(f, k) == f = [i \in 0..k |-> WalkTo(q, f, i)]
           Exists(k) == \E f : Is(f, k)
           S == {k \in Nat : Exists(k)}
<1>0. n \in Nat
  BY MessageAssumption
<1>1. 0 \in S
  <2>1. Is([i \in 0..0 |-> [resource |-> Fresh.resource, error |-> ""]], 0)
    BY DEF WalkTo
  <2> QED
    BY <2>1
<1>2. ASSUME NEW k \in Nat, k \in S PROVE k + 1 \in S
  <2>1. PICK f : Is(f, k)
    BY <1>2
  <2> DEFINE g == [i \in 0..(k + 1) |-> IF i \in 0..k THEN f[i] ELSE WalkTo(q, f, i)]
  <2>2. ASSUME NEW i \in 0..(k + 1) PROVE g[i] = WalkTo(q, g, i)
    <3>1. i # 0 => i - 1 \in 0..k /\ i - 1 \in 0..(k + 1)
      OBVIOUS
    <3>2. i # 0 => g[i - 1] = f[i - 1]
      BY <3>1
    <3>3. i \in 0..k => f[i] = WalkTo(q, f, i)
      BY <2>1
    <3>4. g[i] = WalkTo(q, f, i)
      BY <3>3
    <3> HIDE DEF g
    <3> QED
      BY <3>2, <3>4 DEF WalkTo
  <2>3. Is(g, k + 1)
    BY <2>2
  <2>4. Exists(k + 1)
    BY <2>3
  <2> HIDE DEF Exists
  <2> QED
    BY <2>4
<1>3. n \in S
  <2> HIDE DEF S
  <2> QED
    BY <1>0, <1>1, <1>2, Induction
<1> DEFINE at == CHOOSE f : Is(f, n)
<1>4. Is(at, n)
  BY <1>3
<1>5. Options(q) = at[n]
  BY DEF Options, WalkTo
<1>6. \A i \in 0..n : at[i] = WalkTo(q, at, i)
  <2> HIDE DEF at
  <2> QED
    BY <1>4
<1> HIDE DEF at
<1> QED
  BY <1>5, <1>6

(* The same of the segments.                                               *)
LEMMA SegmentsAre ==
  ASSUME NEW q \in Request
  PROVE  \E f : /\ Segments(q) = f[Len(q.options)]
                /\ \A i \in 0..Len(q.options) : f[i] = NamesTo(q, f, i)
<1> DEFINE n == Len(q.options)
           Is(f, k) == f = [i \in 0..k |-> NamesTo(q, f, i)]
           Exists(k) == \E f : Is(f, k)
           S == {k \in Nat : Exists(k)}
<1>0. n \in Nat
  BY MessageAssumption
<1>1. 0 \in S
  <2>1. Is([i \in 0..0 |-> <<>>], 0)
    BY DEF NamesTo
  <2> QED
    BY <2>1
<1>2. ASSUME NEW k \in Nat, k \in S PROVE k + 1 \in S
  <2>1. PICK f : Is(f, k)
    BY <1>2
  <2> DEFINE g == [i \in 0..(k + 1) |-> IF i \in 0..k THEN f[i] ELSE NamesTo(q, f, i)]
  <2>2. ASSUME NEW i \in 0..(k + 1) PROVE g[i] = NamesTo(q, g, i)
    <3>1. i # 0 => i - 1 \in 0..k /\ i - 1 \in 0..(k + 1)
      OBVIOUS
    <3>2. i # 0 => g[i - 1] = f[i - 1]
      BY <3>1
    <3>3. i \in 0..k => f[i] = NamesTo(q, f, i)
      BY <2>1
    <3>4. g[i] = NamesTo(q, f, i)
      BY <3>3
    <3> HIDE DEF g
    <3> QED
      BY <3>2, <3>4 DEF NamesTo
  <2>3. Is(g, k + 1)
    BY <2>2
  <2>4. Exists(k + 1)
    BY <2>3
  <2> HIDE DEF Exists
  <2> QED
    BY <2>4
<1>3. n \in S
  <2> HIDE DEF S
  <2> QED
    BY <1>0, <1>1, <1>2, Induction
<1> DEFINE at == CHOOSE f : Is(f, n)
<1>4. Is(at, n)
  BY <1>3
<1>5. Segments(q) = at[n]
  BY DEF Segments, NamesTo
<1>6. \A i \in 0..n : at[i] = NamesTo(q, at, i)
  <2> HIDE DEF at
  <2> QED
    BY <1>4
<1> HIDE DEF at
<1> QED
  BY <1>5, <1>6

(* Where the walk stands.                                                  *)
At == [resource : Range(Resource) \cup {Null},
       error : {"", "4.00", "4.02", "4.03", "4.04", "4.05", "4.15"}]

(* One option leaves an error that is there; it moves on to a resource of  *)
(* the list, and only if it is a segment.                                  *)
LEMMA OneOption ==
  ASSUME NEW code, NEW option \in Option, NEW at \in At
  PROVE  LET w == Walk(code, option, at)
         IN /\ w \in At
            /\ w.error = "" =>
                 /\ at.error = ""
                 /\ option.number # "path" => w.resource = at.resource
                 /\ option.number = "path" =>
                      /\ w.resource \in Range(Resource)
                      /\ Names(w.resource, at.resource, option.name)
<1> DEFINE r == Lookup(at.resource, option.name)
           w == Walk(code, option, at)
           Good(v) == /\ v \in At
                      /\ v.error = "" =>
                           /\ at.error = ""
                           /\ option.number # "path" => v.resource = at.resource
                           /\ option.number = "path" =>
                                /\ v.resource \in Range(Resource)
                                /\ Names(v.resource, at.resource, option.name)
<1>1. r = Null \/ (r \in Range(Resource) /\ Names(r, at.resource, option.name))
  BY LookupFinds
<1>2. NotFound(code) \in {"4.03", "4.04", "4.05"}
  BY DEF NotFound
<1>3. ASSUME at.error # "" PROVE Good(w)
  BY <1>3 DEF Walk
<1>4. ASSUME at.error = "", option.number = "path" PROVE Good(w)
  <2>1. w = IF r = Null THEN [resource |-> r, error |-> NotFound(code)]
                        ELSE [resource |-> r, error |-> ""]
    BY <1>4 DEF Walk
  <2> HIDE DEF w, r
  <2>2. ASSUME r = Null PROVE Good(w)
    BY <1>2, <2>1, <2>2 DEF At
  <2>3. ASSUME r # Null PROVE Good(w)
    BY <1>1, <1>4, <2>1, <2>3 DEF At
  <2> QED
    BY <2>2, <2>3
<1>5. ASSUME at.error = "", option.number # "path" PROVE Good(w)
  <2>1. \/ w = at
        \/ \E e \in {"4.00", "4.02", "4.15"} : w = [at EXCEPT !.error = e]
    BY <1>5 DEF Walk
  <2> HIDE DEF w
  <2>2. ASSUME NEW e \in {"4.00", "4.02", "4.15"}, w = [at EXCEPT !.error = e]
        PROVE  w \in At /\ w.error # ""
    BY <2>2 DEF At
  <2> QED
    BY <1>5, <2>1, <2>2
<1> QED
  BY <1>3, <1>4, <1>5

(* A chain of parents grows by the resource that the next segment names.   *)
LEMMA PathGrows ==
  ASSUME NEW names \in Seq(Seq(Nat)), NEW name \in Seq(Nat), NEW parent,
         NEW r \in Range(Resource), Parent[r] = parent, Uri[r] = name,
         (names = <<>> /\ parent = Null) \/ IsPath(parent, names)
  PROVE  IsPath(r, Append(names, name))
<1> DEFINE longer == Append(names, name)
           n == Len(names)
<1>1. /\ n \in Nat /\ DOMAIN names = 1..n /\ DOMAIN longer = 1..(n + 1)
      /\ Len(longer) = n + 1 /\ longer # <<>> /\ longer[n + 1] = name
      /\ \A i \in 1..n : longer[i] = names[i]
  OBVIOUS
<1> HIDE DEF longer, n
<1>2. ASSUME names = <<>>, parent = Null PROVE IsPath(r, longer)
  <2> DEFINE chain == [i \in 1..(n + 1) |-> r]
  <2>1. n = 0
    BY <1>2 DEF n
  <2>2. /\ chain \in [DOMAIN longer -> Range(Resource)]
        /\ chain[1] = r /\ chain[n + 1] = r
    BY <1>1, <2>1
  <2>3. \A i \in 1..(n + 1) : i = 1
    BY <2>1
  <2> HIDE DEF chain
  <2> QED
    BY <1>1, <1>2, <2>1, <2>2, <2>3 DEF IsPath
<1>3. ASSUME IsPath(parent, names) PROVE IsPath(r, longer)
  <2>1. PICK old \in [1..n -> Range(Resource)] :
          /\ names # <<>> /\ old[n] = parent /\ Parent[old[1]] = Null
          /\ \A i \in 1..n : Uri[old[i]] = names[i] /\ (i > 1 => Parent[old[i]] = old[i - 1])
    BY <1>1, <1>3 DEF IsPath, n
  <2>2. n > 0 /\ 1 \in 1..n /\ n \in 1..n
    BY <1>1, <2>1 DEF n
  <2> DEFINE chain == [i \in 1..(n + 1) |-> IF i \in 1..n THEN old[i] ELSE r]
  <2>3. /\ chain \in [1..(n + 1) -> Range(Resource)]
        /\ chain[n + 1] = r /\ \A i \in 1..n : chain[i] = old[i]
    BY <1>1
  <2> HIDE DEF chain
  <2>4. ASSUME NEW i \in 1..(n + 1)
        PROVE  Uri[chain[i]] = longer[i] /\ (i > 1 => Parent[chain[i]] = chain[i - 1])
    <3>1. CASE i \in 1..n
      <4>1. i > 1 => i - 1 \in 1..n
        BY <1>1, <3>1
      <4> QED
        BY <1>1, <2>1, <2>3, <3>1, <4>1
    <3>2. CASE i = n + 1
      <4>1. i - 1 = n
        BY <1>1, <3>2
      <4> QED
        BY <1>1, <2>1, <2>2, <2>3, <3>2, <4>1
    <3> QED
      BY <1>1, <3>1, <3>2
  <2>5. Parent[chain[1]] = Null
    BY <2>1, <2>2, <2>3
  <2>6. chain \in [DOMAIN longer -> Range(Resource)] /\ chain[Len(longer)] = r
    BY <1>1, <2>3
  <2>7. \A i \in DOMAIN longer :
          Uri[chain[i]] = longer[i] /\ (i > 1 => Parent[chain[i]] = chain[i - 1])
    BY <1>1, <2>4
  <2> QED
    BY <1>1, <2>5, <2>6, <2>7 DEF IsPath
<1> QED
  BY <1>2, <1>3 DEF longer

(* Where a segment leads to, when it abbreviates no name.                  *)
LEMMA NamesWhole ==
  ASSUME NEW q \in Request, Unambiguous(q), NEW i \in DOMAIN q.options,
         q.options[i].number = "path", NEW r \in Range(Resource), NEW parent,
         Names(r, parent, q.options[i].name)
  PROVE  Parent[r] = parent /\ Uri[r] = q.options[i].name
<1>1. PICK s \in Range(Resource) : Uri[s] = q.options[i].name
  BY DEF Unambiguous
<1>2. IsPrefix(Uri[s], Uri[r]) => Uri[s] = Uri[r]
  BY DEF Unambiguous
<1>3. IsPrefix(q.options[i].name, Uri[r]) /\ Parent[r] = parent
  BY DEF Names
<1> QED
  BY <1>1, <1>2, <1>3

(* The walk ends with an error, or without having met a segment, or with   *)
(* the resource that the segments name.                                    *)
HasPath(q) == \E i \in DOMAIN q.options : q.options[i].number = "path"

LEMMA WalkIsRight ==
  ASSUME NEW q \in Request
  PROVE  LET at == Options(q)
         IN /\ at \in At
            /\ at.error = "" /\ HasPath(q) => at.resource # Null
            /\ at.error = "" /\ at.resource # Null /\ Unambiguous(q) =>
                 IsPath(at.resource, Segments(q))
<1> DEFINE n == Len(q.options)
<1>1. PICK at : Options(q) = at[n] /\ \A i \in 0..n : at[i] = WalkTo(q, at, i)
  BY OptionsAre
<1>2. PICK names : Segments(q) = names[n] /\ \A i \in 0..n : names[i] = NamesTo(q, names, i)
  BY SegmentsAre
<1>3. /\ n \in Nat /\ DOMAIN q.options = 1..n
      /\ \A i \in 1..n : q.options[i] \in Option /\ q.options[i].name \in Seq(Nat)
  <2>1. q.options \in Seq(Option)
    BY MessageAssumption
  <2>2. n \in Nat /\ DOMAIN q.options = 1..n /\ \A i \in 1..n : q.options[i] \in Option
    BY <2>1
  <2>3. \A o \in Option : o.name \in Seq(Nat)
    BY DEF Option
  <2> HIDE DEF n
  <2> QED
    BY <2>2, <2>3
<1> HIDE DEF n
<1> DEFINE NoPath(i) == \A j \in 1..i : q.options[j].number # "path"
           Path(i) == /\ at[i].resource \in Range(Resource)
                      /\ Unambiguous(q) => IsPath(at[i].resource, names[i])
           Good(i) == /\ at[i] \in At /\ names[i] \in Seq(Seq(Nat))
                      /\ at[i].error = "" =>
                           \/ at[i].resource = Null /\ names[i] = <<>> /\ NoPath(i)
                           \/ Path(i)
           S == {k \in Nat : k <= n => Good(k)}
<1>4. 0 \in S
  <2>1. 0 \in 0..n
    BY <1>3
  <2>2. at[0] = WalkTo(q, at, 0) /\ names[0] = NamesTo(q, names, 0)
    BY <1>1, <1>2, <2>1
  <2>3. at[0] = [resource |-> Null, error |-> ""] /\ names[0] = <<>>
    BY <2>2 DEF WalkTo, NamesTo, Fresh
  <2>4. at[0] \in At /\ at[0].resource = Null
    <3> DEFINE z == [resource |-> Null, error |-> ""]
    <3>1. z \in At /\ z.resource = Null
      BY DEF At
    <3> HIDE DEF z
    <3> QED
      BY <2>3, <3>1 DEF z
  <2>5. <<>> \in Seq(Seq(Nat)) /\ NoPath(0)
    OBVIOUS
  <2> HIDE DEF NoPath, Path
  <2> QED
    BY <2>3, <2>4, <2>5
<1>5. ASSUME NEW k \in Nat, k \in S PROVE k + 1 \in S
  <2> HIDE DEF NoPath, Path
  <2>1. SUFFICES ASSUME k + 1 <= n PROVE Good(k + 1)
    <3> HIDE DEF Good
    <3> QED
      OBVIOUS
  <2>2. Good(k)
    <3>1. k <= n
      BY <1>3, <2>1
    <3> HIDE DEF Good
    <3> QED
      BY <1>5, <3>1
  <2> DEFINE i == k + 1
             option == q.options[i]
  <2>3. i \in 1..n /\ i \in 0..n /\ i # 0 /\ i - 1 = k /\ option \in Option
    BY <1>3, <2>1
  <2>4. /\ at[i] = Walk(q.code, option, at[k])
        /\ names[i] = IF option.number = "path" THEN Append(names[k], option.name)
                                                ELSE names[k]
    BY <1>1, <1>2, <2>3 DEF WalkTo, NamesTo
  <2>5. /\ at[i] \in At
        /\ at[i].error = "" =>
             /\ at[k].error = ""
             /\ option.number # "path" => at[i].resource = at[k].resource
             /\ option.number = "path" =>
                  /\ at[i].resource \in Range(Resource)
                  /\ Names(at[i].resource, at[k].resource, option.name)
    <3>1. at[k] \in At
      BY <2>2
    <3> HIDE DEF i, option, At
    <3> DEFINE w == Walk(q.code, option, at[k])
    <3>2. /\ w \in At
          /\ w.error = "" =>
               /\ at[k].error = ""
               /\ option.number # "path" => w.resource = at[k].resource
               /\ option.number = "path" =>
                    /\ w.resource \in Range(Resource)
                    /\ Names(w.resource, at[k].resource, option.name)
      BY <2>3, <3>1, OneOption
    <3> QED
      BY <2>4, <3>2
  <2>6. option.name \in Seq(Nat)
    BY <1>3, <2>3
  <2>7. \A j \in 1..i : j = i \/ j \in 1..k
    OBVIOUS
  <2> HIDE DEF i, option
  <2>8. names[i] \in Seq(Seq(Nat))
    <3>1. names[k] \in Seq(Seq(Nat))
      BY <2>2
    <3> QED
      BY <2>4, <2>6, <3>1
  <2>9. ASSUME at[i].error = "", option.number # "path"
        PROVE  \/ at[i].resource = Null /\ names[i] = <<>> /\ NoPath(i)
               \/ Path(i)
    <3>1. at[i].resource = at[k].resource /\ names[i] = names[k] /\ at[k].error = ""
      BY <2>4, <2>5, <2>9
    <3>2. NoPath(k) => NoPath(i)
      BY <2>7, <2>9 DEF option, NoPath
    <3> QED
      BY <2>2, <3>1, <3>2 DEF Path
  <2>10. ASSUME at[i].error = "", option.number = "path", Unambiguous(q)
         PROVE  IsPath(at[i].resource, names[i])
    <3>1. Parent[at[i].resource] = at[k].resource /\ Uri[at[i].resource] = option.name
      BY <1>3, <2>3, <2>5, <2>10, NamesWhole DEF option
    <3>2. (names[k] = <<>> /\ at[k].resource = Null) \/ IsPath(at[k].resource, names[k])
      BY <2>2, <2>5, <2>10 DEF Path
    <3>3. names[k] \in Seq(Seq(Nat)) /\ names[i] = Append(names[k], option.name)
      BY <2>2, <2>4, <2>10
    <3>4. at[i].resource \in Range(Resource)
      BY <2>5, <2>10
    <3> QED
      BY <2>6, <3>1, <3>2, <3>3, <3>4, PathGrows
  <2>11. ASSUME at[i].error = "", option.number = "path" PROVE Path(i)
    BY <2>5, <2>10, <2>11 DEF Path
  <2> QED
    BY <2>5, <2>8, <2>9, <2>11 DEF i
<1>6. n \in S
  <2> HIDE DEF S
  <2> QED
    BY <1>3, <1>4, <1>5, Induction
<1>7. Good(n)
  <2> HIDE DEF Good
  <2> QED
    BY <1>3, <1>6
<1>8. NoPath(n) => ~HasPath(q)
  BY <1>3 DEF HasPath
<1>9. Null \notin Range(Resource)
  BY MessageAssumption
<1> HIDE DEF NoPath
<1> QED
  BY <1>1, <1>2, <1>7, <1>8, <1>9

(* Every answer that the engine makes is one of the replies.               *)
LEMMA ResponseIsReply ==
  ASSUME NEW type \in {"ACK", "RST"}, NEW len \in {0, 1},
         NEW code \in {"0.00", "2.04", "2.05", "4.00", "4.02", "4.03", "4.04", "4.05", "4.15"}
  PROVE  Response(type, code, len) \in Reply /\ Response(type, code, len).code = code
<1> DEFINE p == len # 0 /\ code \notin {"0.00", "4.00"}
<1>1. p \in BOOLEAN
  OBVIOUS
<1>2. Response(type, code, len) = [type |-> type, code |-> code, payload |-> p]
  BY DEF Response
<1> HIDE DEF p
<1> QED
  BY <1>1, <1>2 DEF Reply

(* What becomes of a request: an answer of the right type, a positive one  *)
(* only from the resource that the path names, and in every case if the    *)
(* request is one of those that are answered.                              *)
Outcome(q, s) ==
  /\ s.reply \in Reply \cup {Null} /\ s.len \in {0, 1}
  /\ s.resource \in Range(Resource) \cup {Null}
  /\ s.reply # Null /\ s.reply.code \in {"2.04", "2.05"} =>
       /\ s.resource # Null
       /\ Unambiguous(q) => IsPath(s.resource, Segments(q))

LEMMA MethodIsRight ==
  ASSUME NEW q, NEW r, NEW got \in BOOLEAN, NEW put \in BOOLEAN
  PROVE  LET m == Method(q, r, got, put)
         IN m.reply \in Reply \cup {Null} /\ m.len \in {0, 1} /\ (q.con /\ got => m.reply # Null)
<1> DEFINE m == Method(q, r, got, put)
           Fine(v) == /\ v.reply \in Reply \cup {Null} /\ v.len \in {0, 1}
                      /\ q.con /\ got => v.reply # Null
<1>1. /\ Response("ACK", "2.05", 1) \in Reply /\ Response("ACK", "2.04", 0) \in Reply
      /\ Response("ACK", "4.00", 0) \in Reply /\ Rst("4.05") \in Reply
  BY ResponseIsReply DEF Rst, Fresh
<1>2. Null \notin Reply
  BY MessageAssumption
<1>3. CASE q.code = "GET" /\ r \in Gets
  <2>1. m = [reply |-> IF got /\ q.con THEN Response("ACK", "2.05", 1) ELSE Null, len |-> 1]
    BY <1>3 DEF Method
  <2> HIDE DEF m
  <2>2. Fine(m)
    BY <1>1, <1>2, <2>1
  <2> QED
    BY <2>2 DEF m
<1>4. CASE q.code = "PUT" /\ r \in Puts
  <2>1. m = [len |-> 0,
             reply |-> IF put /\ q.con THEN Response("ACK", "2.04", 0)
                       ELSE IF ~put THEN Response("ACK", "4.00", 0) ELSE Null]
    BY <1>4 DEF Method, Fresh
  <2> HIDE DEF m
  <2>2. Fine(m)
    BY <1>1, <1>2, <2>1
  <2> QED
    BY <2>2 DEF m
<1>5. CASE ~(q.code = "GET" /\ r \in Gets) /\ ~(q.code = "PUT" /\ r \in Puts)
  <2>1. m = [reply |-> Rst("4.05"), len |-> 0]
    BY <1>5 DEF Method, Fresh
  <2> HIDE DEF m
  <2>2. Fine(m)
    BY <1>1, <1>2, <2>1
  <2> QED
    BY <2>2 DEF m
<1> QED
  BY <1>3, <1>4, <1>5

LEMMA ServeIsRight ==
  ASSUME NEW q \in Request, NEW got \in BOOLEAN, NEW put \in BOOLEAN
  PROVE  LET s == Serve(q, got, put)
         IN Outcome(q, s) /\ (q.con /\ HasPath(q) /\ got => s.reply # Null)
<1> DEFINE at == Options(q)
           m == Method(q, at.resource, got, put)
           s == Serve(q, got, put)
           Fine(v) == Outcome(q, v) /\ (q.con /\ HasPath(q) /\ got => v.reply # Null)
<1>1. /\ at \in At
      /\ at.error = "" /\ HasPath(q) => at.resource # Null
      /\ at.error = "" /\ at.resource # Null /\ Unambiguous(q) =>
           IsPath(at.resource, Segments(q))
  BY WalkIsRight
<1>2. m.reply \in Reply \cup {Null} /\ m.len \in {0, 1} /\ (q.con /\ got => m.reply # Null)
  BY MethodIsRight
<1>3. Null \notin Reply
  BY MessageAssumption
<1>4. at.resource \in Range(Resource) \cup {Null}
  BY <1>1 DEF At
<1>5. CASE at.error # ""
  <2>1. /\ at.error \in {"4.00", "4.02", "4.03", "4.04", "4.05", "4.15"}
    BY <1>1, <1>5 DEF At
  <2>2. Rst(at.error) \in Reply /\ Rst(at.error).code = at.error
    BY <2>1, ResponseIsReply DEF Rst, Fresh
  <2>3. s = [reply |-> Rst(at.error), resource |-> at.resource, len |-> 0]
    BY <1>5 DEF Serve, Fresh
  <2> HIDE DEF s, at
  <2>4. Fine(s)
    BY <1>3, <1>4, <2>1, <2>2, <2>3 DEF Outcome
  <2> QED
    BY <2>4 DEF s
<1>6. CASE at.error = "" /\ at.resource = Null
  <2>1. s = [reply |-> Null, resource |-> at.resource, len |-> 0]
    BY <1>6 DEF Serve, Fresh
  <2> HIDE DEF s, at
  <2>2. Fine(s)
    BY <1>1, <1>6, <2>1 DEF Outcome
  <2> QED
    BY <2>2 DEF s
<1>7. CASE at.error = "" /\ at.resource # Null
  <2>1. s = [reply |-> m.reply, resource |-> at.resource, len |-> m.len]
    BY <1>7 DEF Serve
  <2> HIDE DEF s, at, m
  <2>2. Fine(s)
    BY <1>1, <1>2, <1>4, <1>7, <2>1 DEF Outcome
  <2> QED
    BY <2>2 DEF s
<1> QED
  BY <1>5, <1>6, <1>7

LEMMA ServedIsRight ==
  ASSUME NEW q \in Request, NEW got \in BOOLEAN, NEW put \in BOOLEAN,
         NEW s \in Served(q, got, put)
  PROVE  /\ Outcome(q, s)
         /\ world \cap {"silent", "stray"} = {} /\ Proper(q) /\ got => s.reply # Null
<1> DEFINE Short(r) == [reply |-> r, resource |-> Null, len |-> 0]
           Errors == {"4.00", "4.02", "4.03", "4.05", "4.15"}
<1>1. Null \notin Reply /\ q.kind \in {"broken", "ping", "stray", "request"}
  BY MessageAssumption
<1>2. ASSUME NEW e \in Errors PROVE Rst(e) \in Reply /\ Rst(e).code = e
  BY ResponseIsReply DEF Rst, Fresh
<1>3. Response("RST", "0.00", 0) \in Reply /\ Response("RST", "0.00", 0).code = "0.00"
  BY ResponseIsReply
<1>4. ASSUME NEW r \in Reply, r.code \notin {"2.04", "2.05"}, s = Short(r)
      PROVE  Outcome(q, s) /\ s.reply # Null
  BY <1>1, <1>4 DEF Outcome
<1>5. CASE q.kind = "broken"
  <2>1. s = Short(Rst("4.00"))
    BY <1>5 DEF Served, Fresh
  <2> QED
    BY <1>2, <1>4, <2>1
<1>6. CASE q.kind = "ping"
  <2>1. s = Short(Response("RST", "0.00", 0))
    BY <1>6 DEF Served, Fresh
  <2> QED
    BY <1>3, <1>4, <2>1
<1>7. CASE q.kind = "request"
  <2>1. s = Serve(q, got, put)
    BY <1>7 DEF Served
  <2>2. world \cap {"silent", "stray"} = {} /\ Proper(q) => q.con /\ HasPath(q)
    BY <1>7 DEF Proper, HasPath
  <2> QED
    BY <2>1, <2>2, ServeIsRight
<1>8. CASE q.kind = "stray"
  <2>1. s = Short(Null) \/ \E e \in Errors : s = Short(Rst(e))
    BY <1>8 DEF Served, Fresh
  <2>2. ASSUME s = Short(Null) PROVE Outcome(q, s)
    BY <2>2 DEF Outcome
  <2>3. Outcome(q, s)
    BY <1>2, <1>4, <2>1, <2>2
  <2>4. ~(world \cap {"silent", "stray"} = {} /\ Proper(q))
    BY <1>8 DEF Proper
  <2> QED
    BY <2>3, <2>4
<1> QED
  BY <1>1, <1>5, <1>6, <1>7, <1>8

-----------------------------------------------------------------------------
(* One action at a time.                                                   *)

LEMMA TokenFacts ==
  /\ Tokens \in Nat /\ Tokens > 2 /\ Token \subseteq Nat /\ 0 \in Token
  /\ Null \notin Token /\ None \notin Token /\ Ack \notin Token
  /\ Null \notin Client /\ Server \notin Client /\ Ack # Null
  /\ None # 0 /\ Null # 0 /\ Ack # 0
<1>1. Tokens \in Nat /\ Tokens > 2
  BY CoapAssumption
<1>2. \A n \in Token : n \in 0..Tokens
  BY <1>1 DEF Token
<1>3. 0 \in 0..Tokens /\ 0 \in Token
  BY <1>1 DEF Token
<1> QED
  BY <1>1, <1>2, <1>3, CoapAssumption, MessageAssumption DEF Token

LEMMA NextTokenFacts ==
  ASSUME seq \in Token
  PROVE  NextToken \in Token /\ ("wrap" \notin world => NextToken # 0)
BY TokenFacts DEF NextToken, Token

(* The server, and what a client has to say about it, is left alone.       *)
LEMMA ServerKept ==
  ASSUME ServerWaits, ServerHearsEveryone, RightResource,
         UNCHANGED <<serverVars, world>>, msg_in'[Server] = msg_in[Server],
         Server \in unread' <=> Server \in unread
  PROVE  ServerWaits' /\ ServerHearsEveryone' /\ RightResource'
BY DEF ServerWaits, ServerHearsEveryone, RightResource, serverVars, Proper

LEMMA StartClientStep ==
  ASSUME CoapInv, NEW c \in Client, StartClient(c)
  PROVE  CoapInv'
<1> USE TokenFacts
<1>1. Typed'
  <2>1. Typed
    BY DEF CoapInv
  <2>2. head' \in Client \cup {Null} /\ next' \in [Client -> Client \cup {Null}]
    BY <2>1 DEF Typed, TypeOK, StartClient
  <2>3. /\ token' \in [Client -> Token] /\ out' \in [Client -> Token \cup {Null, Ack}]
        /\ unread' \subseteq unread /\ stuck' \in BOOLEAN
    BY <2>1 DEF Typed, TypeOK, StartClient
  <2>4. /\ UNCHANGED <<awaits, seq, note, serverVars, msg_in, flags, asking, network,
                       build, world>>
    BY DEF StartClient
  <2> QED
    BY <2>1, <2>2, <2>3, <2>4 DEF Typed, TypeOK, serverVars
<1>2. ServerWaits' /\ ServerHearsEveryone' /\ RightResource'
  BY ServerKept DEF CoapInv, StartClient
<1>3. TokensAgree'
  BY DEF CoapInv, Typed, TypeOK, TokensAgree, StartClient
<1>4. Alone'
  <2>1. Started \subseteq Started' /\ Started' \subseteq Started \cup {c}
    BY DEF CoapInv, Typed, TypeOK, StartClient, Started
  <2>2. /\ UNCHANGED <<note, msg_in, network, world, asking>>
        /\ "clients" \notin world => Started \subseteq {c}
        /\ out' = [out EXCEPT ![c] = Null] /\ token' = [token EXCEPT ![c] = 0]
        /\ unread' = unread \ {c}
    BY DEF StartClient
  <2>3. /\ out \in [Client -> Token \cup {Null, Ack}] /\ token \in [Client -> Token]
        /\ Alone
    BY DEF CoapInv, Typed, TypeOK
  <2>4. Leaving' \subseteq Leaving
    BY <2>2, <2>3, TokenFacts DEF Leaving
  <2> QED
    BY <2>1, <2>2, <2>3, <2>4 DEF Alone, OneRequest, Payload, Matches
<1>5. AnswerIsCurrent'
  BY DEF CoapInv, AnswerIsCurrent, StartClient, Payload
<1> QED
  BY <1>1, <1>2, <1>3, <1>4, <1>5 DEF CoapInv

LEMMA GetStep ==
  ASSUME CoapInv, NEW c \in Client, Get(c)
  PROVE  CoapInv'
<1> USE TokenFacts
<1>1. Typed /\ TokensAgree /\ Alone /\ AnswerIsCurrent /\ NextToken \in Token
  BY NextTokenFacts DEF CoapInv, Typed, TypeOK
<1>2. /\ c \in Started /\ note[c] = None /\ TokenIsNew
      /\ token' = [token EXCEPT ![c] = seq] /\ awaits' = [awaits EXCEPT ![c] = TRUE]
      /\ out' = [out EXCEPT ![c] = seq] /\ asking' = [asking EXCEPT ![c] = seq]
      /\ seq' = NextToken /\ flags' = flags \cup {"TASK"}
      /\ UNCHANGED <<head, next, note, serverVars, unread, msg_in, stuck, network,
                     build, world>>
  BY DEF Get
<1>3. Typed'
  <2>1. /\ token' \in [Client -> Token] /\ awaits' \in [Client -> BOOLEAN]
        /\ out' \in [Client -> Token \cup {Null, Ack}]
        /\ asking' \in [Client -> Token \cup {None}]
        /\ flags' \subseteq {"TASK", "NETWORK"} /\ seq' \in Token
    BY <1>1, <1>2 DEF Typed, TypeOK
  <2> QED
    BY <1>1, <1>2, <2>1 DEF Typed, TypeOK, serverVars
<1>4. ServerWaits' /\ ServerHearsEveryone' /\ RightResource'
  BY <1>2, ServerKept DEF CoapInv
<1>5. TokensAgree'
  BY <1>1, <1>2, NextTokenFacts DEF Typed, TypeOK, TokensAgree
<1>6. Alone'
  <2>1. Started' = Started
    BY <1>2 DEF Started
  <2>2. seq \notin network /\ (c \in unread => msg_in[c].token # seq) /\ seq \in Token
    BY <1>1, <1>2 DEF TokenIsNew, Typed, TypeOK
  <2>3. ASSUME OneRequest, NEW d \in Client, d # c
        PROVE  out[d] = Null /\ note[d] = None /\ d \notin unread
    BY <1>1, <1>2, <2>3 DEF Alone
  <2>4. ~(c \in unread /\ Matches(c))' /\ ~Payload(c)'
    BY <1>1, <1>2, <2>2 DEF Matches, Payload, Typed, TypeOK
  <2>5. ASSUME OneRequest, NEW d \in Client
        PROVE  ~(d \in unread /\ Matches(d))' /\ ~Payload(d)'
    BY <1>2, <2>3, <2>4, <2>5 DEF Payload
  <2> QED
    BY <1>1, <1>2, <2>1, <2>2, <2>3, <2>5 DEF Alone, OneRequest, Typed, TypeOK
<1>7. AnswerIsCurrent'
  BY <1>1, <1>2 DEF AnswerIsCurrent, Payload, Typed, TypeOK
<1> QED
  BY <1>3, <1>4, <1>5, <1>6, <1>7 DEF CoapInv

LEMMA ReceivedStep ==
  ASSUME CoapInv, NEW c \in Client, Received(c)
  PROVE  CoapInv'
<1> USE TokenFacts
<1>1. Typed /\ TokensAgree /\ Alone /\ AnswerIsCurrent
  BY DEF CoapInv
<1>2. /\ note[c] # None
      /\ note' = [note EXCEPT ![c] = None] /\ asking' = [asking EXCEPT ![c] = None]
      /\ UNCHANGED <<head, next, token, awaits, seq, out, serverVars, unread,
                     msg_in, flags, stuck, network, build, world>>
  BY DEF Received
<1>3. Typed'
  <2>1. /\ note' \in [Client -> Note \cup {None}]
        /\ asking' \in [Client -> Token \cup {None}]
    BY <1>1, <1>2 DEF Typed, TypeOK
  <2> QED
    BY <1>1, <1>2, <2>1 DEF Typed, TypeOK, serverVars
<1>4. ServerWaits' /\ ServerHearsEveryone' /\ RightResource'
  BY <1>2, ServerKept DEF CoapInv
<1>5. TokensAgree'
  BY <1>1, <1>2 DEF Typed, TypeOK, TokensAgree
<1>6. Alone'
  <2>1. Started' = Started /\ Leaving' = Leaving
    BY <1>2 DEF Started, Leaving
  <2>2. \A d \in Client : (Payload(d)' => Payload(d)) /\ Matches(d)' = Matches(d)
    BY <1>1, <1>2 DEF Payload, Matches, Typed, TypeOK
  <2> QED
    BY <1>1, <1>2, <2>1, <2>2 DEF Alone, OneRequest, Typed, TypeOK
<1>7. AnswerIsCurrent'
  BY <1>1, <1>2 DEF AnswerIsCurrent, Payload, Typed, TypeOK
<1> QED
  BY <1>3, <1>4, <1>5, <1>6, <1>7 DEF CoapInv

(* What the engine does without a message of a client leaves them alone.   *)
ClientsKept ==
  /\ UNCHANGED <<clientVars, asking, network, build, world>>
  /\ unread' \cap Client = unread \cap Client
  /\ \A c \in Client : msg_in'[c] = msg_in[c]

LEMMA ClientsKeptStep ==
  ASSUME CoapInv, ClientsKept
  PROVE  TokensAgree' /\ Alone' /\ AnswerIsCurrent'
<1>1. /\ UNCHANGED <<head, next, token, awaits, seq, out, note, asking, network,
                     build, world>>
      /\ \A c \in Client : msg_in'[c] = msg_in[c] /\ (c \in unread' <=> c \in unread)
  BY DEF ClientsKept, clientVars
<1>2. Started' = Started /\ Leaving' = Leaving /\ OneRequest' = OneRequest
  BY <1>1 DEF Started, Leaving, OneRequest
<1>3. \A c \in Client : Payload(c)' = Payload(c) /\ Matches(c)' = Matches(c)
  BY <1>1 DEF Payload, Matches
<1>4. TokensAgree'
  BY <1>1 DEF CoapInv, TokensAgree
<1>5. Alone'
  BY <1>1, <1>2, <1>3 DEF CoapInv, Alone
<1>6. AnswerIsCurrent'
  BY <1>1, <1>3 DEF CoapInv, AnswerIsCurrent
<1> QED
  BY <1>4, <1>5, <1>6

LEMMA TurnIdleStep ==
  ASSUME CoapInv, TurnIdle \/ TurnForever
  PROVE  CoapInv'
<1>1. /\ UNCHANGED <<clientVars, remote, reply, answered, unread, msg_in, asking,
                     network, build, world>>
      /\ flags' = {} /\ stuck' \in {stuck, TRUE}
      /\ \/ UNCHANGED <<resource_demanded, send_len>>
         \/ resource_demanded' = Null /\ send_len' = 0
  BY DEF TurnIdle, TurnForever, BeginTurn, Fresh, serverVars
<1>2. Typed'
  BY <1>1 DEF CoapInv, Typed, TypeOK, clientVars
<1>3. ServerWaits' /\ ServerHearsEveryone' /\ RightResource'
  BY <1>1 DEF CoapInv, ServerWaits, ServerHearsEveryone, RightResource, Proper
<1>4. TokensAgree' /\ Alone' /\ AnswerIsCurrent'
  BY <1>1, ClientsKeptStep DEF ClientsKept
<1> QED
  BY <1>2, <1>3, <1>4 DEF CoapInv

(* What a message of a client may change: its token and what its task is   *)
(* woken with; the other clients keep theirs.                              *)
Hears(c) ==
  /\ c \in unread /\ c \in Started /\ unread' = unread \ {c}
  /\ \/ UNCHANGED <<token, note, out>>
     \/ /\ Matches(c)
        /\ token' \in {token, [token EXCEPT ![c] = 0]}
        /\ \/ UNCHANGED note
           \/ /\ token' = [token EXCEPT ![c] = 0]
              /\ \E what \in {"null", "payload"} :
                   note' = [note EXCEPT ![c] = [what |-> what, answers |-> token[c]]]
        /\ out' \in {out, [out EXCEPT ![c] = Ack]}
  /\ UNCHANGED <<head, next, seq, asking, msg_in, network, build, world>>

LEMMA TurnClientHears ==
  ASSUME CoapInv, NEW c \in Client, TurnClient(c)
  PROVE  Hears(c) /\ awaits' \in [Client -> BOOLEAN]
<1>1. /\ awaits \in [Client -> BOOLEAN] /\ out \in [Client -> Token \cup {Null, Ack}]
      /\ head \in Client \cup {Null}
  BY DEF CoapInv, Typed, TypeOK
<1>2. /\ Recv(c)
      /\ UNCHANGED <<head, next, seq, asking, msg_in, network, build, world>>
  BY DEF TurnClient
<1>3. c \in unread /\ c \in Started /\ unread' = unread \ {c}
  BY <1>1, <1>2, TokenFacts DEF Recv, Second, Started
<1>4. CASE ~Matches(c)
  BY <1>1, <1>2, <1>3, <1>4 DEF TurnClient, Hears
<1>5. CASE Matches(c) /\ ClientAcked(c)
  <2>1. UNCHANGED out /\ awaits' = [awaits EXCEPT ![c] = FALSE]
    BY <1>5 DEF ClientAcked
  <2>2. \/ Tell(c, "null") \/ Tell(c, "payload") \/ UNCHANGED <<token, note>>
        \/ token' = [token EXCEPT ![c] = 0] /\ UNCHANGED note
    BY <1>5 DEF ClientAcked
  <2> QED
    BY <1>1, <1>2, <1>3, <1>5, <2>1, <2>2 DEF Hears, Tell
<1>6. CASE Matches(c) /\ ClientOther(c)
  <2>1. out' \in {out, [out EXCEPT ![c] = Ack]} /\ Tell(c, "null") /\ UNCHANGED awaits
    BY <1>1, <1>6 DEF ClientOther
  <2> QED
    BY <1>1, <1>2, <1>3, <1>6, <2>1 DEF Hears, Tell
<1> QED
  BY <1>4, <1>5, <1>6 DEF TurnClient

LEMMA TurnClientStep ==
  ASSUME CoapInv, NEW c \in Client, TurnClient(c)
  PROVE  CoapInv'
<1> USE TokenFacts
<1>1. Typed /\ TokensAgree /\ Alone /\ AnswerIsCurrent
  BY DEF CoapInv
<1>2. Hears(c) /\ awaits' \in [Client -> BOOLEAN]
  BY TurnClientHears
<1>3. /\ flags' = {} /\ resource_demanded' = Null /\ send_len' = 0
      /\ UNCHANGED <<remote, reply, answered, stuck>>
  BY DEF TurnClient, BeginTurn, Fresh
<1>4. /\ token \in [Client -> Token] /\ note \in [Client -> Note \cup {None}]
      /\ out \in [Client -> Token \cup {Null, Ack}] /\ msg_in[c] \in Answer
      /\ asking \in [Client -> Token \cup {None}]
  BY <1>1, <1>2 DEF Typed, TypeOK, Hears
<1>5. /\ token' \in [Client -> Token] /\ note' \in [Client -> Note \cup {None}]
      /\ out' \in [Client -> Token \cup {Null, Ack}]
  <2>1. \A what \in {"null", "payload"} : [what |-> what, answers |-> token[c]] \in Note
    BY <1>4 DEF Note
  <2> QED
    BY <1>2, <1>4, <2>1 DEF Hears
<1>6. Typed'
  BY <1>1, <1>2, <1>3, <1>5 DEF Typed, TypeOK, Hears
<1>7. ServerWaits' /\ ServerHearsEveryone' /\ RightResource'
  BY <1>2, <1>3 DEF CoapInv, ServerWaits, ServerHearsEveryone, RightResource, Proper, Hears
<1>8. "wrap" \notin world /\ Matches(c) =>
        token[c] # 0 /\ token[c] = asking[c] /\ asking[c] # None /\ note[c] = None
  BY <1>1, <1>2, <1>4 DEF TokensAgree, Matches, Hears
<1>9. TokensAgree'
  BY <1>1, <1>2, <1>4, <1>8 DEF TokensAgree, Hears
<1>10. Alone'
  <2>1. Started' = Started
    BY <1>2 DEF Started, Hears
  <2>2. OneRequest /\ Matches(c) => network = {} /\ Leaving = {}
    BY <1>1, <1>2 DEF Alone, Hears
  <2>3. Leaving' \subseteq Leaving
    BY <1>2, <1>4 DEF Leaving, Hears
  <2>4. \A d \in Client : d # c => /\ Payload(d)' = Payload(d) /\ token'[d] = token[d]
                                   /\ out'[d] = out[d] /\ note'[d] = note[d]
    BY <1>2, <1>4 DEF Payload, Hears
  <2>5. Payload(c)' => Payload(c) \/ Matches(c)
    BY <1>2, <1>4 DEF Payload, Hears
  <2>6. ASSUME OneRequest, Matches(c) PROVE Alone'
    <3>1. network' = {} /\ Leaving' = {}
      BY <1>2, <2>2, <2>3, <2>6 DEF Hears
    <3>2. \A d \in Client : out'[d] \notin Token
      BY <3>1 DEF Leaving
    <3>3. \A d \in Client \ Started : out'[d] = Null /\ note'[d] = None /\ d \notin unread'
      BY <1>1, <1>2, <2>4, <2>6 DEF Alone, Hears
    <3> QED
      BY <1>1, <2>1, <2>6, <3>1, <3>2, <3>3 DEF Alone
  <2>7. ASSUME ~Matches(c) PROVE Alone'
    <3>1. /\ UNCHANGED <<token, note, out, msg_in, network, world>>
          /\ unread' = unread \ {c}
      BY <1>2, <2>7 DEF Hears
    <3> QED
      BY <1>1, <2>1, <3>1 DEF Alone, OneRequest, Payload, Matches, Leaving
  <2>8. OneRequest' = OneRequest
    BY <1>2 DEF OneRequest, Hears
  <2> QED
    BY <2>6, <2>7, <2>8 DEF Alone
<1>11. AnswerIsCurrent'
  BY <1>1, <1>2, <1>4, <1>8 DEF AnswerIsCurrent, Payload, Matches, Hears
<1> QED
  BY <1>6, <1>7, <1>9, <1>10, <1>11 DEF CoapInv

LEMMA TurnServerStep ==
  ASSUME CoapInv, NEW got \in BOOLEAN, NEW put \in BOOLEAN, TurnServer(got, put)
  PROVE  CoapInv'
<1> USE TokenFacts
<1> DEFINE q == msg_in[Server]
<1>1. Typed /\ q \in Request /\ Proper(q) /\ reply = Null
  BY DEF CoapInv, ServerWaits, TurnServer
<1> HIDE DEF q
<1>2. PICK s \in Served(q, got, put) :
        /\ reply' = s.reply
        /\ answered' = [request |-> q, resource |-> s.resource]
        /\ resource_demanded' = s.resource /\ send_len' = s.len
  BY <1>1 DEF TurnServer, q
<1>3. /\ flags' = {} /\ unread' = unread \ {Server}
      /\ msg_in' = [msg_in EXCEPT ![Server] = Null]
      /\ UNCHANGED <<clientVars, remote, stuck, asking, network, build, world>>
      /\ "silent" \notin world => got
  BY DEF TurnServer, BeginTurn
<1>4. Outcome(q, s) /\ (world \cap {"silent", "stray"} = {} => s.reply # Null)
  <2>1. world \cap {"silent", "stray"} = {} => got
    BY <1>3
  <2> QED
    BY <1>1, <2>1, ServedIsRight
<1>5. Typed'
  <2>1. /\ reply' \in Reply \cup {Null} /\ send_len' \in {0, 1}
        /\ resource_demanded' \in Range(Resource) \cup {Null}
        /\ answered' \in [request : Request, resource : Range(Resource) \cup {Null}]
    BY <1>1, <1>2, <1>4 DEF Outcome
  <2>2. /\ msg_in' \in [Listener -> Answer \cup Request \cup {Null}]
        /\ msg_in'[Server] = Null
        /\ \A c \in Client : msg_in'[c] = msg_in[c] /\ (c \in unread' <=> c \in unread)
    BY <1>1, <1>3 DEF Typed, TypeOK, Listener
  <2> QED
    BY <1>1, <1>3, <2>1, <2>2 DEF Typed, TypeOK, clientVars
<1>6. ServerWaits'
  BY <1>3 DEF ServerWaits
<1>7. ServerHearsEveryone'
  BY <1>2, <1>3, <1>4 DEF ServerHearsEveryone
<1>8. RightResource'
  BY <1>2, <1>4 DEF RightResource, Outcome
<1>9. TokensAgree' /\ Alone' /\ AnswerIsCurrent'
  <2>1. \A c \in Client : msg_in'[c] = msg_in[c] /\ (c \in unread' <=> c \in unread)
    BY <1>1, <1>3 DEF Typed, TypeOK, Listener
  <2> QED
    BY <1>3, <2>1, ClientsKeptStep DEF ClientsKept
<1> QED
  BY <1>5, <1>6, <1>7, <1>8, <1>9 DEF CoapInv

(* What a call of net_tick leaves under way.                               *)
LEMMA TickFacts ==
  ASSUME CoapInv, Ticks, NEW kept \in SUBSET network, Departs(kept)
  PROVE  /\ network' \subseteq network \cup Leaving /\ Leaving' = {}
         /\ OneRequest => network' \subseteq Leaving \/ network' \subseteq kept
         /\ OneRequest => \A t, u \in network' : t = u
<1> USE TokenFacts
<1>1. PICK left \in SUBSET Leaving : Travels(left, kept)
  BY DEF Departs
<1>2. network' \subseteq network \cup Leaving
  BY <1>1 DEF Travels
<1>3. Leaving' = {}
  BY DEF Ticks, Leaving
<1>4. OneRequest => network' = left \/ (left = {} /\ network' = kept)
  BY <1>1 DEF Travels, OneRequest
<1>5. OneRequest => \A t, u \in Leaving : t = u
  <2>1. ASSUME OneRequest, NEW c \in Client, NEW d \in Client, out[c] \in Token, out[d] \in Token
        PROVE  c = d
    BY <2>1 DEF CoapInv, Alone
  <2> QED
    BY <2>1 DEF Leaving
<1>6. OneRequest => \A t, u \in network : t = u
  BY DEF CoapInv, Alone
<1> QED
  BY <1>2, <1>3, <1>4, <1>5, <1>6

(* The tokens of the requests under way are not zero.                      *)
LEMMA TickTokens ==
  ASSUME CoapInv, network' \subseteq network \cup Leaving
  PROVE  network' \subseteq Token /\ ("wrap" \notin world => 0 \notin network')
BY DEF CoapInv, Typed, TypeOK, TokensAgree, Leaving

(* What every call of net_tick does to the variables of the clients and of *)
(* the server.                                                             *)
LEMMA TicksKeep ==
  ASSUME Ticks
  PROVE  /\ out' = [c \in Client |-> Null] /\ reply' = Null /\ answered' = Null
         /\ UNCHANGED <<head, next, token, awaits, seq, note, resource_demanded,
                        send_len, stuck, asking, build, world>>
         /\ build = "native" => \A c \in Client : note[c] = None
         /\ Started' = Started /\ \A c \in Client : Payload(c)' = Payload(c)
BY DEF Ticks, Started, Payload

(* As long as no answer comes in, the clients have nothing new to read.    *)
LEMMA TickWithoutAnswer ==
  ASSUME CoapInv, Ticks, Departs(network), unread' \cap Client = unread \cap Client,
         \A c \in Client : msg_in'[c] = msg_in[c]
  PROVE  TokensAgree' /\ Alone' /\ AnswerIsCurrent'
<1> USE TokenFacts
<1>1. /\ network' \subseteq network \cup Leaving /\ Leaving' = {}
      /\ OneRequest => network' \subseteq Leaving \/ network' \subseteq network
      /\ OneRequest => \A t, u \in network' : t = u
  BY TickFacts
<1>2. /\ out' = [c \in Client |-> Null]
      /\ UNCHANGED <<token, seq, note, asking, build, world>>
      /\ Started' = Started /\ \A c \in Client : Payload(c)' = Payload(c)
  BY TicksKeep
<1>3. \A c \in Client : /\ msg_in'[c] = msg_in[c] /\ (c \in unread' <=> c \in unread)
                        /\ Matches(c)' = Matches(c)
  BY <1>2 DEF Matches
<1>4. "wrap" \notin world => 0 \notin network'
  BY <1>1, TickTokens
<1>5. TokensAgree'
  BY <1>2, <1>3, <1>4 DEF CoapInv, TokensAgree
<1>6. Alone'
  <2>1. OneRequest' = OneRequest
    BY <1>2 DEF OneRequest
  <2>2. ASSUME OneRequest, NEW c \in Client,
               (c \in unread' /\ Matches(c)') \/ Payload(c)'
        PROVE  network' = {}
    <3>1. network = {} /\ Leaving = {}
      BY <1>2, <1>3, <2>2 DEF CoapInv, Alone
    <3> QED
      BY <1>1, <3>1
  <2>3. \A c \in Client : out'[c] = Null
    BY <1>2
  <2>4. ASSUME OneRequest
        PROVE  /\ \A c, d \in Started' : c = d
               /\ \A c \in Client \ Started' : note'[c] = None /\ c \notin unread'
    BY <1>2, <1>3, <2>4 DEF CoapInv, Alone
  <2> QED
    BY <1>1, <2>1, <2>2, <2>3, <2>4 DEF Alone
<1>7. AnswerIsCurrent'
  BY <1>2, <1>3 DEF CoapInv, AnswerIsCurrent
<1> QED
  BY <1>5, <1>6, <1>7

LEMMA TickQuietStep ==
  ASSUME CoapInv, TickQuiet
  PROVE  CoapInv'
<1> USE TokenFacts
<1>1. Typed /\ Ticks /\ Departs(network)
  BY DEF CoapInv, TickQuiet
<1>2. remote' = HeardBy /\ UNCHANGED <<unread, msg_in, flags>>
  BY DEF TickQuiet
<1>3. network' \subseteq Token
  BY <1>1, TickFacts, TickTokens
<1>4. Typed'
  BY <1>1, <1>2, <1>3, TicksKeep DEF Typed, TypeOK, HeardBy
<1>5. ServerWaits' /\ ServerHearsEveryone' /\ RightResource'
  BY <1>1, <1>2, TicksKeep DEF CoapInv, ServerWaits, ServerHearsEveryone, RightResource, HeardBy,
     Proper
<1>6. TokensAgree' /\ Alone' /\ AnswerIsCurrent'
  BY <1>1, <1>2, TickWithoutAnswer
<1> QED
  BY <1>4, <1>5, <1>6 DEF CoapInv

LEMMA TickRequestStep ==
  ASSUME CoapInv, NEW p \in Peer, NEW q \in Request, TickRequest(p, q)
  PROVE  CoapInv'
<1> USE TokenFacts
<1>1. Typed /\ Ticks /\ Departs(network) /\ Proper(q)
  BY DEF CoapInv, TickRequest
<1>2. /\ remote' = p /\ msg_in' = [msg_in EXCEPT ![Server] = q]
      /\ unread' = unread \cup {Server} /\ flags' = flags \cup {"NETWORK"}
  BY DEF TickRequest
<1>3. network' \subseteq Token
  BY <1>1, TickFacts, TickTokens
<1>4. /\ msg_in' \in [Listener -> Answer \cup Request \cup {Null}] /\ msg_in'[Server] = q
      /\ \A c \in Client : msg_in'[c] = msg_in[c] /\ (c \in unread' <=> c \in unread)
  BY <1>1, <1>2 DEF Typed, TypeOK, Listener
<1>5. Typed'
  BY <1>1, <1>2, <1>3, <1>4, TicksKeep DEF Typed, TypeOK, Listener
<1>6. ServerWaits' /\ ServerHearsEveryone' /\ RightResource'
  <2>1. Proper(q)'
    BY <1>1, TicksKeep DEF Proper
  <2> QED
    BY <1>1, <1>2, <1>4, <2>1, TicksKeep DEF ServerWaits, ServerHearsEveryone, RightResource
<1>7. TokensAgree' /\ Alone' /\ AnswerIsCurrent'
  BY <1>1, <1>4, TickWithoutAnswer
<1> QED
  BY <1>5, <1>6, <1>7 DEF CoapInv

(* An answer comes in for the first client.  Where it may be one of one    *)
(* request only, nothing is left under way if it is the one of the current *)
(* request.                                                                *)
LEMMA TickAnswerStep ==
  ASSUME CoapInv, NEW a \in Answers, TickAnswer(a)
  PROVE  CoapInv'
<1> USE TokenFacts
<1>1. /\ Typed /\ TokensAgree /\ Alone /\ AnswerIsCurrent
      /\ Ticks /\ Departs(network \ {a.token})
      /\ head \in Client /\ head \in Started
  BY DEF CoapInv, Typed, TypeOK, TickAnswer, Started
<1>2. /\ remote' = HeardBy /\ msg_in' = [msg_in EXCEPT ![head] = a]
      /\ unread' = unread \cup {head} /\ flags' = flags \cup {"NETWORK"}
  BY DEF TickAnswer
<1>3. a \in Answer /\ a.token \in network
  <2>1. network \subseteq Token
    BY <1>1 DEF Typed, TypeOK
  <2> QED
    BY <2>1 DEF Answers, Answer, Type
<1>4. /\ network' \subseteq network \cup Leaving /\ Leaving' = {}
      /\ OneRequest => network' \subseteq Leaving \/ network' \subseteq network \ {a.token}
      /\ OneRequest => \A t, u \in network' : t = u
  BY <1>1, TickFacts
<1>5. network' \subseteq Token /\ ("wrap" \notin world => 0 \notin network')
  BY <1>4, TickTokens
<1>6. /\ msg_in' \in [Listener -> Answer \cup Request \cup {Null}] /\ msg_in'[head] = a
      /\ msg_in'[Server] = msg_in[Server] /\ (Server \in unread' <=> Server \in unread)
      /\ \A c \in Client : c # head =>
           msg_in'[c] = msg_in[c] /\ (c \in unread' <=> c \in unread)
  BY <1>1, <1>2, <1>3 DEF Typed, TypeOK, Listener
<1>7. Typed'
  BY <1>1, <1>2, <1>3, <1>5, <1>6, TicksKeep DEF Typed, TypeOK, HeardBy, Listener
<1>8. ServerWaits' /\ ServerHearsEveryone' /\ RightResource'
  <2>1. \A q : Proper(q)' = Proper(q)
    BY <1>1, TicksKeep DEF Proper
  <2> QED
    BY <1>1, <1>2, <1>6, <2>1, TicksKeep
    DEF CoapInv, ServerWaits, ServerHearsEveryone, RightResource, HeardBy
<1>9. TokensAgree'
  BY <1>1, <1>3, <1>5, <1>6, TicksKeep DEF TokensAgree
<1>10. Alone'
  <2>1. OneRequest' = OneRequest
    BY <1>1, TicksKeep DEF OneRequest
  <2>2. ASSUME OneRequest PROVE ~Payload(head) /\ \A c \in Client : c # head => c \notin Started
    BY <1>1, <1>3, <2>2 DEF Alone
  <2>3. ASSUME OneRequest, Matches(head)' PROVE network' = {}
    <3>1. a.token = token[head]
      BY <1>1, <1>6, <2>3, TicksKeep DEF Matches
    <3>2. \A c \in Client : out[c] \in Token => c = head /\ out[c] = token[c] /\ out[c] \notin network
      BY <1>1, <2>2, <2>3 DEF Alone
    <3>3. Leaving = {}
      BY <1>3, <3>1, <3>2 DEF Leaving
    <3>4. network \ {a.token} = {}
      BY <1>1, <1>3, <2>3 DEF Alone
    <3> QED
      BY <1>4, <2>3, <3>3, <3>4
  <2>4. ASSUME OneRequest, NEW c \in Client, c # head
        PROVE  c \notin Started' /\ note'[c] = None /\ c \notin unread' /\ ~Payload(c)'
    BY <1>1, <1>6, <2>2, <2>4, TicksKeep DEF Alone, Payload
  <2>5. OneRequest => ~Payload(head)'
    BY <1>1, <2>2, TicksKeep
  <2>6. \A c \in Client : out'[c] = Null
    BY <1>1, TicksKeep
  <2>7. OneRequest => \A c, d \in Started' : c = d
    BY <1>1, TicksKeep DEF Alone
  <2>8. head \in Started'
    BY <1>1, TicksKeep
  <2>9. ASSUME OneRequest, NEW c \in Client, (c \in unread /\ Matches(c))' \/ Payload(c)'
        PROVE  network' = {} /\ Leaving' = {}
    <3>1. c = head
      BY <2>4, <2>9
    <3> QED
      BY <1>1, <1>4, <2>3, <2>5, <2>9, <3>1, TicksKeep DEF Matches, Payload
  <2>10. ASSUME OneRequest, NEW c \in Client \ Started'
         PROVE  out'[c] = Null /\ note'[c] = None /\ c \notin unread'
    BY <2>4, <2>6, <2>8, <2>10
  <2> QED
    BY <1>4, <2>1, <2>6, <2>7, <2>9, <2>10 DEF Alone
<1>11. AnswerIsCurrent'
  <2>1. ASSUME "wrap" \notin world, build = "native" \/ world \cap {"late", "clients"} = {},
               Payload(head)
        PROVE  FALSE
    <3>1. CASE build = "native"
      BY <1>1, <2>1, <3>1, TicksKeep DEF Payload
    <3>2. CASE OneRequest
      BY <1>1, <1>3, <2>1, <3>2 DEF Alone
    <3> QED
      BY <2>1, <3>1, <3>2 DEF OneRequest
  <2> QED
    BY <1>1, <1>6, <2>1, TicksKeep DEF AnswerIsCurrent
<1> QED
  BY <1>7, <1>8, <1>9, <1>10, <1>11 DEF CoapInv

-----------------------------------------------------------------------------
LEMMA CoapInvInit == Init => CoapInv
<1> SUFFICES ASSUME Init PROVE CoapInv
  OBVIOUS
<1> USE TokenFacts
<1>1. Typed
  BY DEF Init, Typed, TypeOK, Listener
<1>2. ServerWaits /\ ServerHearsEveryone /\ RightResource
  BY DEF Init, ServerWaits, ServerHearsEveryone, RightResource
<1>3. TokensAgree
  BY DEF Init, TokensAgree
<1>4. Started = {} /\ Leaving = {} /\ \A c \in Client : ~Payload(c)
  BY DEF Init, Started, Leaving, Payload
<1>5. Alone
  BY <1>4 DEF Init, Alone, Leaving
<1>6. AnswerIsCurrent
  BY <1>4 DEF AnswerIsCurrent
<1> QED
  BY <1>1, <1>2, <1>3, <1>5, <1>6 DEF CoapInv

LEMMA CoapInvStep == CoapInv /\ [Next]_coapVars => CoapInv'
<1> SUFFICES ASSUME CoapInv, [Next]_coapVars PROVE CoapInv'
  OBVIOUS
<1>1. ASSUME NEW c \in Client, StartClient(c) \/ Get(c) \/ Received(c) \/ TurnClient(c)
      PROVE  CoapInv'
  BY <1>1, StartClientStep, GetStep, ReceivedStep, TurnClientStep
<1>2. CASE TurnIdle \/ TurnForever
  BY <1>2, TurnIdleStep
<1>3. ASSUME NEW got \in BOOLEAN, NEW put \in BOOLEAN, TurnServer(got, put) PROVE CoapInv'
  BY <1>3, TurnServerStep
<1>4. CASE NetTick
  BY <1>4, TickQuietStep, TickAnswerStep, TickRequestStep DEF NetTick
<1>5. CASE UNCHANGED coapVars
  <2>1. /\ UNCHANGED <<clientVars, serverVars, unread, msg_in, flags, stuck, asking, network,
                       build, world>>
    BY <1>5 DEF coapVars
  <2>2. Typed'
    BY <2>1 DEF CoapInv, Typed, TypeOK, clientVars, serverVars
  <2>3. ServerWaits' /\ ServerHearsEveryone' /\ RightResource'
    BY <2>1, ServerKept DEF CoapInv
  <2>4. TokensAgree' /\ Alone' /\ AnswerIsCurrent'
    BY <2>1, ClientsKeptStep DEF ClientsKept
  <2> QED
    BY <2>2, <2>3, <2>4 DEF CoapInv
<1> QED
  BY <1>1, <1>2, <1>3, <1>4, <1>5 DEF Next, Turn

LEMMA CoapInvariant == Spec => []CoapInv
  BY CoapInvInit, CoapInvStep, PTL DEF Spec

(* Every variable of the engine stays in its type, and a client that has   *)
(* something unread has an answer in its buffer.                           *)
THEOREM CoapTypeCorrect == Spec => []TypeOK
<1>1. CoapInv => TypeOK
  BY DEF CoapInv, Typed
<1> QED
  BY <1>1, CoapInvariant, PTL

(* The server's listener is free for every peer unless it owes one of them *)
(* an answer, whatever the requests and the resources are, if the requests *)
(* are of those that are answered.                                         *)
THEOREM ServerStaysOpen == Spec => []ServerHearsEveryone
<1>1. CoapInv => ServerHearsEveryone
  BY DEF CoapInv
<1> QED
  BY <1>1, CoapInvariant, PTL

(* A request is served by the resource that its whole path names, in every *)
(* tree of resources and for a path of any length.                         *)
THEOREM PathsAreServed == Spec => []RightResource
<1>1. CoapInv => RightResource
  BY DEF CoapInv
<1> QED
  BY <1>1, CoapInvariant, PTL

(* A task that is woken with a payload finds the answer to its request in  *)
(* the buffer, on the native loop with any number of clients, and on the   *)
(* boards with one client whose remote end answers in time.                *)
THEOREM AnswersAreCurrent == Spec => []AnswerIsCurrent
<1>1. CoapInv => AnswerIsCurrent
  BY DEF CoapInv
<1> QED
  BY <1>1, CoapInvariant, PTL

-----------------------------------------------------------------------------
(* What the tasks see of the engine.                                       *)

LEMMA ExchangeStep ==
  ASSUME CoapInv, Next
  PROVE  [EX!ExNext]_(EX!exchangeVars)
<1> USE TokenFacts
<1>1. /\ asking \in [Client -> Token \cup {None}] /\ token \in [Client -> Token]
      /\ note \in [Client -> Note \cup {None}] /\ seq \in Token /\ TokensAgree
      /\ \A c \in Client : c \in unread => msg_in[c] \in Answer
  BY DEF CoapInv, Typed, TypeOK
<1>2. ASSUME UNCHANGED <<asking, note, world>> PROVE UNCHANGED <<Asked, Told>>
  BY <1>2 DEF Asked, Told, Regular
<1>3. ASSUME ~Regular, UNCHANGED world PROVE UNCHANGED <<Asked, Told>>
  BY <1>3 DEF Asked, Told, Regular
<1>4. UNCHANGED <<Asked, Told>> => [EX!ExNext]_(EX!exchangeVars)
  BY DEF EX!exchangeVars
<1>5. ASSUME NEW c \in Client, Get(c) PROVE [EX!ExNext]_(EX!exchangeVars)
  <2>1. note[c] = None /\ asking' = [asking EXCEPT ![c] = seq] /\ UNCHANGED <<note, world>>
    BY <1>5 DEF Get
  <2>2. CASE Regular
    <3>1. asking[c] = None
      BY <1>5, <2>2 DEF Get, Regular
    <3>2. /\ Asked = [d \in Client |-> asking[d]] /\ Asked' = [d \in Client |-> asking'[d]]
          /\ Told' = Told /\ Told[c] = None
      BY <2>1, <2>2 DEF Asked, Told, Regular
    <3>3. Asked[c] = None /\ Asked' = [Asked EXCEPT ![c] = seq]
      BY <1>1, <2>1, <3>1, <3>2
    <3>4. EX!Ask(c, seq)
      BY <3>2, <3>3 DEF EX!Ask
    <3> QED
      BY <1>1, <3>4 DEF EX!ExNext
  <2> QED
    BY <1>3, <1>4, <2>1, <2>2
<1>6. ASSUME NEW c \in Client, Received(c) PROVE [EX!ExNext]_(EX!exchangeVars)
  <2>1. /\ note[c] # None /\ UNCHANGED world
        /\ asking' = [asking EXCEPT ![c] = None] /\ note' = [note EXCEPT ![c] = None]
    BY <1>6 DEF Received
  <2>2. CASE Regular
    <3>1. note[c].answers = asking[c] /\ asking[c] # None
      BY <1>1, <2>1, <2>2 DEF TokensAgree, Regular
    <3>2. /\ Asked[c] = asking[c] /\ Told[c] = note[c].answers
          /\ Asked = [d \in Client |-> asking[d]] /\ Asked' = [d \in Client |-> asking'[d]]
          /\ Told = [d \in Client |-> IF note[d] # None THEN note[d].answers ELSE None]
          /\ Told' = [d \in Client |-> IF note'[d] # None THEN note'[d].answers ELSE None]
      BY <2>1, <2>2 DEF Asked, Told, Regular
    <3>3. Asked' = [Asked EXCEPT ![c] = None]
      BY <1>1, <2>1, <3>2
    <3>4. Told' = [Told EXCEPT ![c] = None]
      BY <1>1, <2>1, <3>2
    <3>5. EX!Take(c)
      BY <3>1, <3>2, <3>3, <3>4 DEF EX!Take
    <3> QED
      BY <3>5 DEF EX!ExNext
  <2> QED
    BY <1>3, <1>4, <2>1, <2>2
<1>7. ASSUME NEW c \in Client, TurnClient(c) PROVE [EX!ExNext]_(EX!exchangeVars)
  <2>1. Hears(c)
    BY <1>7, TurnClientHears
  <2>2. UNCHANGED <<asking, world>>
    BY <2>1 DEF Hears
  <2>3. CASE Regular /\ ~UNCHANGED note
    <3>1. PICK what \in {"null", "payload"} :
            note' = [note EXCEPT ![c] = [what |-> what, answers |-> token[c]]]
      BY <2>1, <2>3 DEF Hears
    <3>2. token[c] # 0 /\ token[c] = asking[c] /\ asking[c] # None /\ note[c] = None
      <4>1. Matches(c) /\ c \in unread
        BY <2>1, <2>3 DEF Hears
      <4> QED
        BY <1>1, <2>3, <4>1 DEF TokensAgree, Matches, Regular
    <3> DEFINE news == [what |-> what, answers |-> token[c]]
    <3>3. news # None /\ news.answers = asking[c]
      <4>1. news \in Note
        BY <1>1 DEF Note
      <4> QED
        BY <3>2, <4>1, MessageAssumption
    <3> HIDE DEF news
    <3>4. note'[c] = news /\ \A d \in Client : d # c => note'[d] = note[d]
      BY <1>1, <3>1 DEF news
    <3>5. /\ Asked[c] = asking[c] /\ Told[c] = None /\ Asked' = Asked
          /\ Told = [d \in Client |-> IF note[d] # None THEN note[d].answers ELSE None]
          /\ Told' = [d \in Client |-> IF note'[d] # None THEN note'[d].answers ELSE None]
      BY <2>2, <2>3, <3>2 DEF Asked, Told, Regular
    <3>6. Told' = [Told EXCEPT ![c] = Asked[c]]
      BY <3>3, <3>4, <3>5
    <3>7. EX!Tell(c)
      BY <3>2, <3>5, <3>6 DEF EX!Tell
    <3> QED
      BY <3>7 DEF EX!ExNext
  <2> QED
    BY <1>2, <1>3, <1>4, <2>2, <2>3
<1>8. ASSUME NEW c \in Client, StartClient(c) PROVE UNCHANGED <<asking, note, world>>
  BY <1>8 DEF StartClient
<1>9. ASSUME TurnIdle \/ TurnForever \/ NetTick PROVE UNCHANGED <<asking, note, world>>
  BY <1>9 DEF TurnIdle, TurnForever, NetTick, TickQuiet, TickAnswer, TickRequest, Ticks, clientVars
<1>10. ASSUME NEW got \in BOOLEAN, NEW put \in BOOLEAN, TurnServer(got, put)
       PROVE  UNCHANGED <<asking, note, world>>
  BY <1>10 DEF TurnServer, clientVars
<1> QED
  BY <1>2, <1>4, <1>5, <1>6, <1>7, <1>8, <1>9, <1>10 DEF Next, Turn

(* The engine implements the exchange that it promises: a task that asks   *)
(* is told once for each request, and of the answer to that request.       *)
THEOREM CoapImplementsExchange == Spec => ImplementsExchange
<1>1. Init => EX!ExInit
  <2> SUFFICES ASSUME Init PROVE EX!ExInit
    OBVIOUS
  <2>1. Asked = [c \in Client |-> None] /\ Told = [c \in Client |-> None]
    BY DEF Init, Asked, Told
  <2> QED
    BY <2>1 DEF EX!ExInit
<1>2. UNCHANGED coapVars => UNCHANGED EX!exchangeVars
  BY DEF coapVars, clientVars, EX!exchangeVars, Asked, Told, Regular
<1>3. CoapInv /\ [Next]_coapVars => [EX!ExNext]_(EX!exchangeVars)
  BY <1>2, ExchangeStep
<1> QED
  BY <1>1, <1>3, CoapInvariant, PTL DEF Spec, ImplementsExchange, EX!ExSpec
=============================================================================
