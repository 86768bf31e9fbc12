----------------------------- MODULE ConfigProofs -----------------------------
(***************************************************************************)
(* Theorems about Config: for any options and values, any texts, however   *)
(* long, and any number of failures.                                       *)
(***************************************************************************)
EXTENDS Config, TLAPS, WellFoundedInduction, FunctionTheorems, FiniteSetTheorems

-----------------------------------------------------------------------------
(* Texts: what the code does to the lines, and what it does not change.    *)

(* A set of numbers that is not empty has a least element.                 *)
LEMMA LeastElement ==
  ASSUME NEW S \in SUBSET Nat, S # {}
  PROVE  \E m \in S : \A n \in S : m <= n
  <1>1. \E m \in S : \A n \in S : ~(<<n, m>> \in OpToRel(<, Nat))
    BY NatLessThanWellFounded, WFMin, Zenon
  <1>2. PICK m \in S : \A n \in S : ~(<<n, m>> \in OpToRel(<, Nat))
    BY <1>1
  <1>3. ASSUME NEW n \in S PROVE m <= n
    <2>1. n \in Nat /\ m \in Nat
      OBVIOUS
    <2>2. ~(n < m)
      BY <1>2, <2>1 DEF OpToRel
    <2> QED BY <2>1, <2>2
  <1> QED BY <1>3

(* Of the assignments to an option there is a last one.                    *)
LEMMA LastAssignment ==
  ASSUME NEW t \in Seq(Entry), NEW k \in Key, Live(t, k) # {}
  PROVE  \E i \in Live(t, k) : \A j \in Live(t, k) : j <= i
  <1> DEFINE Back == {Len(t) - i : i \in Live(t, k)}
  <1>1. Live(t, k) \subseteq 1..Len(t) /\ Len(t) \in Nat
    BY DEF Live
  <1>2. Back \in SUBSET Nat /\ Back # {}
    BY <1>1
  <1>3. PICK m \in Back : \A n \in Back : m <= n
    BY <1>2, LeastElement, Zenon
  <1>4. PICK i \in Live(t, k) : m = Len(t) - i
    BY <1>3
  <1>5. ASSUME NEW j \in Live(t, k) PROVE j <= i
    <2>1. Len(t) - i <= Len(t) - j
      BY <1>3, <1>4
    <2> QED BY <1>1, <2>1
  <1> QED BY <1>5

(* What Meaning says of an option: nothing, or the value of the last       *)
(* assignment.                                                             *)
LEMMA MeaningOf ==
  ASSUME NEW t \in Seq(Entry), NEW k \in Key
  PROVE  /\ Live(t, k) = {} => Meaning(t)[k] = None
         /\ \A i \in Live(t, k) :
              (\A j \in Live(t, k) : j <= i) => Meaning(t)[k] = t[i].value
  <1>1. Live(t, k) \subseteq Nat
    BY DEF Live
  <1>2. ASSUME NEW i \in Live(t, k), \A j \in Live(t, k) : j <= i
        PROVE  Max(Live(t, k)) = i
    BY <1>1, <1>2 DEF Max
  <1> QED BY <1>2 DEF Meaning

(* A text means an option to have a value, or says nothing of it.          *)
LEMMA MeaningType ==
  ASSUME NEW t \in Seq(Entry)
  PROVE  Meaning(t) \in [Key -> Value \cup {Bad, None}]
  <1>1. ASSUME NEW k \in Key PROVE Meaning(t)[k] \in Value \cup {Bad, None}
    <2>1. CASE Live(t, k) = {}
      BY <2>1, MeaningOf
    <2>2. CASE Live(t, k) # {}
      <3>1. PICK i \in Live(t, k) : \A j \in Live(t, k) : j <= i
        BY <2>2, LastAssignment
      <3>2. t[i] \in Entry
        BY DEF Live
      <3> QED BY <3>1, <3>2, MeaningOf DEF Entry
    <2> QED BY <2>1, <2>2
  <1> QED BY <1>1 DEF Meaning

(* A text as a function.                                                   *)
LEMMA TextIsFunction ==
  ASSUME NEW t \in Seq(Entry)
  PROVE  Len(t) \in Nat /\ DOMAIN t = 1..Len(t) /\ t \in [1..Len(t) -> Entry]
  OBVIOUS

(* A function on 1..n with entries as values is a text.                    *)
LEMMA FunctionIsText ==
  ASSUME NEW n \in Nat, NEW f \in [1..n -> Entry]
  PROVE  f \in Seq(Entry) /\ Len(f) = n /\ DOMAIN f = 1..n
  OBVIOUS

(* A line break before a continued assignment changes no value and hides   *)
(* no assignment.                                                          *)
LEMMA SplitKeeps ==
  ASSUME NEW t \in Seq(Entry)
  PROVE  /\ Split(t) \in Seq(Entry) /\ Len(Split(t)) = Len(t)
         /\ \A i \in 1..Len(t) :
              /\ Split(t)[i].key = t[i].key /\ Split(t)[i].value = t[i].value
              /\ Split(t)[i].form =
                   IF t[i].form = "joined" THEN "line" ELSE t[i].form
         /\ \A k \in Key : Live(Split(t), k) = Live(t, k)
  <1>1. Len(t) \in Nat /\ DOMAIN t = 1..Len(t) /\ \A i \in 1..Len(t) : t[i] \in Entry
    OBVIOUS
  <1>2. Split(t) \in [1..Len(t) -> Entry]
    BY <1>1 DEF Split, Entry
  <1>3. Split(t) \in Seq(Entry) /\ Len(Split(t)) = Len(t) /\ DOMAIN Split(t) = 1..Len(t)
    BY <1>1, <1>2, FunctionIsText
  <1>4. ASSUME NEW i \in 1..Len(t)
        PROVE  /\ Split(t)[i].key = t[i].key /\ Split(t)[i].value = t[i].value
               /\ Split(t)[i].form = IF t[i].form = "joined" THEN "line" ELSE t[i].form
    BY <1>1 DEF Split, Entry
  <1>5. ASSUME NEW k \in Key PROVE Live(Split(t), k) = Live(t, k)
    BY <1>1, <1>3, <1>4 DEF Live, Assigns
  <1> QED BY <1>3, <1>4, <1>5

(* Of each option the last assignment, and no other, stays.                *)
LEMMA DeduplicateKeeps ==
  ASSUME NEW t \in Seq(Entry)
  PROVE  /\ Deduplicate(t) \in Seq(Entry) /\ Len(Deduplicate(t)) = Len(t)
         /\ \A i \in 1..Len(t) :
              /\ Deduplicate(t)[i].key = t[i].key
              /\ Deduplicate(t)[i].value = t[i].value
              /\ Deduplicate(t)[i].form =
                   IF Assigns(t[i]) /\ Stale(t, i) THEN "comment" ELSE t[i].form
         /\ \A k \in Key : Live(Deduplicate(t), k) =
              {i \in Live(t, k) : \A j \in Live(t, k) : j <= i}
  <1>1. Len(t) \in Nat /\ DOMAIN t = 1..Len(t) /\ \A i \in 1..Len(t) : t[i] \in Entry
    OBVIOUS
  <1>2. Deduplicate(t) \in [1..Len(t) -> Entry]
    BY <1>1 DEF Deduplicate, Entry
  <1>3. /\ Deduplicate(t) \in Seq(Entry) /\ Len(Deduplicate(t)) = Len(t)
        /\ DOMAIN Deduplicate(t) = 1..Len(t)
    BY <1>1, <1>2, FunctionIsText
  <1>4. ASSUME NEW i \in 1..Len(t)
        PROVE  /\ Deduplicate(t)[i].key = t[i].key
               /\ Deduplicate(t)[i].value = t[i].value
               /\ Deduplicate(t)[i].form =
                    IF Assigns(t[i]) /\ Stale(t, i) THEN "comment" ELSE t[i].form
    BY <1>1 DEF Deduplicate, Entry
  <1>5. ASSUME NEW k \in Key
        PROVE  Live(Deduplicate(t), k) = {i \in Live(t, k) : \A j \in Live(t, k) : j <= i}
    <2>1. Live(t, k) = {i \in 1..Len(t) : t[i].key = k /\ Assigns(t[i])}
      BY <1>1 DEF Live
    <2>2. ASSUME NEW i \in 1..Len(t), t[i].key = k
          PROVE  Stale(t, i) <=> \E j \in Live(t, k) : ~(j <= i)
      BY <2>1, <2>2 DEF Stale
    <2>3. Live(Deduplicate(t), k) =
            {i \in 1..Len(t) : t[i].key = k /\ ~Stale(t, i) /\ Assigns(t[i])}
      BY <1>3, <1>4 DEF Live, Assigns
    <2> QED BY <2>1, <2>2, <2>3
  <1> QED BY <1>3, <1>4, <1>5

(* The lines that the repair leaves active are the last assignments.       *)
LEMMA RepairedShape ==
  ASSUME NEW t \in Seq(Entry)
  PROVE  /\ Repaired(t) \in Seq(Entry) /\ Len(Repaired(t)) = Len(t)
         /\ \A i \in 1..Len(t) :
              /\ Repaired(t)[i].key = t[i].key /\ Repaired(t)[i].value = t[i].value
              /\ Repaired(t)[i].form # "joined"
         /\ \A k \in Key : Live(Repaired(t), k) =
              {i \in Live(t, k) : \A j \in Live(t, k) : j <= i}
  <1> DEFINE s == Split(t)
  <1>1. /\ s \in Seq(Entry) /\ Len(s) = Len(t)
        /\ \A i \in 1..Len(t) : /\ s[i].key = t[i].key /\ s[i].value = t[i].value
                                /\ s[i].form # "joined"
        /\ \A k \in Key : Live(s, k) = Live(t, k)
    BY SplitKeeps
  <1>2. /\ Deduplicate(s) \in Seq(Entry) /\ Len(Deduplicate(s)) = Len(s)
        /\ \A i \in 1..Len(s) :
             /\ Deduplicate(s)[i].key = s[i].key
             /\ Deduplicate(s)[i].value = s[i].value
             /\ Deduplicate(s)[i].form =
                  IF Assigns(s[i]) /\ Stale(s, i) THEN "comment" ELSE s[i].form
        /\ \A k \in Key : Live(Deduplicate(s), k) =
             {i \in Live(s, k) : \A j \in Live(s, k) : j <= i}
    BY <1>1, DeduplicateKeeps
  <1>3. Repaired(t) = Deduplicate(s)
    BY DEF Repaired
  <1> HIDE DEF s
  <1> QED BY <1>1, <1>2, <1>3

(* read_and_repair changes what no option is set to: whatever an older     *)
(* release or an editor left in the file, the repaired text says of each   *)
(* option what the last assignment of the old one said.                    *)
THEOREM RepairKeeps ==
  ASSUME NEW t \in Seq(Entry)
  PROVE  Repaired(t) \in Seq(Entry) /\ Meaning(Repaired(t)) = Meaning(t)
  <1> DEFINE r == Repaired(t)
  <1>1. /\ r \in Seq(Entry) /\ Len(r) = Len(t)
        /\ \A i \in 1..Len(t) : r[i].value = t[i].value
        /\ \A k \in Key : Live(r, k) = {i \in Live(t, k) : \A j \in Live(t, k) : j <= i}
    BY RepairedShape
  <1> HIDE DEF r
  <1>2. ASSUME NEW k \in Key PROVE Meaning(r)[k] = Meaning(t)[k]
    <2>1. CASE Live(t, k) = {}
      <3>1. Live(r, k) = {}
        BY <1>1, <2>1
      <3> QED BY <1>1, <2>1, <3>1, MeaningOf
    <2>2. CASE Live(t, k) # {}
      <3>1. PICK i \in Live(t, k) : \A j \in Live(t, k) : j <= i
        BY <2>2, LastAssignment
      <3>2. i \in Live(r, k) /\ \A j \in Live(r, k) : j <= i
        BY <1>1, <3>1
      <3>3. r[i].value = t[i].value
        BY <1>1 DEF Live
      <3> QED BY <1>1, <3>1, <3>2, <3>3, MeaningOf
    <2> QED BY <2>1, <2>2
  <1>3. Meaning(r) = Meaning(t)
    BY <1>2 DEF Meaning
  <1> QED BY <1>1, <1>3 DEF r

(* The repair has nothing to do.                                           *)
Clean(t) == Repaired(t) = t

(* A clean text is one in which nothing continues a line and no option is  *)
(* assigned twice.                                                         *)
LEMMA CleanShape ==
  ASSUME NEW t \in Seq(Entry)
  PROVE  Clean(t) <=> /\ \A i \in 1..Len(t) : t[i].form # "joined"
                      /\ \A k \in Key : \A i, j \in Live(t, k) : i = j
  <1>1. /\ \A i \in 1..Len(t) : Repaired(t)[i].form # "joined"
        /\ \A k \in Key : Live(Repaired(t), k) =
             {i \in Live(t, k) : \A j \in Live(t, k) : j <= i}
    BY RepairedShape
  <1>2. DOMAIN t = 1..Len(t) /\ Len(t) \in Nat /\ \A i \in 1..Len(t) : t[i] \in Entry
    OBVIOUS
  <1>3. \A k \in Key : Live(t, k) \subseteq Nat
    BY <1>2 DEF Live
  <1>4. ASSUME Clean(t)
        PROVE  /\ \A i \in 1..Len(t) : t[i].form # "joined"
               /\ \A k \in Key : \A i, j \in Live(t, k) : i = j
    <2>1. \A k \in Key : \A i, j \in Live(t, k) : j <= i
      BY <1>1, <1>4 DEF Clean
    <2>2. ASSUME NEW k \in Key, NEW i \in Live(t, k), NEW j \in Live(t, k) PROVE i = j
      <3>1. i \in Nat /\ j \in Nat /\ i <= j /\ j <= i
        BY <1>3, <2>1
      <3> QED BY <3>1
    <2> QED BY <1>1, <1>4, <2>2 DEF Clean
  <1>5. ASSUME \A i \in 1..Len(t) : t[i].form # "joined",
               \A k \in Key : \A i, j \in Live(t, k) : i = j
        PROVE  Clean(t)
    <2>1. Split(t) = [i \in 1..Len(t) |-> t[i]]
      BY <1>2, <1>5 DEF Split
    <2>2. Split(t) = t
      BY <1>2, <2>1, TextIsFunction
    <2>3. ASSUME NEW i \in 1..Len(t) PROVE ~(Assigns(t[i]) /\ Stale(t, i))
      <3>1. ASSUME Stale(t, i), Assigns(t[i]) PROVE FALSE
        <4>1. PICK j \in Live(t, t[i].key) : j > i
          BY <3>1 DEF Stale
        <4>2. i \in Live(t, t[i].key) /\ t[i].key \in Key
          BY <1>2, <3>1 DEF Live, Entry
        <4>3. i = j
          BY <1>5, <4>1, <4>2
        <4> QED BY <1>3, <4>1, <4>2, <4>3
      <3> QED BY <3>1
    <2>4. Deduplicate(t) = [i \in 1..Len(t) |-> t[i]]
      BY <1>2, <2>3 DEF Deduplicate
    <2> QED BY <1>2, <2>2, <2>4, TextIsFunction DEF Clean, Repaired
  <1> QED BY <1>4, <1>5

(* What the repair returns it leaves alone.                                *)
LEMMA RepairedIsClean ==
  ASSUME NEW t \in Seq(Entry)
  PROVE  Clean(Repaired(t))
  <1> DEFINE r == Repaired(t)
  <1>1. /\ r \in Seq(Entry) /\ Len(r) = Len(t)
        /\ \A i \in 1..Len(t) : r[i].form # "joined"
        /\ \A k \in Key : Live(r, k) = {i \in Live(t, k) : \A j \in Live(t, k) : j <= i}
    BY RepairedShape
  <1> HIDE DEF r
  <1>2. ASSUME NEW k \in Key, NEW i \in Live(r, k), NEW j \in Live(r, k) PROVE i = j
    <2>1. i \in Live(t, k) /\ j \in Live(t, k) /\ i <= j /\ j <= i
      BY <1>1
    <2>2. i \in Nat /\ j \in Nat
      BY <2>1 DEF Live
    <2> QED BY <2>1, <2>2
  <1>3. Clean(r)
    BY <1>1, <1>2, CleanShape
  <1> QED BY <1>3 DEF r

(* set_toml_value on a repaired text sets one option, and the text stays   *)
(* as toml wants it.                                                       *)
LEMMA WithValueSets ==
  ASSUME NEW t \in Seq(Entry), Clean(t), NEW k \in Key, NEW v \in Value
  PROVE  /\ WithValue(t, k, v) \in Seq(Entry)
         /\ Clean(WithValue(t, k, v))
         /\ Meaning(WithValue(t, k, v)) = [Meaning(t) EXCEPT ![k] = v]
  <1> DEFINE w == WithValue(t, k, v)
             line == [key |-> k, value |-> v, form |-> "line"]
  <1>1. /\ DOMAIN t = 1..Len(t) /\ Len(t) \in Nat
        /\ \A i \in 1..Len(t) : t[i] \in Entry
    OBVIOUS
  <1>2. /\ \A i \in 1..Len(t) : t[i].form # "joined"
        /\ \A q \in Key : \A i, j \in Live(t, q) : i = j
    BY CleanShape
  <1>3. \A q \in Key : Live(t, q) \subseteq 1..Len(t)
    BY <1>1 DEF Live
  <1>4. ASSUME w \in Seq(Entry), \A i \in 1..Len(w) : w[i].form # "joined",
               \A q \in Key : \A i, j \in Live(w, q) : i = j,
               \E i \in Live(w, k) : w[i].value = v,
               \A q \in Key \ {k} : /\ Live(w, q) = Live(t, q)
                                    /\ \A i \in Live(t, q) : w[i] = t[i]
        PROVE  Clean(w) /\ Meaning(w) = [Meaning(t) EXCEPT ![k] = v]
    <2> HIDE DEF w
    <2>1. Clean(w)
      BY <1>4, CleanShape
    <2>2. \A q \in Key : Live(w, q) \subseteq Nat
      BY <1>4 DEF Live
    <2>3. Meaning(w)[k] = v
      <3>1. PICK i \in Live(w, k) : w[i].value = v
        BY <1>4
      <3>2. \A j \in Live(w, k) : j <= i
        BY <1>4, <2>2, <3>1
      <3> QED BY <1>4, <3>1, <3>2, MeaningOf
    <2>4. ASSUME NEW q \in Key \ {k} PROVE Meaning(w)[q] = Meaning(t)[q]
      <3>1. CASE Live(t, q) = {}
        BY <1>4, <3>1, MeaningOf
      <3>2. CASE Live(t, q) # {}
        <4>1. PICK i \in Live(t, q) : \A j \in Live(t, q) : j <= i
          BY <3>2, LastAssignment
        <4>2. Meaning(t)[q] = t[i].value /\ Meaning(w)[q] = w[i].value
          BY <1>4, <4>1, MeaningOf
        <4> QED BY <1>4, <4>2
      <3> QED BY <3>1, <3>2
    <2>5. Meaning(w) = [q \in Key |-> IF q = k THEN v ELSE Meaning(t)[q]]
      BY <2>3, <2>4 DEF Meaning
    <2>6. [Meaning(t) EXCEPT ![k] = v] = [q \in Key |-> IF q = k THEN v ELSE Meaning(t)[q]]
      BY DEF Meaning
    <2> QED BY <2>1, <2>5, <2>6
  <1>5. CASE Live(t, k) = {}
    <2>1. w = Append(t, line) /\ line \in Entry
      BY <1>5 DEF WithValue, Entry
    <2> HIDE DEF w
    <2>2. /\ w \in Seq(Entry) /\ Len(w) = Len(t) + 1 /\ DOMAIN w = 1..(Len(t) + 1)
          /\ \A i \in 1..Len(t) : w[i] = t[i]
          /\ w[Len(t) + 1] = line
      BY <2>1
    <2>3. \A i \in 1..Len(w) : w[i].form # "joined"
      BY <1>1, <1>2, <2>2
    <2>4. Live(w, k) = {Len(t) + 1}
      BY <1>1, <1>5, <2>2 DEF Live, Assigns
    <2>5. ASSUME NEW q \in Key \ {k}
          PROVE  Live(w, q) = Live(t, q) /\ \A i \in Live(t, q) : w[i] = t[i]
      BY <1>1, <2>2 DEF Live
    <2>6. \A q \in Key : \A i, j \in Live(w, q) : i = j
      BY <1>2, <2>4, <2>5
    <2>7. \E i \in Live(w, k) : w[i].value = v
      BY <2>2, <2>4
    <2> QED BY <1>4, <2>2, <2>3, <2>5, <2>6, <2>7 DEF w
  <1>6. CASE Live(t, k) # {}
    <2>1. w = [i \in 1..Len(t) |-> IF i \in Live(t, k)
                                   THEN [t[i] EXCEPT !.value = v, !.form = "line"]
                                   ELSE t[i]]
      BY <1>1, <1>6 DEF WithValue
    <2> HIDE DEF w
    <2>2. w \in [1..Len(t) -> Entry]
      BY <1>1, <2>1 DEF Entry
    <2>3. w \in Seq(Entry) /\ Len(w) = Len(t) /\ DOMAIN w = 1..Len(t)
      BY <1>1, <2>2, FunctionIsText
    <2>4. ASSUME NEW i \in 1..Len(t)
          PROVE  /\ w[i].key = t[i].key /\ w[i].form \in {t[i].form, "line"}
                 /\ Assigns(w[i]) <=> Assigns(t[i])
                 /\ i \in Live(t, k) => w[i].value = v
                 /\ i \notin Live(t, k) => w[i] = t[i]
      BY <1>1, <2>1 DEF Entry, Assigns, Live
    <2>5. ASSUME NEW q \in Key PROVE Live(w, q) = Live(t, q)
      BY <1>1, <2>3, <2>4 DEF Live
    <2>6. \E i \in Live(w, k) : w[i].value = v
      BY <1>3, <1>6, <2>4, <2>5
    <2>7. ASSUME NEW q \in Key \ {k}, NEW i \in Live(t, q) PROVE w[i] = t[i]
      <3>1. i \in 1..Len(t) /\ i \notin Live(t, k)
        BY <1>1 DEF Live
      <3> QED BY <2>4, <3>1
    <2> QED BY <1>2, <1>4, <2>3, <2>4, <2>5, <2>6, <2>7 DEF w
  <1> QED BY <1>4, <1>5, <1>6

(* A load returns settings that the menus know.                            *)
LEMMA LoadedType ==
  ASSUME NEW t \in Seq(Entry)
  PROVE  Loaded(t) \in Setting /\ Defaults \in Setting
  BY MeaningType DEF Loaded, Defaults, Setting

(* What a load says of an option that it sets is what the text says.       *)
LEMMA LoadedIsMeaning ==
  ASSUME NEW t \in Seq(Entry), NEW k \in Key
  PROVE  /\ Loaded(t)[k] # None => Meaning(t)[k] = Loaded(t)[k]
         /\ Parses(t) /\ Meaning(t)[k] \in Value => Loaded(t)[k] = Meaning(t)[k]
  BY ConfigAssumption DEF Loaded, Defaults

(* A file that is not there, or empty, sets nothing.                       *)
LEMMA EmptyText ==
  /\ <<>> \in Seq(Entry) /\ Clean(<<>>)
  /\ Meaning(<<>>) = Defaults
  <1>1. <<>> \in Seq(Entry) /\ Len(<<>>) = 0
    OBVIOUS
  <1>2. \A k \in Key : Live(<<>>, k) = {}
    BY DEF Live
  <1>3. Clean(<<>>)
    <2> DEFINE t == <<>>
    <2>1. t \in Seq(Entry) /\ 1..Len(t) = {} /\ \A k \in Key : Live(t, k) = {}
      BY <1>1, <1>2
    <2> HIDE DEF t
    <2>2. Clean(t)
      BY <2>1, CleanShape
    <2> QED BY <2>2 DEF t
  <1> QED BY <1>1, <1>2, <1>3 DEF Meaning, Defaults

(* The texts of the first start are texts.                                 *)
LEMMA InitialTextType == InitialText \subseteq Seq(Entry)
  BY ConfigAssumption DEF InitialText

(* The choice of an idle launcher is a choice.                             *)
LEMMA NoChoiceType == NoChoice \in [key : Key, value : Value]
  <1>1. \E c \in [key : Key, value : Value] : TRUE
    <2>1. PICK k \in Key : TRUE
      BY ConfigAssumption
    <2>2. [key |-> k, value |-> Packaged] \in [key : Key, value : Value]
      BY <2>1, ConfigAssumption
    <2> QED BY <2>2
  <1> QED BY <1>1 DEF NoChoice

(* The packaged file sets each option to its packaged value.               *)
LEMMA PackagedTextSets ==
  /\ PackagedText \in Seq(Entry)
  /\ \A i \in 1..Len(PackagedText) :
       PackagedText[i].value = Packaged /\ PackagedText[i].key \in Key
  /\ Meaning(PackagedText) = [k \in Key |-> Packaged]
  <1> DEFINE n == Cardinality(Key)
             order == CHOOSE s \in [1..n -> Key] : \A k \in Key : \E i \in DOMAIN s : s[i] = k
  <1>1. n \in Nat /\ ExistsBijection(1..n, Key)
    BY FS_CardinalityType, ConfigAssumption
  <1>2. \E s \in [1..n -> Key] : \A k \in Key : \E i \in DOMAIN s : s[i] = k
    BY <1>1 DEF ExistsBijection, Bijection, Surjection
  <1>3. order \in [1..n -> Key] /\ \A k \in Key : \E i \in DOMAIN order : order[i] = k
    BY <1>2
  <1>4. PackagedText = [i \in DOMAIN order |-> [key |-> order[i], value |-> Packaged, form |-> "line"]]
    BY DEF PackagedText
  <1> HIDE DEF order, n
  <1> DEFINE t == PackagedText
  <1> HIDE DEF t
  <1>5. t \in [1..n -> Entry] /\ \A i \in 1..n : t[i].key = order[i] /\ t[i].value = Packaged /\ t[i].form = "line"
    BY <1>3, <1>4, ConfigAssumption DEF Entry, t
  <1>6. t \in Seq(Entry) /\ DOMAIN t = 1..n /\ Len(t) = n
    BY <1>1, <1>5, FunctionIsText
  <1>7. ASSUME NEW k \in Key PROVE Meaning(t)[k] = Packaged
    <2>1. Live(t, k) # {}
      BY <1>3, <1>5, <1>6 DEF Live, Assigns
    <2>2. PICK i \in Live(t, k) : \A j \in Live(t, k) : j <= i
      BY <1>6, <2>1, LastAssignment
    <2>3. i \in 1..n
      BY <1>6 DEF Live
    <2> QED BY <1>5, <1>6, <2>2, <2>3, MeaningOf
  <1>8. Meaning(t) = [k \in Key |-> Packaged]
    BY <1>7 DEF Meaning
  <1> QED BY <1>3, <1>5, <1>6, <1>8 DEF t

(* A text of packaged values but for its last entry means an option to be  *)
(* packaged or unset, but for one that may have the value of that entry.   *)
LEMMA OnePiece ==
  ASSUME NEW t \in Seq(Entry), NEW n \in Nat, Len(t) <= n + 1,
         \A i \in 1..Len(t) : t[i].value = Packaged \/ (i = n + 1 /\ t[i].value = Bad)
  PROVE  /\ Meaning(t) \in [Key -> {Packaged, Bad, None}]
         /\ \A j, k \in Key : Meaning(t)[j] = Bad /\ Meaning(t)[k] = Bad => j = k
  <1>1. ASSUME NEW k \in Key
        PROVE  /\ Meaning(t)[k] \in {Packaged, Bad, None}
               /\ Meaning(t)[k] = Bad => t[n + 1].key = k
    <2>1. CASE Live(t, k) = {}
      BY <2>1, MeaningOf, ConfigAssumption
    <2>2. CASE Live(t, k) # {}
      <3>1. PICK i \in Live(t, k) : \A j \in Live(t, k) : j <= i
        BY <2>2, LastAssignment
      <3>2. i \in 1..Len(t) /\ t[i].key = k /\ Meaning(t)[k] = t[i].value
        BY <3>1, MeaningOf DEF Live
      <3>3. Packaged # Bad
        BY ConfigAssumption
      <3> QED BY <3>2, <3>3
    <2> QED BY <2>1, <2>2
  <1>2. Meaning(t) \in [Key -> {Packaged, Bad, None}]
    BY <1>1 DEF Meaning
  <1> QED BY <1>1, <1>2

(* What a provisioning leaves is a text, that has all the packaged options *)
(* or a part of them, and one at most without its value.                   *)
LEMMA ProvisionedText ==
  ASSUME NEW t \in PartialText \cup {PackagedText}
  PROVE  /\ t \in Seq(Entry)
         /\ Meaning(t) \in [Key -> {Packaged, Bad, None}]
         /\ \A j, k \in Key : Meaning(t)[j] = Bad /\ Meaning(t)[k] = Bad => j = k
  <1> DEFINE p == PackagedText
             whole(n) == SubSeq(p, 1, n)
             piece(k, f) == [key |-> k, value |-> Bad, form |-> f]
  <1>1. /\ p \in Seq(Entry) /\ Len(p) \in Nat
        /\ \A i \in 1..Len(p) : p[i].value = Packaged /\ p[i].key \in Key
    BY PackagedTextSets
  <1> HIDE DEF p
  <1>2. ASSUME NEW n \in 0..Len(p)
        PROVE  /\ whole(n) \in Seq(Entry) /\ Len(whole(n)) = n
               /\ \A i \in 1..n : whole(n)[i].value = Packaged
    BY <1>1, <1>2
  <1>3. ASSUME NEW n \in 0..Len(p), NEW k \in Key, NEW f \in {"broken", "torn"},
               t = Append(whole(n), piece(k, f))
        PROVE  /\ t \in Seq(Entry) /\ Len(t) = n + 1
               /\ \A i \in 1..Len(t) :
                    t[i].value = Packaged \/ (i = n + 1 /\ t[i].value = Bad)
    <2> DEFINE w == whole(n)
               e == piece(k, f)
    <2>1. e \in Entry /\ e.value = Bad
      BY DEF Entry
    <2>2. w \in Seq(Entry) /\ Len(w) = n /\ \A i \in 1..n : w[i].value = Packaged
      BY <1>2
    <2>3. t = Append(w, e)
      BY <1>3
    <2> HIDE DEF w, e
    <2> QED BY <2>1, <2>2, <2>3
  <1>4. CASE t = p
    <2>1. \A i \in 1..Len(t) : t[i].value = Packaged
      BY <1>1, <1>4
    <2> QED BY <1>1, <1>4, <2>1, OnePiece
  <1>5. CASE \E n \in 0..Len(p) : t = whole(n)
    <2>1. PICK n \in 0..Len(p) : t = whole(n)
      BY <1>5
    <2>2. t \in Seq(Entry) /\ Len(t) = n /\ \A i \in 1..n : t[i].value = Packaged
      BY <1>2, <2>1
    <2> QED BY <2>2, OnePiece
  <1>6. CASE \E n \in 0..Len(p), k \in Key, f \in {"broken", "torn"} :
               t = Append(whole(n), piece(k, f))
    <2>1. PICK n \in 0..Len(p), k \in Key, f \in {"broken", "torn"} :
            t = Append(whole(n), piece(k, f))
      BY <1>6
    <2>2. n \in Nat
      BY <1>1
    <2> HIDE DEF whole, piece
    <2>3. /\ t \in Seq(Entry) /\ Len(t) = n + 1
          /\ \A i \in 1..Len(t) :
               t[i].value = Packaged \/ (i = n + 1 /\ t[i].value = Bad)
      BY <1>3, <2>1
    <2> QED BY <2>2, <2>3, OnePiece
  <1>7. t = p \/ (\E n \in 0..Len(p) : t = whole(n))
          \/ (\E n \in 0..Len(p), k \in Key, f \in {"broken", "torn"} :
                t = Append(whole(n), piece(k, f)))
    <2>1. \/ t = p \/ \E n \in 0..Len(p) : t = whole(n)
          \/ \E n \in 0..Len(p) : t = Append(whole(n), piece(NoChoice.key, "torn"))
          \/ (\E n \in 1..Len(p) : t = Append(whole(n - 1), piece(p[n].key, "broken")))
      BY DEF PartialText, p
    <2>2. NoChoice.key \in Key
      BY NoChoiceType
    <2>3. \A n \in 1..Len(p) : n - 1 \in 0..Len(p) /\ p[n].key \in Key
      BY <1>1
    <2> HIDE DEF whole, piece
    <2> QED BY <2>1, <2>2, <2>3
  <1> QED BY <1>4, <1>5, <1>6, <1>7

(* What the launcher makes of settings.                                    *)
LEMMA TakenOf ==
  ASSUME NEW c, NEW k \in Key
  PROVE  Taken(c)[k] = IF ~windows /\ k \in Strict /\ c[k] = Follow THEN On ELSE c[k]
  BY DEF Taken

(* They are settings, and set what was set.                                *)
LEMMA TakenType ==
  ASSUME NEW c \in Setting
  PROVE  Taken(c) \in Setting /\ \A k \in Key : Taken(c)[k] = None <=> c[k] = None
  <1>1. ASSUME NEW k \in Key
        PROVE  Taken(c)[k] \in Value \cup {None} /\ (Taken(c)[k] = None <=> c[k] = None)
    <2>1. c[k] \in Value \cup {None}
      BY DEF Setting
    <2>2. None \notin Value /\ On \in Value /\ Follow \in Value
      BY ConfigAssumption
    <2> QED BY <2>1, <2>2 DEF Taken
  <1> QED BY <1>1 DEF Taken, Setting

-----------------------------------------------------------------------------
(* The inductive invariant.                                                *)

(* The steps of atomic_write.                                              *)
Writing == {"create", "write", "sync", "remove", "rename"}

(* Which step a call can be at.  Until a start has read the file the menus *)
(* show nothing.                                                           *)
CallInv ==
  /\ pc \in {"down", "copy", "idle"} => op = "start"
  /\ pc = "copy" => ~windows /\ exists /\ text = <<>>
  /\ op # "start" /\ ~windows => choice.value # Follow
  /\ pc = "read" => op \in {"start", "set", "load"}
  /\ op = "load" => pc \in {"read", "apply"}
  /\ op = "set" => pc \in Writing \cup {"read"}
  /\ op = "start" /\ pc # "idle" =>
       current = Defaults /\ last = NoMarks /\ marked = NoMarks
  /\ pc = "remove" => windows /\ exists
  /\ pc = "rename" /\ windows => ~exists

(* What is being written is clean and, while the old file is there, its    *)
(* repair or the old text with the choice; once written, it is the file.   *)
TextInv ==
  /\ pc \in Writing =>
       /\ Clean(new)
       /\ op = "rewrite" => Meaning(new)[choice.key] = choice.value
  /\ pc \in Writing /\ ~Replacing =>
       \/ op \in {"start", "set"} /\ new = Repaired(text)
       \/ op = "rewrite" /\ Clean(text) /\ new = WithValue(text, choice.key, choice.value)
  /\ op = "load" => Clean(text) /\ Meaning(text)[choice.key] = choice.value

(* A load that takes part in a call returned what the file says, or        *)
(* nothing; DisplayControl::apply of Windows does not load.                *)
LoadInv ==
  pc = "apply" /\ (op = "start" \/ choice.key \notin Strict) =>
    cfg \in {Loaded(text), Defaults}

(* The choice is in the file, and not yet in force.                        *)
Pending(k) ==
  k = choice.key /\ (op = "load" \/ (op = "rewrite" /\ Replacing))

(* What the menu is to show of an option is in force and is what the file  *)
(* says, but for the choice that is being made.                            *)
MenuInv ==
  \A k \in Key \ astray :
    /\ marked[k] = last[k]
    /\ current[k] # None =>
         /\ inForce[k] = current[k]
         /\ Taken(Meaning(Written))[k] = current[k] \/ Pending(k)

Inv == TypeOK /\ CallInv /\ TextInv /\ LoadInv /\ MenuInv

(* The budget of failures is kept.                                         *)
LEMMA FaultsBounded ==
  ASSUME faults \in 0..MaxFaults, Faulty \/ UNCHANGED faults
  PROVE  faults' \in 0..MaxFaults
  BY ConfigAssumption DEF Faulty

(* At first the launcher is down.                                          *)
LEMMA Initial == Init => Inv
  <1> SUFFICES ASSUME Init PROVE Inv
    OBVIOUS
  <1>1. text \in Seq(Entry)
    BY InitialTextType, EmptyText DEF Init
  <1>2. Defaults \in Setting /\ NoMarks \in [Key -> SUBSET (Value \cup {None})]
    BY DEF Defaults, Setting, NoMarks
  <1>3. TypeOK
    BY <1>1, <1>2, NoChoiceType, ConfigAssumption DEF Init, TypeOK
  <1>4. CallInv /\ TextInv /\ LoadInv
    BY DEF Init, CallInv, TextInv, LoadInv, Writing, Replacing
  <1>5. MenuInv
    BY DEF Init, MenuInv, NoMarks, Defaults
  <1> QED BY <1>3, <1>4, <1>5 DEF Inv

(* A start finds a file, or creates one.                                   *)
LEMMA LaunchKeeps ==
  ASSUME Inv, Launch, UNCHANGED windows
  PROVE  Inv'
  <1> USE DEF Inv, Launch, writeVars, menuVars, fileVars
  <1>1. text' \in Seq(Entry) /\ exists' \in BOOLEAN /\ (~exists' => text' = <<>>)
    BY EmptyText DEF TypeOK
  <1>2. faults' \in 0..MaxFaults
    <2>1. Faulty \/ UNCHANGED faults
      OBVIOUS
    <2> QED BY <2>1, FaultsBounded DEF TypeOK
  <1>3. TypeOK'
    BY <1>1, <1>2 DEF TypeOK
  <1>4. CallInv' /\ TextInv' /\ LoadInv'
    BY DEF CallInv, TextInv, LoadInv, Writing, Replacing
  <1>5. MenuInv'
    BY DEF CallInv, MenuInv, Defaults
  <1> QED BY <1>3, <1>4, <1>5 DEF Inv

(* The new file is filled, or a part of it.                                *)
LEMMA CopyKeeps ==
  ASSUME Inv, Copy, UNCHANGED windows
  PROVE  Inv'
  <1> USE DEF Inv, Copy, writeVars, callVars, menuVars
  <1>1. text' \in Seq(Entry) /\ exists'
    BY ProvisionedText DEF CallInv
  <1>2. faults' \in 0..MaxFaults
    <2>1. Faulty \/ UNCHANGED faults
      OBVIOUS
    <2> QED BY <2>1, FaultsBounded DEF TypeOK
  <1>3. TypeOK'
    BY <1>1, <1>2 DEF TypeOK
  <1>4. CallInv' /\ TextInv' /\ LoadInv'
    BY DEF CallInv, TextInv, LoadInv, Writing, Replacing
  <1>5. MenuInv'
    BY DEF CallInv, MenuInv, Defaults
  <1> QED BY <1>3, <1>4, <1>5 DEF Inv

(* The user chooses an item of the menu of an idle launcher.               *)
LEMMA ChooseKeeps ==
  ASSUME Inv, NEW k \in Key, NEW v \in Value, Choose(k, v), UNCHANGED windows
  PROVE  Inv'
  <1> USE DEF Inv, Choose, writeVars, menuVars, fileVars
  <1>1. TypeOK'
    BY DEF TypeOK
  <1>2. CallInv' /\ TextInv' /\ LoadInv'
    BY DEF CallInv, TextInv, LoadInv, Writing, Replacing, Offered
  <1>3. Written' = Written /\ (op # "load" /\ op # "rewrite")
    BY DEF CallInv, Written, Replacing
  <1>4. MenuInv'
    BY <1>3 DEF MenuInv, Pending, Taken
  <1> QED BY <1>1, <1>2, <1>4 DEF Inv

(* What is being written says the same as the file, but for the choice.    *)
LEMMA NewText ==
  ASSUME Inv, pc \in Writing
  PROVE  /\ op \in {"start", "set", "rewrite"}
         /\ op # "rewrite" => Meaning(new) = Meaning(Written)
         /\ op = "rewrite" =>
              Meaning(new) \in {Meaning(Written),
                                [Meaning(Written) EXCEPT ![choice.key] = choice.value]}
         /\ ~Replacing => Written = text
  <1>1. CASE Replacing
    <2>1. Written = new
      BY <1>1 DEF Written
    <2> QED BY <1>1, <2>1 DEF Inv, CallInv, TypeOK, Writing
  <1>2. CASE ~Replacing
    <2>1. Written = text /\ text \in Seq(Entry)
      BY <1>2 DEF Written, Inv, TypeOK
    <2>2. CASE op \in {"start", "set"} /\ new = Repaired(text)
      BY <1>2, <2>1, <2>2, RepairKeeps
    <2>3. CASE op = "rewrite" /\ Clean(text) /\ new = WithValue(text, choice.key, choice.value)
      BY <1>2, <2>1, <2>3, WithValueSets DEF Inv, TypeOK
    <2> QED BY <1>2, <2>2, <2>3 DEF Inv, TextInv
  <1> QED BY <1>1, <1>2

(* A call goes on with a clean text: what it is going to do is consistent  *)
(* with that text.                                                         *)
LEMMA ContinueKeeps ==
  ASSUME Inv, NEW t \in Seq(Entry), Clean(t), Continue(t)
  PROVE  /\ new' \in Seq(Entry) /\ cfg' \in Setting
         /\ op' \in {"start", "set", "rewrite", "load"}
         /\ pc' \in {"create", "read", "apply"}
         /\ pc' = "create" =>
              /\ op = "set" /\ op' = "rewrite"
              /\ new' = WithValue(t, choice.key, choice.value)
              /\ Clean(new') /\ Meaning(new')[choice.key] = choice.value
         /\ pc' # "create" => op' # "rewrite" /\ op' # "set"
         /\ op' = "load" => op = "rewrite" \/ op = "load"
         /\ op' = "start" => op = "start" /\ pc' = "apply"
         /\ pc' = "read" => op' = "load"
         /\ pc' = "apply" /\ (op' = "start" \/ choice.key \notin Strict) => cfg' = Loaded(t)
  <1>1. /\ choice \in [key : Key, value : Value] /\ cfg \in Setting
        /\ op \in {"start", "set", "rewrite", "load"}
    BY DEF Inv, TypeOK
  <1>2. CASE op = "set"
    <2>1. /\ new' = WithValue(t, choice.key, choice.value)
          /\ op' = "rewrite" /\ pc' = "create" /\ cfg' = cfg
      BY <1>2 DEF Continue
    <2>2. /\ new' \in Seq(Entry) /\ Clean(new')
          /\ Meaning(new') = [Meaning(t) EXCEPT ![choice.key] = choice.value]
      BY <1>1, <2>1, WithValueSets
    <2>3. Meaning(new')[choice.key] = choice.value
      BY <1>1, <2>2, MeaningType
    <2> QED BY <1>1, <1>2, <2>1, <2>2, <2>3
  <1>3. CASE op = "rewrite"
    <2>1. /\ op' = "load" /\ new' = <<>> /\ cfg' = cfg
          /\ pc' = IF windows /\ choice.key \in Strict THEN "apply" ELSE "read"
      BY <1>3 DEF Continue
    <2> QED BY <1>1, <1>3, <2>1, EmptyText
  <1>4. CASE op \in {"start", "load"}
    <2>1. cfg' = Loaded(t) /\ pc' = "apply" /\ new' = <<>> /\ op' = op
      BY <1>4 DEF Continue
    <2> QED BY <1>1, <1>4, <2>1, EmptyText, LoadedType
  <1> QED BY <1>1, <1>2, <1>3, <1>4

(* read_and_repair has read the file.                                      *)
LEMMA ReadKeeps ==
  ASSUME Inv, Read, UNCHANGED windows
  PROVE  Inv'
  <1> USE DEF Inv, fileVars, menuVars
  <1>1. /\ pc = "read" /\ UNCHANGED <<exists, text, temp, choice, inForce, current, last>>
        /\ UNCHANGED <<marked, astray, faults, windows>> /\ text \in Seq(Entry)
    BY DEF Read, TypeOK
  <1>2. ~Replacing /\ ~Replacing' /\ Written = text /\ Written' = text
    <2>1. pc' # "rename"
      BY <1>1 DEF Read, Continue
    <2> QED BY <1>1, <2>1 DEF Replacing, Written
  <1>3. CASE Clean(text) /\ Continue(text)
    <2>1. TypeOK'
      BY <1>1, <1>3, ContinueKeeps DEF TypeOK
    <2>2. CallInv'
      BY <1>1, <1>3, ContinueKeeps DEF CallInv, Writing
    <2>3. TextInv'
      <3>1. op' = "load" => Clean(text) /\ Meaning(text)[choice.key] = choice.value
        BY <1>1, <1>3, ContinueKeeps DEF TextInv, CallInv
      <3> QED BY <1>1, <1>2, <1>3, <3>1, ContinueKeeps DEF TextInv, Writing
    <2>4. LoadInv'
      BY <1>1, <1>3, ContinueKeeps DEF LoadInv
    <2>5. MenuInv'
      <3>1. op' = "load" => op = "load"
        BY <1>1, <1>3, ContinueKeeps DEF CallInv
      <3>2. op # "rewrite" /\ (op = "load" => op' = "load")
        BY <1>1, <1>3 DEF CallInv, Continue
      <3> QED BY <1>1, <1>2, <3>1, <3>2 DEF MenuInv, Pending, Taken
    <2> QED BY <2>1, <2>2, <2>3, <2>4, <2>5
  <1>4. CASE ~Clean(text) /\ new' = Repaired(text) /\ pc' = "create" /\ UNCHANGED <<op, cfg>>
    <2>1. new' \in Seq(Entry) /\ Clean(new')
      BY <1>1, <1>4, RepairKeeps, RepairedIsClean
    <2>2. op \in {"start", "set"}
      BY <1>1, <1>4 DEF CallInv, TextInv
    <2>3. TypeOK'
      BY <1>1, <1>4, <2>1 DEF TypeOK
    <2>4. CallInv' /\ LoadInv'
      BY <1>1, <1>4, <2>2 DEF CallInv, LoadInv, Writing
    <2>5. TextInv'
      BY <1>1, <1>2, <1>4, <2>1, <2>2 DEF TextInv, Writing
    <2>6. MenuInv'
      BY <1>1, <1>2, <1>4, <2>2 DEF MenuInv, Pending, Taken
    <2> QED BY <2>3, <2>4, <2>5, <2>6
  <1> QED BY <1>3, <1>4 DEF Read, Clean

(* An error in the file operations ends a set, and a load with the         *)
(* defaults; the menus show what they showed.                              *)
LEMMA FailsKeeps ==
  ASSUME Inv, Fails, pc \in Writing \cup {"read"}, UNCHANGED <<exists, text, windows>>,
         temp' \in {"none", "partial", "whole"}, temp' = "partial" => pc' = "write",
         astray' \subseteq Key, astray \subseteq astray',
         exists \/ pc = "read" \/ astray' = Key
  PROVE  Inv'
  <1> USE DEF Inv
  <1>1. UNCHANGED <<inForce, current, last, marked>> /\ text \in Seq(Entry)
    BY DEF Fails, callVars, ShownAfterError, TypeOK
  <1>2. \/ /\ op \in {"set", "rewrite"} /\ pc' = "idle" /\ op' = "start"
           /\ new' = <<>> /\ choice' = NoChoice /\ cfg' = Defaults
        \/ /\ op \in {"start", "load"} /\ pc' = "apply" /\ UNCHANGED <<op, choice>>
           /\ cfg' = Defaults /\ new' = <<>>
    BY DEF Fails, Return, callVars
  <1>3. faults' \in 0..MaxFaults
    BY FaultsBounded DEF TypeOK, Fails
  <1>4. new' \in Seq(Entry) /\ choice' \in [key : Key, value : Value] /\ cfg' \in Setting
    BY <1>1, <1>2, EmptyText, NoChoiceType, LoadedType DEF TypeOK
  <1>5. TypeOK'
    BY <1>1, <1>2, <1>3, <1>4 DEF TypeOK
  <1>6. CallInv' /\ TextInv' /\ LoadInv'
    BY <1>1, <1>2 DEF CallInv, TextInv, LoadInv, Writing
  <1>7. MenuInv'
    <2>1. ASSUME NEW k \in Key \ astray'
          PROVE  ~Replacing /\ k \in Key \ astray
      BY <1>1 DEF Replacing, TypeOK
    <2>2. ASSUME NEW k \in Key \ astray'
          PROVE  Written = text /\ Written' = text /\ (Pending(k) => Pending(k)')
      BY <1>1, <1>2, <2>1 DEF Replacing, Written, Pending, CallInv, Writing
    <2> QED BY <1>1, <2>1, <2>2 DEF MenuInv, Taken
  <1> QED BY <1>5, <1>6, <1>7

(* The file cannot be read.                                                *)
LEMMA ReadFailsKeeps ==
  ASSUME Inv, ReadFails, UNCHANGED windows
  PROVE  Inv'
  <1>1. /\ pc = "read" /\ Fails /\ UNCHANGED <<exists, text, temp, astray, windows>>
        /\ temp \in {"none", "whole"} /\ astray \subseteq Key
    BY DEF ReadFails, fileVars, Inv, TypeOK
  <1> QED BY <1>1, FailsKeeps

(* A step of atomic_write fails.                                           *)
LEMMA WriteFailsKeeps ==
  ASSUME Inv, WriteFails, UNCHANGED windows
  PROVE  Inv'
  <1>1. /\ pc \in Writing /\ Fails /\ UNCHANGED <<exists, text, windows>>
        /\ astray' = IF exists THEN astray ELSE Key
    BY DEF WriteFails, fileVars, Writing
  <1>2. temp' \in {"none", "whole"}
    BY DEF WriteFails, AfterError, Inv, TypeOK
  <1>3. astray' \subseteq Key /\ astray \subseteq astray'
    BY <1>1 DEF Inv, TypeOK
  <1> QED BY <1>1, <1>2, <1>3, FailsKeeps

(* The temporary file is created, written and made durable: the file is    *)
(* what it was, and on Windows it will be removed first.                   *)
LEMMA TemporaryKeeps ==
  ASSUME Inv, Create \/ Write \/ Sync, UNCHANGED windows
  PROVE  Inv'
  <1> USE DEF Inv, callVars, menuVars, fileVars
  <1>1. /\ pc \in {"create", "write", "sync"} /\ pc' \in {"write", "sync", "remove", "rename"}
        /\ UNCHANGED <<exists, text, new, op, choice, cfg, inForce>>
        /\ UNCHANGED <<current, last, marked, astray, faults, windows>>
        /\ temp' \in {"none", "partial", "whole"} /\ (temp' = "partial" => pc' = "write")
        /\ (pc' = "remove" => windows /\ exists)
        /\ (pc' = "rename" => ~(windows /\ exists))
    BY DEF Create, Write, Sync, Step, TypeOK
  <1>2. TypeOK'
    BY <1>1 DEF TypeOK
  <1>3. CallInv' /\ LoadInv'
    BY <1>1 DEF CallInv, LoadInv, Writing
  <1>4. ~Replacing /\ Written = text
    BY <1>1 DEF Replacing, Written
  <1>5. TextInv'
    BY <1>1, <1>4 DEF TextInv, Writing, CallInv
  <1>6. MenuInv'
    <2>1. CASE ~Replacing'
      BY <1>1, <1>4, <2>1 DEF MenuInv, Written, Pending, Taken
    <2>2. CASE Replacing'
      <3>1. Written' = new /\ pc \in Writing /\ op' = op
        BY <1>1, <2>2 DEF Written, Replacing, Writing
      <3>2. ASSUME NEW k \in Key, Meaning(Written)[k] # Meaning(new)[k]
            PROVE  op = "rewrite" /\ k = choice.key
        BY <3>1, <3>2, NewText, MeaningType DEF TypeOK
      <3>3. ASSUME NEW k \in Key \ astray, current[k] # None
            PROVE  Taken(Meaning(Written))'[k] = current[k] \/ Pending(k)'
        <4>1. Taken(Meaning(Written))[k] = current[k]
          BY <1>1, <1>4, <3>3 DEF MenuInv, Pending, CallInv
        <4> QED BY <1>1, <2>2, <3>1, <3>2, <4>1 DEF Pending, Taken
      <3> QED BY <1>1, <3>3 DEF MenuInv
    <2> QED BY <2>1, <2>2
  <1> QED BY <1>2, <1>3, <1>5, <1>6

(* Windows removes the old file: from here on the new one is what counts.  *)
LEMMA RemoveKeeps ==
  ASSUME Inv, Remove, UNCHANGED windows
  PROVE  Inv'
  <1> USE DEF Inv, callVars, menuVars
  <1>1. /\ pc = "remove" /\ pc' = "rename" /\ exists' = FALSE /\ text' = <<>> /\ windows
        /\ UNCHANGED <<temp, new, op, choice, cfg, inForce, current, last>>
        /\ UNCHANGED <<marked, astray, faults, windows>>
    BY DEF Remove, Step, CallInv
  <1>2. TypeOK'
    BY <1>1, EmptyText DEF TypeOK
  <1>3. CallInv' /\ LoadInv'
    BY <1>1 DEF CallInv, LoadInv, Writing
  <1>4. ~Replacing /\ Written = text /\ Replacing' /\ Written' = new /\ pc \in Writing
    BY <1>1 DEF Replacing, Written, Writing
  <1>5. TextInv'
    BY <1>1, <1>4 DEF TextInv, Writing, CallInv
  <1>6. MenuInv'
    <2>1. ASSUME NEW k \in Key, Meaning(Written)[k] # Meaning(new)[k]
          PROVE  op = "rewrite" /\ k = choice.key
      BY <1>4, <2>1, NewText, MeaningType DEF TypeOK
    <2>2. ASSUME NEW k \in Key \ astray, current[k] # None
          PROVE  Taken(Meaning(Written))'[k] = current[k] \/ Pending(k)'
      <3>1. Taken(Meaning(Written))[k] = current[k]
        BY <1>1, <1>4, <2>2 DEF MenuInv, Pending, CallInv
      <3> QED BY <1>1, <1>4, <2>1, <3>1 DEF Pending, Taken
    <2> QED BY <1>1, <2>2 DEF MenuInv
  <1> QED BY <1>2, <1>3, <1>5, <1>6

(* The temporary file takes the place of the configuration.                *)
LEMMA RenameKeeps ==
  ASSUME Inv, Rename, UNCHANGED windows
  PROVE  Inv'
  <1> USE DEF Inv, menuVars
  <1>1. /\ pc = "rename" /\ exists' = TRUE /\ text' = new /\ temp' = "none" /\ Continue(new)
        /\ UNCHANGED <<choice, inForce, current, last, marked, astray, faults, windows>>
        /\ new \in Seq(Entry) /\ pc \in Writing
    BY DEF Rename, TypeOK, Writing
  <1>2. Clean(new)
    BY <1>1 DEF TextInv
  <1>3. ~Replacing' /\ Written' = new
    BY <1>1 DEF Replacing, Written
  <1>4. TypeOK'
    BY <1>1, <1>2, ContinueKeeps DEF TypeOK
  <1>5. CallInv'
    BY <1>1, <1>2, ContinueKeeps DEF CallInv, Writing
  <1>6. LoadInv'
    BY <1>1, <1>2, ContinueKeeps DEF LoadInv
  <1>7. op' = "load" <=> op = "rewrite"
    BY <1>1, NewText DEF Continue
  <1>8. TextInv'
    <2>1. op' = "load" => Meaning(new)[choice.key] = choice.value
      BY <1>1, <1>7 DEF TextInv
    <2> QED BY <1>1, <1>2, <1>3, <2>1, ContinueKeeps DEF TextInv, Writing
  <1>9. MenuInv'
    <2>1. ASSUME NEW k \in Key, Meaning(Written)[k] # Meaning(new)[k]
          PROVE  op = "rewrite" /\ k = choice.key
      BY <1>1, <2>1, NewText, MeaningType DEF TypeOK
    <2>2. ASSUME NEW k \in Key \ astray, current[k] # None
          PROVE  Taken(Meaning(Written))'[k] = current[k] \/ Pending(k)'
      <3>1. CASE Taken(Meaning(Written))[k] = current[k]
        BY <1>1, <1>3, <1>7, <2>1, <3>1 DEF Pending, Taken
      <3>2. CASE Pending(k)
        BY <1>1, <1>7, <3>2 DEF Pending, CallInv, Writing
      <3> QED BY <2>2, <3>1, <3>2 DEF MenuInv
    <2> QED BY <1>1, <2>2 DEF MenuInv
  <1> QED BY <1>4, <1>5, <1>6, <1>8, <1>9

(* A call that returns leaves nothing behind but what it has set.          *)
LEMMA ReturnKeeps ==
  ASSUME Inv, NEW to \in {"down", "idle"}, Return(to), UNCHANGED <<exists, text, windows>>,
         temp' \in {"none", "whole"},
         inForce' \in Setting, current' \in Setting,
         last' \in [Key -> SUBSET (Value \cup {None})],
         marked' \in [Key -> SUBSET (Value \cup {None})],
         astray' \subseteq Key, Faulty \/ UNCHANGED faults,
         to = "down" => current' = Defaults /\ last' = NoMarks /\ marked' = NoMarks,
         \A k \in Key \ astray' :
           /\ marked'[k] = last'[k]
           /\ current'[k] # None =>
                inForce'[k] = current'[k] /\ Taken(Meaning(text))[k] = current'[k]
  PROVE  Inv'
  <1> USE DEF Inv
  <1>1. /\ pc' \in {"down", "idle"} /\ op' = "start" /\ new' = <<>> /\ choice' = NoChoice
        /\ cfg' = Defaults /\ (pc' = "down" => to = "down") /\ text \in Seq(Entry)
    BY DEF Return, TypeOK
  <1>2. faults' \in 0..MaxFaults
    BY FaultsBounded DEF TypeOK
  <1>3. TypeOK'
    BY <1>1, <1>2, EmptyText, NoChoiceType, LoadedType DEF TypeOK
  <1>4. CallInv' /\ TextInv' /\ LoadInv'
    BY <1>1 DEF CallInv, TextInv, LoadInv, Writing
  <1>5. Written' = text
    BY <1>1 DEF Written, Replacing
  <1>6. MenuInv'
    BY <1>5 DEF MenuInv, Taken
  <1> QED BY <1>3, <1>4, <1>6

(* A start takes its settings and its marks from the file.                 *)
LEMMA BeginKeeps ==
  ASSUME Inv, Apply, Begin, UNCHANGED windows
  PROVE  Inv'
  <1>1. /\ pc = "apply" /\ op = "start" /\ Return("idle") /\ UNCHANGED <<exists, text, temp>>
        /\ temp \in {"none", "whole"} /\ text \in Seq(Entry) /\ cfg \in Setting
    BY DEF Apply, Begin, Inv, TypeOK, fileVars
  <1>2. /\ inForce' = Taken(cfg) /\ current' = Taken(cfg) /\ astray' = {} /\ UNCHANGED faults
        /\ last' = [k \in Key |-> IF windows THEN {cfg[k]} ELSE {}] /\ marked' = last'
    BY DEF Begin
  <1>3. cfg \in {Loaded(text), Defaults}
    BY <1>1 DEF Inv, LoadInv
  <1>4. ASSUME NEW k \in Key, Taken(cfg)[k] # None
        PROVE  Taken(Meaning(text))[k] = Taken(cfg)[k]
    <2>1. cfg[k] # None
      BY <1>1, <1>4, TakenType
    <2>2. Meaning(text)[k] = cfg[k]
      BY <1>1, <1>3, <2>1, LoadedIsMeaning DEF Defaults
    <2> QED BY <2>2, TakenOf
  <1>5. last' \in [Key -> SUBSET (Value \cup {None})]
    BY <1>1, <1>2 DEF Setting
  <1>6. Taken(cfg) \in Setting
    BY <1>1, TakenType
  <1> QED BY <1>1, <1>2, <1>4, <1>5, <1>6, ReturnKeeps

(* DisplayControl::apply: the mode, and no other setting.                  *)
LEMMA SetModeKeeps ==
  ASSUME Inv, Apply, CallBack, SetMode, UNCHANGED windows
  PROVE  Inv'
  <1>1. /\ pc = "apply" /\ op = "load" /\ Return("idle") /\ UNCHANGED <<exists, text, temp>>
        /\ temp \in {"none", "whole"} /\ text \in Seq(Entry) /\ ~Replacing
        /\ UNCHANGED <<last, marked>>
    BY DEF Apply, CallBack, Inv, TypeOK, fileVars, Replacing
  <1>2. /\ choice \in [key : Key, value : Value] /\ astray \subseteq Key
        /\ inForce \in Setting /\ current \in Setting
        /\ last \in [Key -> SUBSET (Value \cup {None})]
        /\ marked \in [Key -> SUBSET (Value \cup {None})]
    BY DEF Inv, TypeOK
  <1>3. Taken(Meaning(text))[choice.key] = choice.value
    <2>1. /\ Meaning(text)[choice.key] = choice.value
          /\ ~windows => choice.value # Follow
      BY <1>1 DEF Inv, TextInv, CallInv
    <2> QED BY <1>2, <2>1, TakenOf
  <1>4. \A k \in Key \ astray :
          /\ marked[k] = last[k]
          /\ current[k] # None /\ k # choice.key =>
               inForce[k] = current[k] /\ Taken(Meaning(text))[k] = current[k]
    BY <1>1 DEF Inv, MenuInv, Pending, Written
  <1>5. CASE /\ inForce' = WithChoice(inForce) /\ current' = WithChoice(current)
             /\ UNCHANGED <<astray, faults>>
    <2>1. inForce' \in Setting /\ current' \in Setting
      BY <1>2, <1>5 DEF WithChoice, Setting
    <2>2. ASSUME NEW k \in Key
          PROVE  IF k = choice.key
                 THEN inForce'[k] = choice.value /\ current'[k] = choice.value
                 ELSE inForce'[k] = inForce[k] /\ current'[k] = current[k]
      BY <1>2, <1>5 DEF WithChoice, Setting
    <2>3. ASSUME NEW k \in Key \ astray'
          PROVE  /\ marked'[k] = last'[k]
                 /\ current'[k] # None =>
                      inForce'[k] = current'[k] /\ Taken(Meaning(text))[k] = current'[k]
      BY <1>1, <1>3, <1>4, <1>5, <2>2
    <2> QED BY <1>1, <1>2, <1>5, <2>1, <2>3, ReturnKeeps
  <1>6. CASE /\ Faulty /\ astray' = astray \cup {choice.key} /\ UNCHANGED <<inForce, current>>
    <2>1. ASSUME NEW k \in Key \ astray'
          PROVE  /\ marked'[k] = last'[k]
                 /\ current'[k] # None =>
                      inForce'[k] = current'[k] /\ Taken(Meaning(text))[k] = current'[k]
      BY <1>1, <1>4, <1>6
    <2>2. astray' \subseteq Key
      BY <1>2, <1>6
    <2> QED BY <1>1, <1>2, <1>6, <2>1, <2>2, ReturnKeeps
  <1> QED BY <1>5, <1>6 DEF SetMode

(* A callback that builds the specs anew: where they may come from         *)
(* elsewhere than the file, the marks are known to be wrong.               *)
LEMMA RestartKeeps ==
  ASSUME Inv, Apply, CallBack, choice.key \notin Strict, Restart, UNCHANGED windows
  PROVE  Inv'
  <1>1. /\ pc = "apply" /\ op = "load" /\ Return("idle") /\ UNCHANGED <<exists, text, temp>>
        /\ temp \in {"none", "whole"} /\ text \in Seq(Entry) /\ ~Replacing
        /\ UNCHANGED <<last, marked>>
    BY DEF Apply, CallBack, Inv, TypeOK, fileVars, Replacing
  <1>2. /\ choice \in [key : Key, value : Value] /\ astray \subseteq Key
        /\ inForce \in Setting /\ current \in Setting /\ cfg \in Setting
        /\ last \in [Key -> SUBSET (Value \cup {None})]
        /\ marked \in [Key -> SUBSET (Value \cup {None})]
    BY DEF Inv, TypeOK
  <1>3. Taken(Meaning(text))[choice.key] = choice.value
    <2>1. /\ Meaning(text)[choice.key] = choice.value
          /\ ~windows => choice.value # Follow
      BY <1>1 DEF Inv, TextInv, CallInv
    <2> QED BY <1>2, <2>1, TakenOf
  <1>4. \A k \in Key \ astray :
          /\ marked[k] = last[k]
          /\ current[k] # None /\ k # choice.key =>
               inForce[k] = current[k] /\ Taken(Meaning(text))[k] = current[k]
    BY <1>1 DEF Inv, MenuInv, Pending, Written
  <1>5. /\ inForce' \in Setting
        /\ \A k \in Key : inForce'[k] = IF k = choice.key THEN choice.value
                                        ELSE IF k \in Strict THEN inForce[k] ELSE cfg[k]
    BY <1>2 DEF Restart, WithChoice, Reloaded, Setting
  <1>6. Misled \subseteq Key
    BY DEF Misled
  <1>7. ASSUME NEW k \in Key \ astray, k \notin Misled, k # choice.key, current[k] # None
        PROVE  inForce'[k] = current[k] /\ Taken(Meaning(text))[k] = current[k]
    <2>1. inForce[k] = current[k] /\ Taken(Meaning(text))[k] = current[k] /\ current[k] \in Value
      BY <1>2, <1>4, <1>7 DEF Setting
    <2>2. CASE k \in Strict
      BY <1>5, <1>7, <2>1, <2>2
    <2>3. CASE k \notin Strict
      <3>1. cfg = Loaded(text) /\ Parses(text)
        BY <1>7, <2>3 DEF Misled
      <3>2. Meaning(text)[k] = current[k]
        BY <2>1, <2>3, TakenOf
      <3>3. cfg[k] = current[k]
        BY <1>1, <2>1, <3>1, <3>2, LoadedIsMeaning
      <3> QED BY <1>5, <1>7, <2>1, <2>3, <3>3
    <2> QED BY <2>2, <2>3
  <1>8. CASE /\ current' = WithChoice(current) /\ astray' = astray \cup Misled
             /\ UNCHANGED faults
    <2>1. /\ current' \in Setting
          /\ \A k \in Key : current'[k] = IF k = choice.key THEN choice.value ELSE current[k]
      BY <1>2, <1>8 DEF WithChoice, Setting
    <2>2. ASSUME NEW k \in Key \ astray'
          PROVE  /\ marked'[k] = last'[k]
                 /\ current'[k] # None =>
                      inForce'[k] = current'[k] /\ Taken(Meaning(text))[k] = current'[k]
      BY <1>1, <1>3, <1>4, <1>5, <1>7, <1>8, <2>1
    <2>3. astray' \subseteq Key
      BY <1>2, <1>6, <1>8
    <2> QED BY <1>1, <1>2, <1>5, <1>8, <2>1, <2>2, <2>3, ReturnKeeps
  <1>9. CASE /\ Faulty /\ astray' = astray \cup Misled \cup {choice.key}
             /\ UNCHANGED current
    <2>1. ASSUME NEW k \in Key \ astray'
          PROVE  /\ marked'[k] = last'[k]
                 /\ current'[k] # None =>
                      inForce'[k] = current'[k] /\ Taken(Meaning(text))[k] = current'[k]
      BY <1>1, <1>4, <1>7, <1>9
    <2>2. astray' \subseteq Key
      BY <1>2, <1>6, <1>9
    <2> QED BY <1>1, <1>2, <1>5, <1>9, <2>1, <2>2, ReturnKeeps
  <1> QED BY <1>8, <1>9 DEF Restart

(* Linux refuses a choice that the file did not retain.                    *)
LEMMA RefuseKeeps ==
  ASSUME Inv, Apply, Refuse, UNCHANGED windows
  PROVE  Inv'
  <1>1. /\ pc = "apply" /\ op = "load" /\ Return("idle") /\ UNCHANGED <<exists, text, temp>>
        /\ temp \in {"none", "whole"} /\ ~Replacing /\ astray' = astray \cup {choice.key}
        /\ UNCHANGED <<inForce, current, last, marked, faults>>
    BY DEF Apply, Refuse, Inv, TypeOK, fileVars, Replacing
  <1>2. /\ choice \in [key : Key, value : Value] /\ astray \subseteq Key
        /\ inForce \in Setting /\ current \in Setting
        /\ last \in [Key -> SUBSET (Value \cup {None})]
        /\ marked \in [Key -> SUBSET (Value \cup {None})]
    BY DEF Inv, TypeOK
  <1>3. ASSUME NEW k \in Key \ astray'
        PROVE  /\ marked'[k] = last'[k]
               /\ current'[k] # None =>
                    inForce'[k] = current'[k] /\ Taken(Meaning(text))[k] = current'[k]
    BY <1>1 DEF Inv, MenuInv, Pending, Written
  <1>4. astray' \subseteq Key
    BY <1>1, <1>2
  <1> QED BY <1>1, <1>2, <1>3, <1>4, ReturnKeeps

(* The call ends.                                                          *)
LEMMA ApplyKeeps ==
  ASSUME Inv, Apply, UNCHANGED windows
  PROVE  Inv'
  <1>1. CASE Begin
    BY <1>1, BeginKeeps
  <1>2. CASE CallBack
    BY <1>2, SetModeKeeps, RestartKeeps DEF CallBack
  <1>3. CASE Refuse
    BY <1>3, RefuseKeeps
  <1> QED BY <1>1, <1>2, <1>3 DEF Apply

(* The loop of the tray moves a mark, or fails half-way.                   *)
LEMMA MoveMarkKeeps ==
  ASSUME Inv, NEW k \in Key, MoveMark(k), UNCHANGED windows
  PROVE  Inv'
  <1> USE DEF Inv
  <1>1. /\ pc = "idle" /\ last' = [last EXCEPT ![k] = {current[k]}]
        /\ UNCHANGED <<exists, text, temp, new, pc, op, choice, cfg, inForce, current, windows>>
        /\ Faulty \/ UNCHANGED faults
    BY DEF MoveMark, fileVars, writeVars, callVars
  <1>2. \/ marked' = [marked EXCEPT ![k] = {current[k]}] /\ UNCHANGED astray
        \/ /\ \E m \in {{}, marked[k], marked[k] \cup {current[k]}} :
                marked' = [marked EXCEPT ![k] = m]
           /\ astray' = astray \cup {k}
    BY DEF MoveMark
  <1>3. /\ current[k] \in Value \cup {None} /\ astray \subseteq Key
        /\ last \in [Key -> SUBSET (Value \cup {None})]
        /\ marked \in [Key -> SUBSET (Value \cup {None})]
    BY DEF TypeOK, Setting
  <1>4. faults' \in 0..MaxFaults
    BY <1>1, FaultsBounded DEF TypeOK
  <1>5. last' \in [Key -> SUBSET (Value \cup {None})] /\ astray' \subseteq Key
    BY <1>1, <1>2, <1>3
  <1>6. marked' \in [Key -> SUBSET (Value \cup {None})]
    BY <1>2, <1>3
  <1>7. TypeOK'
    BY <1>1, <1>4, <1>5, <1>6 DEF TypeOK
  <1>8. CallInv' /\ TextInv' /\ LoadInv'
    BY <1>1 DEF CallInv, TextInv, LoadInv, Writing
  <1>9. MenuInv'
    <2>1. /\ Written' = Written /\ \A q \in Key : Pending(q)' <=> Pending(q)
          /\ Taken(Meaning(Written))' = Taken(Meaning(Written))
      BY <1>1 DEF Written, Replacing, Pending, Taken
    <2>2. ASSUME NEW q \in Key \ astray'
          PROVE  q \in Key \ astray /\ marked'[q] = last'[q]
      BY <1>1, <1>2, <1>3 DEF MenuInv
    <2> QED BY <1>1, <2>1, <2>2 DEF MenuInv
  <1> QED BY <1>7, <1>8, <1>9

(* The launcher ends, or dies, at any step.                                *)
LEMMA DiesKeeps ==
  ASSUME Inv, Dies, UNCHANGED windows
  PROVE  Inv'
  <1>1. /\ Return("down") /\ UNCHANGED <<exists, text, faults>> /\ temp' = "none"
        /\ inForce' = Defaults /\ current' = Defaults /\ last' = NoMarks
        /\ marked' = NoMarks /\ astray' = {}
    BY DEF Dies, fileVars
  <1>2. Defaults \in Setting /\ NoMarks \in [Key -> SUBSET (Value \cup {None})]
    BY DEF Defaults, Setting, NoMarks
  <1>3. \A k \in Key : marked'[k] = last'[k] /\ current'[k] = None
    BY <1>1 DEF NoMarks, Defaults
  <1> QED BY <1>1, <1>2, <1>3, ReturnKeeps

(* Nothing happens.                                                        *)
LEMMA StutterKeeps ==
  ASSUME Inv, UNCHANGED vars
  PROVE  Inv'
  <1>1. /\ UNCHANGED <<exists, text, temp, new, pc, op, choice, cfg, inForce, current>>
        /\ UNCHANGED <<last, marked, astray, faults, windows>>
    BY DEF vars, fileVars, writeVars, callVars, menuVars
  <1>2. TypeOK'
    BY <1>1 DEF Inv, TypeOK
  <1>3. Written' = Written /\ (Replacing' <=> Replacing)
    BY <1>1 DEF Written, Replacing
  <1>4. CallInv' /\ TextInv' /\ LoadInv'
    BY <1>1, <1>3 DEF Inv, CallInv, TextInv, LoadInv
  <1>5. MenuInv'
    BY <1>1, <1>3 DEF Inv, MenuInv, Pending, Taken
  <1> QED BY <1>2, <1>4, <1>5 DEF Inv

(* Every step keeps the invariant.                                         *)
LEMMA NextKeeps == Inv /\ [Next]_vars => Inv'
  <1> SUFFICES ASSUME Inv, [Next]_vars PROVE Inv'
    OBVIOUS
  <1>1. CASE UNCHANGED vars
    BY <1>1, StutterKeeps
  <1>2. CASE Next
    <2>1. UNCHANGED windows
      BY <1>2 DEF Next
    <2>2. CASE Launch
      BY <2>1, <2>2, LaunchKeeps
    <2>10. CASE Copy
      BY <2>1, <2>10, CopyKeeps
    <2>3. CASE Read
      BY <2>1, <2>3, ReadKeeps
    <2>4. CASE ReadFails
      BY <2>1, <2>4, ReadFailsKeeps
    <2>5. CASE AtomicWrite
      BY <2>1, <2>5, TemporaryKeeps, RemoveKeeps, RenameKeeps, WriteFailsKeeps DEF AtomicWrite
    <2>6. CASE Apply
      BY <2>1, <2>6, ApplyKeeps
    <2>7. CASE Dies
      BY <2>1, <2>7, DiesKeeps
    <2>8. CASE \E k \in Key, v \in Value : Choose(k, v)
      BY <2>1, <2>8, ChooseKeeps
    <2>9. CASE TrayLoop
      BY <2>1, <2>9, MoveMarkKeeps DEF TrayLoop
    <2> QED BY <1>2, <2>2, <2>3, <2>4, <2>5, <2>6, <2>7, <2>8, <2>9, <2>10 DEF Next
  <1> QED BY <1>1, <1>2

-----------------------------------------------------------------------------
(* The results.                                                            *)

(* The inductive invariant of the menu choices and their file.             *)
THEOREM Invariance == Spec => []Inv
  BY Initial, NextKeeps, PTL DEF Spec

(* The variables keep their types: no error leaves half a temporary file   *)
(* behind, and the file, however it is repaired and changed, is made of    *)
(* assignments.                                                            *)
THEOREM TypeCorrect == Spec => []TypeOK
  <1>1. Inv => TypeOK
    BY DEF Inv
  <1> QED BY <1>1, Invariance, PTL

(* A choice that has been persisted is in the file, as toml accepts it:    *)
(* whatever was in the file, however many lines, and whatever failed       *)
(* before.                                                                 *)
THEOREM ChoiceStored == Spec => []ChoiceIsStored
  <1>1. Inv => ChoiceIsStored
    BY DEF Inv, TextInv, ChoiceIsStored, Clean
  <1> QED BY <1>1, Invariance, PTL

(* What is checked in a menu is in force and is what the next start finds, *)
(* for any number of options, values, choices and failures.                *)
THEOREM Checked == Spec => []CheckedIsChosen
  <1>1. Inv => CheckedIsChosen
    <2> SUFFICES ASSUME Inv, pc = "idle", NEW k \in Key \ astray, last[k] = {current[k]},
                        NEW v \in marked[k] \ {None}
                 PROVE  inForce[k] = v /\ Taken(Meaning(text))[k] = v
      BY DEF CheckedIsChosen
    <2>1. marked[k] = last[k] /\ v = current[k] /\ current[k] # None
      BY DEF Inv, MenuInv
    <2>2. Written = text /\ ~Pending(k)
      BY DEF Inv, CallInv, Written, Replacing, Pending
    <2> QED BY <2>1, <2>2 DEF Inv, MenuInv
  <1> QED BY <1>1, Invariance, PTL

(* When the new text becomes what counts, one option at most changes.      *)
LEMMA NewTextStored ==
  ASSUME Inv, pc \in Writing, Meaning(Written)' = Meaning(new)
  PROVE  Store!Next \/ UNCHANGED Meaning(Written)
  <1>1. choice.key \in Key /\ choice.value \in Value
    BY DEF Inv, TypeOK
  <1>2. CASE Meaning(new) = Meaning(Written)
    BY <1>2
  <1>3. CASE Meaning(new) = [Meaning(Written) EXCEPT ![choice.key] = choice.value]
    <2>1. Store!Store(choice.key, choice.value)
      BY <1>3 DEF Store!Store
    <2> QED BY <1>1, <2>1 DEF Store!Next
  <1> QED BY <1>2, <1>3, NewText

(* While the file stays and the rename of Windows does not begin, what     *)
(* counts stays.                                                           *)
LEMMA TextStays ==
  ASSUME ~Replacing, text' = text, pc' # "rename"
  PROVE  UNCHANGED Meaning(Written)
  <1>1. Written = text /\ Written' = text
    BY DEF Written, Replacing
  <1> QED BY <1>1

(* Every step of the launcher is a step of ConfigStore, or Windows loses   *)
(* the file between removing it and the rename.                            *)
LEMMA StoreStep ==
  ASSUME Inv, [Next]_vars
  PROVE  Store!Next \/ UNCHANGED Meaning(Written) \/ (Replacing /\ ~exists')
  <1>1. CASE UNCHANGED vars
    <2>1. UNCHANGED <<exists, text, new, pc, windows>>
      BY <1>1 DEF vars, fileVars, writeVars
    <2>2. Written' = Written
      BY <2>1 DEF Written, Replacing
    <2> QED BY <2>2
  <1>2. CASE Launch \/ Copy
    <2>1. ~Replacing /\ Written = text /\ Written' = text'
      BY <1>2 DEF Launch, Copy, Replacing, Written
    <2>2. CASE text' = text
      BY <2>1, <2>2
    <2>3. CASE Copy
      <3>1. Meaning(Written) = [k \in Key |-> None]
        BY <2>1, <2>3, EmptyText DEF Copy, Inv, CallInv, Defaults
      <3>2. text' \in PartialText \cup {PackagedText}
        BY <2>3 DEF Copy
      <3>3. Store!Provision
        BY <2>1, <3>1, <3>2, ProvisionedText DEF Store!Provision
      <3> QED BY <3>3 DEF Store!Next
    <2>4. CASE Launch /\ ~exists
      BY <2>1, <2>2, <2>4 DEF Launch, Inv, TypeOK, fileVars
    <2> QED BY <1>2, <2>2, <2>3, <2>4 DEF Launch, fileVars
  <1>3. CASE Read
    <2>1. ~Replacing /\ text' = text /\ pc' # "rename"
      BY <1>3 DEF Read, Continue, Replacing, fileVars
    <2> QED BY <2>1, TextStays
  <1>4. CASE ReadFails \/ WriteFails
    <2>1. text' = text /\ exists' = exists /\ pc' \in {"idle", "apply"}
      BY <1>4 DEF ReadFails, WriteFails, Fails, Return, fileVars
    <2> QED BY <2>1, TextStays DEF Replacing
  <1>5. CASE Create \/ Write \/ Sync
    <2>1. /\ pc \in Writing /\ ~Replacing /\ UNCHANGED <<text, new>>
      BY <1>5 DEF Create, Write, Sync, Step, Replacing, Writing, fileVars
    <2>2. Written = text /\ Written' \in {text, new}
      BY <2>1 DEF Written
    <2>3. CASE Written' = text
      BY <2>2, <2>3
    <2>4. CASE Written' = new
      <3>1. Meaning(Written)' = Meaning(new)
        BY <2>4
      <3> QED BY <2>1, <3>1, NewTextStored
    <2> QED BY <2>2, <2>3, <2>4
  <1>6. CASE Remove
    <2>1. /\ pc \in Writing /\ pc' = "rename" /\ exists' = FALSE /\ new' = new /\ windows
      BY <1>6 DEF Remove, Step, Writing, Inv, CallInv
    <2>2. CASE windows' = windows
      <3>1. Meaning(Written)' = Meaning(new)
        BY <2>1, <2>2 DEF Written, Replacing
      <3> QED BY <2>1, <3>1, NewTextStored
    <2> QED BY <1>1, <2>2 DEF Next
  <1>7. CASE Rename
    <2>1. pc \in Writing /\ exists' = TRUE /\ text' = new
      BY <1>7 DEF Rename, Writing
    <2>2. Meaning(Written)' = Meaning(new)
      BY <2>1 DEF Written, Replacing
    <2> QED BY <2>1, <2>2, NewTextStored
  <1>8. CASE Apply \/ TrayLoop \/ \E k \in Key, v \in Value : Choose(k, v)
    <2>1. ~Replacing /\ text' = text /\ pc' # "rename"
      BY <1>8 DEF Apply, Return, TrayLoop, MoveMark, Choose, Replacing, fileVars
    <2> QED BY <2>1, TextStays
  <1>9. CASE Dies
    <2>1. text' = text /\ exists' = exists /\ pc' = "down"
      BY <1>9 DEF Dies, Return, fileVars
    <2> QED BY <2>1, TextStays DEF Replacing
  <1> QED BY <1>1, <1>2, <1>3, <1>4, <1>5, <1>6, <1>7, <1>8, <1>9 DEF Next, AtomicWrite

(* launcher.toml changes one option at a time, and the repair changes      *)
(* none, unless the rename of Windows does not happen; the provisioning of *)
(* Linux, that an error or a death breaks off, leaves each option unset or *)
(* as it was packaged, but for one at most that has lost its value.        *)
THEOREM StoredOneAtATime == Spec => StoredUnlessReplacing
  <1>1. Inv /\ [Next]_vars =>
          [\/ Store!Next
           \/ UNCHANGED Meaning(Written)
           \/ Replacing /\ ~exists']_vars
    BY StoreStep
  <1> QED BY <1>1, Invariance, PTL DEF Spec, StoredUnlessReplacing

(* launcher.toml is the store that ConfigStore promises: every behaviour   *)
(* of the launcher in which each rename that Windows has begun is done is  *)
(* one of ConfigStore.                                                     *)
THEOREM ConfigImplementsStore ==
  Spec /\ [][Replacing => exists']_vars => Store!Spec
  <1>1. Init => Store!Init
    <2> SUFFICES ASSUME Init PROVE Meaning(Written) \in [Key -> Value \cup {Bad, None}]
      BY DEF Store!Init
    <2>1. Inv /\ Written = text
      BY Initial DEF Init, Written, Replacing
    <2> QED BY <2>1, MeaningType DEF Inv, TypeOK
  <1>2. Inv /\ [Next]_vars /\ [Replacing => exists']_vars =>
          [Store!Next]_(Meaning(Written))
    <2> SUFFICES ASSUME Inv, [Next]_vars, [Replacing => exists']_vars
                 PROVE  Store!Next \/ UNCHANGED Meaning(Written)
      OBVIOUS
    <2>1. CASE UNCHANGED vars
      <3>1. UNCHANGED <<exists, text, new, pc, windows>>
        BY <2>1 DEF vars, fileVars, writeVars
      <3>2. Written' = Written
        BY <3>1 DEF Written, Replacing
      <3> QED BY <3>2
    <2>2. CASE Replacing => exists'
      BY <2>2, StoreStep
    <2> QED BY <2>1, <2>2
  <1> QED BY <1>1, <1>2, Invariance, PTL DEF Spec, Store!Spec

(* The Linux launcher implements ConfigStore whatever fails or dies: that  *)
(* a provisioning may break off is part of what ConfigStore promises.      *)
THEOREM LinuxImplementsStore == Spec /\ ~windows => Store!Spec
  <1>1. ~windows /\ [Next]_vars => ~windows'
    BY DEF Next, vars
  <1>2. ~windows /\ [Next]_vars => [Replacing => exists']_vars
    BY DEF Replacing
  <1> QED BY <1>1, <1>2, ConfigImplementsStore, PTL DEF Spec

(* A choice does not undo another one.                                     *)
THEOREM OthersKeep == Spec => OthersSurvive
  <1>1. ASSUME Inv, Next, op = "load", pc' = "idle", windows => cfg = Loaded(text),
               NEW k \in Key \ {choice.key}
        PROVE  inForce'[k] \in {inForce[k], Loaded(text)[k]}
    <2>1. /\ choice \in [key : Key, value : Value] /\ cfg \in Setting /\ inForce \in Setting
          /\ text \in Seq(Entry)
      BY <1>1 DEF Inv, TypeOK
    <2>2. CASE inForce' = inForce
      BY <2>2
    <2>3. CASE Apply
      <3>1. CASE choice.key \in Strict /\ SetMode
        BY <2>1, <3>1 DEF SetMode, WithChoice, Setting
      <3>2. CASE choice.key \notin Strict /\ Retained /\ Restart
        <4>1. inForce'[k] = IF k \in Strict THEN inForce[k] ELSE cfg[k]
          BY <2>1, <3>2 DEF Restart, WithChoice, Reloaded, Setting
        <4>2. cfg = Loaded(text)
          <5>1. CASE windows
            BY <1>1, <5>1
          <5>2. CASE ~windows
            <6>1. cfg # Defaults
              BY <2>1, <3>2, <5>2, ConfigAssumption DEF Retained, Defaults
            <6> QED BY <1>1, <2>3, <3>2, <6>1 DEF Apply, Inv, LoadInv
          <5> QED BY <5>1, <5>2
        <4> QED BY <4>1, <4>2
      <3>3. CASE Refuse
        BY <3>3 DEF Refuse
      <3> QED BY <1>1, <2>3, <3>1, <3>2, <3>3 DEF Apply, Begin, CallBack
    <2>4. CASE Launch \/ Copy \/ Read \/ ReadFails \/ AtomicWrite \/ TrayLoop
      BY <2>2, <2>4 DEF Launch, Copy, Read, ReadFails, AtomicWrite, Create, Write, Sync, Remove,
                        Rename, WriteFails, Step, Fails, TrayLoop, MoveMark
    <2>5. CASE Dies \/ \E q \in Key, v \in Value : Choose(q, v)
      BY <1>1, <2>5 DEF Dies, Return, Choose
    <2> QED BY <1>1, <2>3, <2>4, <2>5 DEF Next
  <1>2. Inv /\ [Next]_vars =>
          [op = "load" /\ pc' = "idle" /\ (windows => cfg = Loaded(text)) =>
             \A k \in Key \ {choice.key} : inForce'[k] \in {inForce[k], Loaded(text)[k]}]_vars
    BY <1>1
  <1> QED BY <1>2, Invariance, PTL DEF Spec, OthersSurvive
=============================================================================
