------------------------------ MODULE Fixtures ------------------------------
(***************************************************************************)
(* The task fixtures (src/detects/fixtures.py): run() and check_witness()  *)
(* of the seven of them, over the values JSON gives Python.                *)
(*                                                                         *)
(* A value is <<kind, x>>: an "int" of any size; a whole "float"; a        *)
(* "bool", x being 0 or 1; "none"; a "list" of values; a "str", x being    *)
(* its place in the order of texts.  Dicts, fractions and NaN are left     *)
(* out, and so are lists nested more than once and texts given where a     *)
(* list is wanted.  inputs is a function from input names to values.       *)
(***************************************************************************)
EXTENDS Schema

CONSTANTS
    Repr,       \* Repr[v]: the text Python prints for the list v
    Numeral,    \* Numeral[x]: the integer the text x writes; other texts write none
    Bytes,      \* Bytes[x]: the bytes the hex text x writes
    Hex,        \* Hex[b]: the text of the SHA-256 digest of the bytes b, in hex
    FloatMax,   \* the largest int a float can hold
    MaxSleep    \* the longest time time.sleep() takes, in seconds

ASSUME NumeralAssumption == \A x \in DOMAIN Numeral : Numeral[x] \in Int
ASSUME BytesAssumption == \A x \in DOMAIN Bytes : Bytes[x] # Raised /\ Hex[Bytes[x]] \in Int
ASSUME FloatAssumption == FloatMax \in Nat \ {0} /\ MaxSleep \in Nat \ {0}

(* An exception is not an answer of a check. *)
ASSUME RaisedAssumption == Raised \notin {"pass", "fail"}

NumberKinds == {"int", "float", "bool"}

(* What is a value here; a list in a list holds no further lists. *)
Scalar(v) == /\ v = <<v[1], v[2]>>
             /\ v[1] \in NumberKinds \cup {"none", "str"}
             /\ v[1] \in NumberKinds \cup {"str"} => v[2] \in Int

Sequence(s) == Len(s) \in Nat /\ DOMAIN s = 1..Len(s)

FlatList(v) == /\ v = <<"list", v[2]>>
               /\ Sequence(v[2]) /\ \A i \in DOMAIN v[2] : Scalar(v[2][i])

Element(v) == Scalar(v) \/ FlatList(v)

List(v) == /\ v = <<"list", v[2]>>
           /\ Sequence(v[2]) /\ \A i \in DOMAIN v[2] : Element(v[2][i])

Value(v) == Scalar(v) \/ List(v)

Values(inputs) == \A k \in DOMAIN inputs : Value(inputs[k])

(* What Python's == and hash() see of a value: True, 1 and 1.0 are equal. *)
Key(v) == IF v[1] \in NumberKinds THEN <<"number", v[2]>> ELSE v

(* _H and the hash table it feeds: a list stands in for its own text. *)
HKey(v) == IF v[1] = "list" THEN <<"str", Repr[v]>> ELSE Key(v)

(* v < w raises unless both are numbers, both texts, or both lists that    *)
(* can be compared where they first differ.                                *)
ScalarsCompare(v, w) == \/ v[1] \in NumberKinds /\ w[1] \in NumberKinds
                        \/ v[1] = "str" /\ w[1] = "str"

Differ(v, w) == {i \in DOMAIN v[2] \cap DOMAIN w[2] : Key(v[2][i]) # Key(w[2][i])}
FirstDiffer(v, w) == CHOOSE i \in Differ(v, w) : \A j \in Differ(v, w) : i <= j

Comparable(v, w) ==
    IF v[1] = "list" /\ w[1] = "list"
    THEN Differ(v, w) # {} =>
            ScalarsCompare(v[2][FirstDiffer(v, w)], w[2][FirstDiffer(v, w)])
    ELSE ScalarsCompare(v, w)

Less(v, w) ==
    IF v[1] # "list" THEN v[2] < w[2]
    ELSE IF Differ(v, w) = {} THEN Len(v[2]) < Len(w[2])
    ELSE v[2][FirstDiffer(v, w)][2] < w[2][FirstDiffer(v, w)][2]

(* inputs[k], int() and list() of it. *)
Given(inputs, k) == IF k \in DOMAIN inputs THEN inputs[k] ELSE Raised

IntOf(v) == IF v = Raised THEN Raised
            ELSE IF v[1] \in NumberKinds THEN v[2]
            ELSE IF v[1] = "str" /\ v[2] \in DOMAIN Numeral THEN Numeral[v[2]]
            ELSE Raised

ItemsOf(v) == IF v # Raised /\ v[1] = "list" THEN v[2] ELSE Raised

BytesOf(v) == IF v # Raised /\ v[1] = "str" /\ v[2] \in DOMAIN Bytes
              THEN Bytes[v[2]] ELSE Raised

-----------------------------------------------------------------------------
(* A check returns TRUE or FALSE, here "pass" or "fail", or raises. *)
Answer(passed) == IF passed THEN "pass" ELSE "fail"

ClosedForm(n) == (n * (n + 1)) \div 2

SumRangeRun(n) == IF n = Raised \/ n < 0 THEN Raised ELSE <<"int", ClosedForm(n)>>

SumRangeCheck(n, claim) ==
    IF n = Raised THEN Raised
    ELSE Answer(Key(claim) = <<"number", ClosedForm(n)>>)

(* sorted() is stable; it compares any two neighbours of its result. *)
SortRun(items) ==
    IF items = Raised
       \/ \E i, j \in DOMAIN items : i # j /\ ~ Comparable(items[i], items[j])
    THEN Raised
    ELSE LET Before(j, i) == \/ j = i
                             \/ Less(items[j], items[i])
                             \/ j < i /\ ~ Less(items[i], items[j])
             Place(i) == Cardinality({j \in DOMAIN items : Before(j, i)})
         IN  <<"list", [k \in DOMAIN items |->
                           items[CHOOSE i \in DOMAIN items : Place(i) = k]]>>

Count(items, key) == Cardinality({i \in DOMAIN items : HKey(items[i]) = key})
HKeys(items) == {HKey(items[i]) : i \in DOMAIN items}

SamePerKey(out, items) ==
    \A key \in HKeys(out) \cup HKeys(items) : Count(out, key) = Count(items, key)

(* Same length, same values (mutant of SortCheck). *)
SortCheckUnordered(items, claim) ==
    IF items = Raised THEN Raised
    ELSE Answer(claim[1] = "list" /\ SamePerKey(claim[2], items))

(* The pairs of neighbours are compared from the left until one descends. *)
SortCheck(items, claim) ==
    LET out == claim[2]
        Pairs == 1..(Len(out) - 1)
        Raises(i) == ~ Comparable(out[i], out[i + 1])
        Descends(i) == ~ Raises(i) /\ Less(out[i + 1], out[i])
    IN  IF items = Raised THEN Raised
        ELSE IF claim[1] # "list" THEN "fail"
        ELSE IF ~ SamePerKey(out, items) THEN "fail"
        ELSE IF \E i \in Pairs : Raises(i) /\ \A j \in 1..i : ~ Descends(j) THEN Raised
        ELSE Answer(\A i \in Pairs : ~ Descends(i))

(* The positions at which a value is seen for the first time. *)
FirstSeen(items) == {i \in DOMAIN items : \A j \in 1..(i - 1) : HKey(items[j]) # HKey(items[i])}

(* A list cannot be a key of a dict. *)
DedupeRun(items) ==
    IF items = Raised \/ \E i \in DOMAIN items : items[i][1] = "list" THEN Raised
    ELSE LET kept == FirstSeen(items)
             Nth(k) == CHOOSE i \in kept : Cardinality({j \in kept : j <= i}) = k
         IN  <<"list", [k \in 1..Cardinality(kept) |-> items[Nth(k)]]>>

DedupeCheck(items, claim) ==
    LET out == claim[2]
        First(v) == CHOOSE i \in FirstSeen(items) : HKey(items[i]) = HKey(v)
    IN  IF items = Raised THEN Raised
        ELSE IF claim[1] # "list" THEN "fail"
        ELSE Answer(/\ Len(out) = Cardinality(HKeys(out))
                    /\ HKeys(out) = HKeys(items)
                    /\ \A i, j \in DOMAIN out : i < j => First(out[i]) <= First(out[j]))

ShaRun(bytes) == IF bytes = Raised THEN Raised ELSE <<"str", Hex[bytes]>>

ShaCheck(bytes, claim) ==
    IF bytes = Raised THEN Raised ELSE Answer(claim = <<"str", Hex[bytes]>>)

(* Trial division up to the square root. *)
IsPrime(x) == x > 1 /\ \A d \in 2..(x - 1) : d * d <= x => x % d # 0

(* The first candidate from c on that is prime. *)
NextPrime[c \in Nat] == IF IsPrime(c) THEN c ELSE NextPrime[c + 1]

NthPrime[n \in Nat] == IF n <= 1 THEN 2 ELSE NextPrime[NthPrime[n - 1] + 1]

(* The square root of an int that no float can hold raises, be it a        *)
(* candidate, the last of which is the prime that is found, or a claim.    *)
NthPrimeRun(n) == IF n = Raised \/ n < 1 \/ NthPrime[n] > FloatMax THEN Raised
                  ELSE <<"int", NthPrime[n]>>

NthPrimeCheck(claim) ==
    IF claim[1] = "int" /\ claim[2] > FloatMax THEN Raised
    ELSE Answer(claim[1] = "int" /\ IsPrime(claim[2]))

-----------------------------------------------------------------------------
Registry == {"sum_range", "sort_list", "dedupe", "sha_blob", "nth_prime",
             "slow_task", "flaky_task"}

Repeatable == Registry \ {"slow_task", "flaky_task"}

(* slow_task and flaky_task: the closed form, for a negative n, too. *)
TimerRun(n) == IF n = Raised THEN Raised ELSE <<"int", ClosedForm(n)>>

(* time.sleep(float(sleep_s)) raises on what is no number, on a negative   *)
(* one and on one too large.                                               *)
SleepOf(inputs) == IF "sleep_s" \in DOMAIN inputs THEN IntOf(inputs["sleep_s"]) ELSE 1

SlowRun(inputs) ==
    IF SleepOf(inputs) = Raised \/ SleepOf(inputs) < 0 \/ SleepOf(inputs) > MaxSleep
    THEN Raised
    ELSE TimerRun(IntOf(Given(inputs, "n")))

FailTimes(inputs) == IF "fail_times" \in DOMAIN inputs
                     THEN IntOf(inputs["fail_times"]) ELSE 0

FlakyRun(inputs, attempt) ==
    IF FailTimes(inputs) = Raised \/ attempt <= FailTimes(inputs) THEN Raised
    ELSE TimerRun(IntOf(Given(inputs, "n")))

RunFixture(name, inputs, attempt) ==
    CASE name = "sum_range"  -> SumRangeRun(IntOf(Given(inputs, "n")))
      [] name = "sort_list"  -> SortRun(ItemsOf(Given(inputs, "items")))
      [] name = "dedupe"     -> DedupeRun(ItemsOf(Given(inputs, "items")))
      [] name = "sha_blob"   -> ShaRun(BytesOf(Given(inputs, "blob_hex")))
      [] name = "nth_prime"  -> NthPrimeRun(IntOf(Given(inputs, "n")))
      [] name = "slow_task"  -> SlowRun(inputs)
      [] name = "flaky_task" -> FlakyRun(inputs, attempt)
      [] OTHER               -> Raised

CheckWitness(name, inputs, claim) ==
    CASE name = "sort_list"  -> SortCheck(ItemsOf(Given(inputs, "items")), claim)
      [] name = "dedupe"     -> DedupeCheck(ItemsOf(Given(inputs, "items")), claim)
      [] name = "sha_blob"   -> ShaCheck(BytesOf(Given(inputs, "blob_hex")), claim)
      [] name = "nth_prime"  -> NthPrimeCheck(claim)
      [] name \in {"sum_range", "slow_task", "flaky_task"} ->
             SumRangeCheck(IntOf(Given(inputs, "n")), claim)
      [] OTHER               -> Raised

-----------------------------------------------------------------------------
(* What the fixtures are documented to compute (fixtures.py, the comments  *)
(* above each), said without the way they compute it; K tells which values *)
(* are to be taken for the same.                                           *)
SumTo[n \in Nat] == IF n = 0 THEN 0 ELSE n + SumTo[n - 1]

IsSort(K(_), out, items) ==
    /\ out[1] = "list" /\ Len(out[2]) = Len(items)
    /\ \E p \in [DOMAIN items -> DOMAIN items] :
          /\ \A i, j \in DOMAIN items : p[i] = p[j] => i = j
          /\ \A i \in DOMAIN items : K(out[2][i]) = K(items[p[i]])
    /\ \A i, j \in DOMAIN items : i < j => ~ Less(out[2][j], out[2][i])

IsDedupe(K(_), out, items) ==
    /\ out[1] = "list"
    /\ \E f \in [DOMAIN out[2] -> DOMAIN items] :
          /\ \A i, j \in DOMAIN f : i < j => f[i] < f[j]
          /\ \A i \in DOMAIN f : K(out[2][i]) = K(items[f[i]])
          /\ \A j \in DOMAIN items : \E i \in DOMAIN f :
                f[i] <= j /\ HKey(items[f[i]]) = HKey(items[j])
          /\ \A i, j \in DOMAIN f : HKey(out[2][i]) = HKey(out[2][j]) => i = j

HasTwoDivisors(x) == x[1] = "int" /\ {d \in 1..x[2] : x[2] % d = 0} = {1, x[2]} /\ x[2] # 1

PrimesUpTo(x) == {q \in 2..x : HasTwoDivisors(<<"int", q>>)}

Right(K(_), name, inputs, claim) ==
    LET n == IntOf(Given(inputs, "n"))
    IN  CASE name = "sort_list" -> IsSort(K, claim, inputs["items"][2])
          [] name = "dedupe"    -> IsDedupe(K, claim, inputs["items"][2])
          [] name = "sha_blob"  -> claim = <<"str", Hex[BytesOf(inputs["blob_hex"])]>>
          [] name = "nth_prime" -> HasTwoDivisors(claim)
          [] OTHER              -> n >= 0 => K(claim) = K(<<"int", SumTo[n]>>)

Itself(v) == v
=============================================================================
