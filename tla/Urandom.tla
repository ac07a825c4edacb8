------------------------------ MODULE Urandom -------------------------------
(***************************************************************************)
(* The random strings of the KCNet client, urandom_test.cpp and its        *)
(* header: random_password_counts with random_from_alphabet and            *)
(* read_exact, and urandom_string.  One action is one read(2) of           *)
(* /dev/urandom or one step between two reads.                             *)
(*                                                                         *)
(* A byte is its place, from 1, in what /dev/urandom gave this call; 0 is  *)
(* the zero that a fresh buffer holds.  A character is the alphabet it was *)
(* taken from and the byte that chose it: the alphabets are not empty, so  *)
(* byte % size is always an index.                                         *)
(***************************************************************************)
EXTENDS Integers, Sequences, FiniteSets, Functions

CONSTANTS
    Requests,    \* the numbers asked for of each class: [Classes -> Nat]
    Lengths      \* the lengths asked of urandom_string

Classes == {"digits", "letters", "symbols"}
WordSize == 8                       \* sizeof(uint64_t)

ASSUME RequestsAssumption == Requests \subseteq [Classes -> Nat]
ASSUME LengthsAssumption == Lengths \subseteq Nat

VARIABLES
    stage,       \* "idle"; the alphabet in turn, then "shuffle"; "string"; the end
    request,     \* numNumbers, numLetters, numSymbols; or the length
    dst,         \* the buffer being read into
    done,        \* read_exact's count of bytes read
    drawn,       \* the bytes that /dev/urandom gave this call
    out,         \* the string made so far
    turn,        \* i, the loop counter of the shuffle
    draws        \* history: the index drawn at each turn of the shuffle

randomVars == <<stage, request, dst, done, drawn, out, turn, draws>>

Zeros(n) == [k \in 1 .. n |-> 0]

RandomInit ==
    /\ stage = "idle" /\ request = <<>> /\ dst = <<>>
    /\ done = 0 /\ drawn = 0 /\ out = <<>> /\ turn = 0 /\ draws = <<>>

-----------------------------------------------------------------------------
(* Reading.                                                                *)

\* read(2) stores r bytes at p + done.
ReadStores(r) ==
    /\ dst' = [k \in DOMAIN dst |->
                  IF k \in done + 1 .. done + r THEN drawn + k - done
                  ELSE dst[k]]
    /\ drawn' = drawn + r

\* Mutant: the whole length is asked for again after a short read.
AskedWhole == Len(dst)
\* read(2) is asked for the bytes that are missing and may give fewer.
Asked == Len(dst) - done

\* One turn of the loop of read_exact.
read_exact ==
    /\ stage \in Classes \cup {"shuffle"} /\ done < Len(dst)
    /\ \E r \in 1 .. Asked : ReadStores(r) /\ done' = done + r
    /\ UNCHANGED <<stage, request, out, turn, draws>>

\* read(2) gives nothing, or an error: read_exact throws.
ReadFails ==
    /\ stage \in Classes \cup {"shuffle"} /\ done < Len(dst)
    /\ stage' = "thrown"
    /\ UNCHANGED <<request, dst, done, drawn, out, turn, draws>>

\* Mutant: read_exact is left after its first read.
ReadIsComplete == done > 0 \/ Len(dst) = 0
ReadComplete == done = Len(dst)

-----------------------------------------------------------------------------
(* random_password_counts                                                  *)

Enter(s, size) == stage' = s /\ dst' = Zeros(size) /\ done' = 0

random_password_counts ==
    /\ stage = "idle"
    /\ request' \in Requests
    /\ Enter("digits", request'["digits"])
    /\ UNCHANGED <<drawn, out, turn, draws>>

\* The class that follows, in the order of random_password_counts.
Following == [digits |-> "letters", letters |-> "symbols"]

\* What the bytes of a buffer choose from an alphabet.
Chars(class, buf) == [k \in DOMAIN buf |-> <<class, buf[k]>>]

\* The loop runs while i > 1.
EnterShuffle ==
    IF turn' > 1 THEN Enter("shuffle", WordSize)
    ELSE stage' = "returned" /\ UNCHANGED <<dst, done>>

\* random_from_alphabet returns and its string is appended.
random_from_alphabet ==
    /\ stage \in Classes /\ ReadComplete
    /\ out' = out \o Chars(stage, dst)
    /\ IF stage # "symbols"
       THEN Enter(Following[stage], request[Following[stage]]) /\ UNCHANGED turn
       ELSE turn' = Len(out') /\ EnterShuffle
    /\ UNCHANGED <<request, drawn, draws>>

\* Mutant: the character at i-1 is overwritten, not swapped.
SwappedOneWay(s, m, j) == [s EXCEPT ![m] = s[j + 1]]

\* The characters at m-1 and j change places.
Swapped(s, m, j) == [s EXCEPT ![m] = s[j + 1], ![j + 1] = s[m]]

\* Mutant: the character at i-1 is never left where it is.
IndicesBelow(m) == 0 .. m - 2
\* x % m, for any x of 64 bits.
Indices(m) == 0 .. m - 1

Shuffle ==
    /\ stage = "shuffle" /\ ReadComplete
    /\ \E j \in Indices(turn) :
          /\ out' = Swapped(out, turn, j)
          /\ draws' = Append(draws, j)
    /\ turn' = turn - 1
    /\ EnterShuffle
    /\ UNCHANGED <<request, drawn>>

-----------------------------------------------------------------------------
(* urandom_string                                                          *)

\* The call, up to its read.
OpenString ==
    /\ stage = "idle"
    /\ request' \in [{"string"} -> Lengths]
    /\ Enter("string", request'["string"])
    /\ UNCHANGED <<drawn, out, turn, draws>>

\* One read; a string only when it gave every byte.
urandom_string ==
    /\ stage = "string"
    /\ ReadStores(Len(dst))
    /\ out' = Chars("string", dst')
    /\ stage' = "returned"
    /\ UNCHANGED <<request, done, turn, draws>>

urandom_stringThrows ==
    /\ stage = "string"
    /\ \E r \in 0 .. Len(dst) - 1 : ReadStores(r)
    /\ stage' = "thrown"
    /\ UNCHANGED <<request, done, out, turn, draws>>

RandomNext ==
    \/ random_password_counts \/ OpenString
    \/ read_exact \/ ReadFails \/ random_from_alphabet \/ Shuffle
    \/ urandom_string \/ urandom_stringThrows

RandomSpec == RandomInit /\ [][RandomNext]_randomVars

-----------------------------------------------------------------------------
(* Properties                                                              *)

\* Every variable keeps its type; a read never runs past its buffer.
RandomTypeOK ==
    /\ stage \in Classes \cup {"idle", "shuffle", "string", "returned", "thrown"}
    /\ stage # "idle" => request \in Requests \cup [{"string"} -> Lengths]
    /\ dst \in Seq(0 .. drawn) /\ done \in 0 .. Len(dst) /\ drawn \in Nat
    /\ turn \in Nat /\ draws \in Seq(Nat)
    /\ out \in Seq((Classes \cup {"string"}) \X (0 .. drawn))

\* A string that is returned has the numbers of digits, letters and symbols
\* that were asked for: the shuffle of random_password_counts neither loses nor
\* doubles a character's class.
ChosenCounts ==
    stage = "returned" /\ request \in Requests =>
        \A c \in Classes :
            Cardinality({k \in DOMAIN out : out[k][1] = c}) = request[c]

\* Every character is chosen by a random byte of its own, short reads or not,
\* shuffled or not: read_exact and urandom_string leave no byte of a buffer zero.
OwnRandomByte ==
    \A k \in DOMAIN out :
        /\ out[k][2] # 0
        /\ \A l \in DOMAIN out : out[k][2] = out[l][2] => k = l

\* The orders that 1 .. n goes through as the indices d are drawn.
Orders(n, d) ==
    LET Order[k \in 0 .. Len(d)] ==
            IF k = 0 THEN [m \in 1 .. n |-> m]
            ELSE Swapped(Order[k - 1], n + 1 - k, d[k])
    IN Order

Replay(n, d) == Orders(n, d)[Len(d)]

AllDraws(n) ==
    {d \in [1 .. n - 1 -> 0 .. n - 1] : \A k \in 1 .. n - 1 : d[k] \in Indices(n + 1 - k)}

\* Fisher-Yates: random_password_counts returns the characters in the order the
\* drawn indices say, and each order comes from one sequence of indices and from
\* no other.
EveryOrderOnce ==
    stage = "returned" /\ request \in Requests =>
        LET n == Len(out)
        IN /\ draws \in AllDraws(n)
           /\ [k \in 1 .. n |-> out[k][2]] = Replay(n, draws)
           /\ [d \in AllDraws(n) |-> Replay(n, d)]
                  \in Bijection(AllDraws(n), Bijection(1 .. n, 1 .. n))
=============================================================================
