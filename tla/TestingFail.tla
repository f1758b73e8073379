----------------------------- MODULE TestingFail -----------------------------
(***************************************************************************)
(* Fault injection of a testing build (os_unix.c): the call that is the    *)
(* n-th to be made along a given chain of callers fails.  A chain is given *)
(* as names of functions, the innermost first: a name finds the next frame *)
(* that begins with it, after "=" only the very next one, and after "?" it *)
(* may be left out, unless it is the last.                                 *)
(*                                                                         *)
(* There are two copies of it: for allocations, and for what TEST_FAIL     *)
(* marks.                                                                  *)
(***************************************************************************)
EXTENDS Naturals, Sequences, SequencesExt

CONSTANTS
  Pattern,   \* sequences of [mode, name]
  Begins,    \* pairs of a name and a function that begins with it
  Backtrace, \* copy -> backtraces of the calls that ask it
  MaxAfter,  \* bound: calls to let pass
  MaxAsked   \* bound: calls

Copy == {"alloc", "test"}

ASSUME TestingAssumption ==
  /\ \A p \in Pattern : p # <<>> /\ p \in Seq([mode : {"", "=", "?"}, name : STRING])
  /\ \A c \in Copy : \A f \in Backtrace[c] : f \in Seq(STRING)
  /\ MaxAfter \in Nat /\ MaxAsked \in Nat

VARIABLES
  fail_func, fail_after,  \* of each copy: wpa_trace_fail_func and the like
  armed,   \* history: what fail_after was set to, 0 for not yet
  along,   \* history: calls since then that came along the chain
  failed,  \* history: backtraces of those that failed
  asked    \* calls


TestingInit ==
  /\ fail_func = [c \in Copy |-> <<>>] /\ fail_after = [c \in Copy |-> 0]
  /\ armed = [c \in Copy |-> 0] /\ along = [c \in Copy |-> 0]
  /\ failed = [c \in Copy |-> <<>>] /\ asked = 0

\* The frames of the copy's own machinery, each skipped once, in this order.
Wrappers == [alloc |-> <<"testing_fail_alloc", "os_malloc", "os_zalloc", "os_calloc",
                         "os_realloc", "os_realloc_array", "os_strdup", "os_memdup">>,
             test |-> <<"testing_test_fail">>]

\* The first frame of trace f that is not one of them.
Caller(c, f) ==
  FoldLeft(LAMBDA i, w : IF i <= Len(f) /\ f[i] = w THEN i + 1 ELSE i, 1, Wrappers[c])

Fits(e, func) == <<e.name, func>> \in Begins

\* Variant: a name that must fit the very next frame is looked for.
FoundLoosely(p, f) ==
  LET found[x \in (1..(Len(f) + 1)) \X (1..Len(p))] ==
        LET i == x[1]  j == x[2] IN
        IF i > Len(f) THEN 0
        ELSE IF Fits(p[j], f[i]) THEN IF j = Len(p) THEN i ELSE found[<<i + 1, j + 1>>]
        ELSE IF p[j].mode = "?" /\ j < Len(p) THEN found[<<i, j + 1>>]
        ELSE found[<<i + 1, j>>]
  IN found

\* The loop over frames i and names j of the pattern, from either on: the frame
\* that the last name finds, 0 if it finds none.
Found(p, f) ==
  LET found[x \in (1..(Len(f) + 1)) \X (1..Len(p))] ==
        LET i == x[1]  j == x[2] IN
        IF i > Len(f) THEN 0
        ELSE IF Fits(p[j], f[i]) THEN IF j = Len(p) THEN i ELSE found[<<i + 1, j + 1>>]
        ELSE IF p[j].mode = "?" /\ j < Len(p) THEN found[<<i, j + 1>>]
        ELSE IF p[j].mode = "=" THEN 0 ELSE found[<<i + 1, j>>]
  IN found

Matches(p, f, first) == Found(p, f)[<<first, 1>>] # 0

-----------------------------------------------------------------------------
(* What a pattern means                                                    *)

\* at[j] is the frame name j stands for, 0 if it is left out.
Placed(p, f, first, at) ==
  \A j \in DOMAIN p :
    LET before == {at[k] : k \in 1..(j - 1)} \union {first - 1} IN
    \/ at[j] = 0 /\ p[j].mode = "?" /\ j < Len(p)
    \/ /\ at[j] # 0 /\ Fits(p[j], f[at[j]])
       /\ \A b \in before : b < at[j]
       /\ p[j].mode = "=" => at[j] - 1 \in before

\* Trace f came along chain p.
Along(p, f, first) == \E at \in [DOMAIN p -> {0} \union (first..Len(f))] : Placed(p, f, first, at)

Plain(p) == \A j \in DOMAIN p : p[j].mode = ""

-----------------------------------------------------------------------------

\* Whoever tests sets the pattern and the count.
Arm(c, p, n) ==
  /\ armed[c] = 0
  /\ fail_func' = [fail_func EXCEPT ![c] = p]
  /\ fail_after' = [fail_after EXCEPT ![c] = n] /\ armed' = [armed EXCEPT ![c] = n]
  /\ UNCHANGED <<along, failed, asked>>

Asked(c, f) ==
  /\ asked < MaxAsked /\ asked' = asked + 1
  /\ along' = [along EXCEPT ![c] =
       IF armed[c] # 0 /\ Along(fail_func[c], f, Caller(c, f)) THEN @ + 1 ELSE @]
  /\ UNCHANGED <<fail_func, armed>>

\* The copy is armed, and for this chain.
Meant(c, f) == fail_after[c] # 0 /\ Matches(fail_func[c], f, Caller(c, f))

\* Returns 0.
Passes(c, f) ==
  /\ ~Meant(c, f)
  /\ Asked(c, f) /\ UNCHANGED <<fail_after, failed>>

\* One of the calls counted down; the last of them returns 1.
Counts(c, f) ==
  /\ Meant(c, f) /\ Asked(c, f)
  /\ fail_after' = [fail_after EXCEPT ![c] = @ - 1]
  /\ failed' = IF fail_after[c] = 1 THEN [failed EXCEPT ![c] = Append(@, f)] ELSE failed

testing_fail_alloc(f) == Passes("alloc", f) \/ Counts("alloc", f)
testing_test_fail(f) == Passes("test", f) \/ Counts("test", f)

TestingNext ==
  \/ \E c \in Copy, p \in Pattern, n \in 1..MaxAfter : Arm(c, p, n)
  \/ \E f \in Backtrace["alloc"] : testing_fail_alloc(f)
  \/ \E f \in Backtrace["test"] : testing_test_fail(f)

-----------------------------------------------------------------------------
(* Properties                                                              *)

\* A call fails only if it came along the chain, as the last of so many that
\* did, and no second one fails; if every name of the pattern is plain, the
\* call whose turn it is does fail.
InjectionSound ==
  \A c \in Copy :
    /\ Len(failed[c]) <= 1
    /\ \A k \in DOMAIN failed[c] :
         Along(fail_func[c], failed[c][k], Caller(c, failed[c][k]))
    /\ failed[c] # <<>> => along[c] >= armed[c]
    /\ armed[c] # 0 /\ Plain(fail_func[c]) /\ along[c] >= armed[c] => failed[c] # <<>>
=============================================================================
