------------------------------- MODULE OsPure -------------------------------
(***************************************************************************)
(* Functions of os_unix.c that compute and keep nothing, each as the code  *)
(* computes it beside what its caller wants of it.                         *)
(***************************************************************************)
EXTENDS Integers, Sequences, FiniteSets, SequencesExt

CONSTANTS
  Char,     \* characters of a text other than the space
  MaxText,  \* bound: its length
  MAX_ARG,  \* of os_exec
  Sizes,    \* of a destination
  Zone,     \* time zones: standard offset from UTC, hours of summer time
  Hours     \* since the epoch

NUL == "NUL"
Space == " "

ASSUME PureAssumption ==
  /\ {Space, NUL} \intersect Char = {} /\ MaxText \in Nat /\ MAX_ARG \in Nat \ {0}
  /\ Sizes \subseteq Nat /\ Hours \subseteq Int
  /\ \A z \in Zone : z.std \in Int /\ z.dst \subseteq Int

\* The arguments of a call: a text and a size, or a time in a zone.
VARIABLE args


PureInit ==
  args \in [text : BoundedSeq(Char \union {Space}, MaxText), size : Sizes]
           \union [zone : Zone, hour : Hours]

-----------------------------------------------------------------------------
(* os_strlcpy                                                              *)

\* Variant: room for the terminator is not counted.
os_strlcpyNoRoom(src, size) ==
  LET s == Append(src, NUL)
      from[k \in 1..Len(s)] == IF k = size + 1 \/ s[k] = NUL THEN <<NUL>>
                               ELSE <<s[k]>> \o from[k + 1]
  IN IF size = 0 THEN <<>> ELSE from[1]

\* What is in dest afterwards: at k = size none is left, and the terminator is
\* forced.  It returns the length of src.
os_strlcpy(src, size) ==
  LET s == Append(src, NUL)
      from[k \in 1..Len(s)] == IF k = size \/ s[k] = NUL THEN <<NUL>>
                               ELSE <<s[k]>> \o from[k + 1]
  IN IF size = 0 THEN <<>> ELSE from[1]

-----------------------------------------------------------------------------
(* os_exec                                                                 *)

\* The end of the word that begins at k: os_strchr, or the end of the text.
WordEnd(s, k) ==
  CHOOSE e \in k..(Len(s) + 1) :
    (e = Len(s) + 1 \/ s[e] = Space) /\ \A j \in k..(e - 1) : s[j] # Space

\* argv[i] and those after it, from position k of the text; argv[0] apart.
Argv(s) ==
  LET from[x \in (1..(Len(s) + 2)) \X (1..MAX_ARG)] ==
        LET k == x[1]  i == x[2] IN
        IF i = MAX_ARG \/ k > Len(s) THEN <<>>
        ELSE IF s[k] = Space THEN from[<<k + 1, i>>]
        ELSE LET e == WordEnd(s, k) IN <<SubSeq(s, k, e - 1)>> \o from[<<e + 1, i + 1>>]
  IN from[<<1, 1>>]

\* Where the words of a text begin.
Starts(s) == {k \in DOMAIN s : s[k] # Space /\ (k = 1 \/ s[k - 1] = Space)}

-----------------------------------------------------------------------------
(* os_mktime and os_gmtime; time on a clock is hours of that clock         *)

\* The C library's mktime, localtime and gmtime.
mktime(z, tm) == tm.clock - z.std - (IF tm.isdst THEN 1 ELSE 0)
localtime(z, t) ==
  [clock |-> t + z.std + (IF t \in z.dst THEN 1 ELSE 0), isdst |-> t \in z.dst]
gmtime(t) == [clock |-> t, isdst |-> FALSE]

\* The range of its arguments; before 1970 days are negative.
InRange(day, hour) == day >= 0 /\ hour \in 0..23

\* It refuses what is out of range.  The offset of the zone is what mktime makes
\* of the same time in both forms.
os_mktime(z, day, hour) ==
  LET t_local == mktime(z, [clock |-> day * 24 + hour, isdst |-> FALSE])
      t1 == mktime(z, localtime(z, t_local))
      t2 == mktime(z, gmtime(t_local))
  IN IF InRange(day, hour) THEN [res |-> 0, t |-> t_local - (t2 - t1)] ELSE [res |-> -1]

\* The calendar: days since the epoch, and the hour of the day.
os_gmtime(t) == [day |-> gmtime(t).clock \div 24, hour |-> gmtime(t).clock % 24]

-----------------------------------------------------------------------------
(* Properties                                                              *)

\* os_strlcpy leaves one terminator, the last byte within size, after as much
\* of the source as fits; os_exec passes the words of its text in their order,
\* none of them split or empty, up to MAX_ARG; and os_mktime undoes os_gmtime
\* in whatever zone the program runs, in winter and in summer, for every time
\* from 1970 on, and refuses the earlier ones.
HelpersRight ==
  /\ "text" \in DOMAIN args =>
       LET s == args.text
           d == os_strlcpy(s, args.size)
           v == Argv(s)
           Nth(k) == Cardinality({i \in Starts(s) : i <= k})
       IN /\ d # <<>> => Last(d) = NUL /\ IsPrefix(Front(d), s)
          /\ Len(d) = Min({args.size, Len(s) + 1})
          /\ Len(v) = Min({MAX_ARG - 1, Cardinality(Starts(s))})
          /\ \A k \in Starts(s) :
               Nth(k) < MAX_ARG => v[Nth(k)] = SubSeq(s, k, WordEnd(s, k) - 1)
  /\ "zone" \in DOMAIN args =>
       LET tm == os_gmtime(args.hour) IN
       os_mktime(args.zone, tm.day, tm.hour)
         = IF args.hour >= 0 THEN [res |-> 0, t |-> args.hour] ELSE [res |-> -1]
=============================================================================
