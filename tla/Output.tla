------------------------------- MODULE Output -------------------------------
(***************************************************************************)
(* Printing in the embedded runtime (internal/codegen/runtime.go):         *)
(* jaba_print_str, jaba_print_int and write_all, which they end in, and    *)
(* the host's fd_write.                                                    *)
(*                                                                         *)
(* The scratch cells at addresses 8, 12 and 16, which fd_write is given,   *)
(* are the variables iovec and nwritten; they keep their values from one   *)
(* call to the next.  mem is the rest of memory that printing reads and    *)
(* writes: the itoa buffer and the program's strings.  The variable pc is  *)
(* the point reached in the runtime, and n, p, s, buf and len are locals   *)
(* of its functions.  An i64 has Word values here, 2^64 in the code.       *)
(***************************************************************************)
EXTENDS Integers, Sequences

CONSTANTS
    Word,           \* values of an i64
    Ints,           \* arguments of jaba_print_int
    ItoaStart,      \* the itoa buffer is [ItoaStart, ItoaEnd), 32 .. 96
    ItoaEnd,
    Strings         \* address -> byte, NUL-terminated strings above scratch

Bytes == 0..255

\* Powers of ten, 1 followed by k zeros.
Power10[k \in Nat] == IF k = 0 THEN 1 ELSE 10 * Power10[k - 1]

\* The itoa buffer has room for the digits and the sign of every i64, and
\* every string ends in a NUL.
ASSUME ConstantsOK ==
    /\ Word \in Nat \ {0} /\ Word % 2 = 0
    /\ Ints \subseteq -(Word \div 2)..(Word \div 2 - 1)
    /\ ItoaStart \in Nat /\ ItoaEnd \in Nat /\ ItoaStart + 2 <= ItoaEnd
    /\ Word \div 2 < Power10[ItoaEnd - ItoaStart - 1]
    /\ Strings \in [DOMAIN Strings -> Bytes]
    /\ \A a \in DOMAIN Strings :
          /\ a \in Nat /\ a >= ItoaEnd
          /\ \E e \in DOMAIN Strings :
                e >= a /\ Strings[e] = 0 /\ a..e \subseteq DOMAIN Strings

VARIABLES
    pc,             \* "idle", "scan", "digits", "sign", "write", "host"
    mem,            \* address -> byte
    v, n, p, s,     \* locals of the print functions
    buf, len,       \* locals of write_all
    iovec,          \* the cells at 8 and 12
    nwritten,       \* the cell at 16
    errno,          \* fd_write's last result, or "none" before it answers
    out, text       \* history: bytes the host took in this print, of which

scratch == <<iovec, nwritten, errno>>
vars == <<pc, mem, v, n, p, s, buf, len, iovec, nwritten, errno, out, text>>

Buffer == ItoaStart..(ItoaEnd - 1)

-----------------------------------------------------------------------------
(* What is to be printed. *)

Zero == 48          \* '0'
Minus == 45         \* '-'

\* The decimal digits of a natural number.
Digits[i \in Nat] ==
    IF i < 10 THEN <<Zero + i>> ELSE Append(Digits[i \div 10], Zero + (i % 10))

Decimal(i) == IF i < 0 THEN <<Minus>> \o Digits[-i] ELSE Digits[i]

\* The string at address a, up to its NUL.
End(a) == CHOOSE e \in DOMAIN Strings :
              e >= a /\ Strings[e] = 0 /\ \A b \in a..(e - 1) : Strings[b] # 0
StringAt(a) == [i \in 1..(End(a) - a) |-> Strings[a + i - 1]]

-----------------------------------------------------------------------------
Init ==
    /\ pc = "idle"
    /\ mem = [a \in Buffer \cup DOMAIN Strings |->
                IF a \in Buffer THEN 0 ELSE Strings[a]]
    /\ v = 0 /\ n = 0 /\ p = 0 /\ s = 0 /\ buf = 0 /\ len = 0
    /\ iovec = [buf |-> 0, len |-> 0]
    /\ nwritten = 0 /\ errno = "none"
    /\ out = <<>> /\ text = <<>>

PrintStr(a) ==
    /\ pc = "idle"
    /\ pc' = "scan"
    /\ s' = a /\ p' = a
    /\ out' = <<>> /\ text' = StringAt(a)
    /\ UNCHANGED <<mem, v, n, buf, len, scratch>>

\* call $rt_write_all with the range [from, to)
WriteAll(from, to) ==
    /\ pc' = "write"
    /\ buf' = from /\ len' = to - from

Scan ==
    /\ pc = "scan"
    /\ \/ /\ mem[p] # 0
          /\ p' = p + 1
          /\ UNCHANGED <<pc, buf, len>>
       \/ /\ mem[p] = 0
          /\ WriteAll(s, p)
          /\ UNCHANGED p
    /\ UNCHANGED <<mem, v, n, s, scratch, out, text>>

\* Mutant: the sign is kept.
MagnitudeSigned(i) == i

\* 0 - v if negative, of an i64, read as unsigned
Magnitude(i) == (IF i < 0 THEN 0 - i ELSE i) % Word

\* Mutant: the first digit goes where the buffer ends.
PrintIntPastEnd(i) ==
    /\ pc = "idle"
    /\ pc' = "digits"
    /\ v' = i /\ n' = Magnitude(i) /\ p' = ItoaEnd + 1
    /\ out' = <<>> /\ text' = Decimal(i)
    /\ UNCHANGED <<mem, s, buf, len, scratch>>

PrintInt(i) ==
    /\ pc = "idle"
    /\ pc' = "digits"
    /\ v' = i /\ n' = Magnitude(i) /\ p' = ItoaEnd
    /\ out' = <<>> /\ text' = Decimal(i)
    /\ UNCHANGED <<mem, s, buf, len, scratch>>

\* The digit loop runs at least once: 0 has a digit.
Digit ==
    /\ pc = "digits"
    /\ p' = p - 1
    /\ mem' = [mem EXCEPT ![p - 1] = Zero + (n % 10)]
    /\ n' = n \div 10
    /\ pc' = IF n' # 0 THEN "digits" ELSE "sign"
    /\ UNCHANGED <<v, s, buf, len, scratch, out, text>>

Sign ==
    /\ pc = "sign"
    /\ \/ /\ v < 0
          /\ p' = p - 1
          /\ mem' = [mem EXCEPT ![p - 1] = Minus]
       \/ /\ v >= 0
          /\ UNCHANGED <<p, mem>>
    /\ WriteAll(p', ItoaEnd)
    /\ UNCHANGED <<v, n, s, scratch, out, text>>

-----------------------------------------------------------------------------
Return ==
    /\ pc' = "idle"
    /\ UNCHANGED <<buf, len, scratch>>

\* The head of write_all's loop: done, or fill the iovec and call fd_write.
CallHost ==
    /\ pc = "write" /\ errno = "none"
    /\ \/ len = 0 /\ Return
       \/ /\ len # 0
          /\ iovec' = [buf |-> buf, len |-> len]
          /\ pc' = "host"
          /\ UNCHANGED <<buf, len, nwritten, errno>>
    /\ UNCHANGED <<mem, v, n, p, s, out, text>>

\* fd_write takes the first k bytes, perhaps fewer than asked, or none.
HostTakes(k) ==
    /\ pc = "host" /\ k <= iovec.len
    /\ out' = out \o [i \in 1..k |-> mem[iovec.buf + i - 1]]
    /\ nwritten' = k /\ errno' = "success"
    /\ pc' = "write"
    /\ UNCHANGED <<mem, v, n, p, s, buf, len, iovec, text>>

\* fd_write fails, taking nothing; nwritten is as it was.
HostFails ==
    /\ pc = "host"
    /\ errno' = "error"
    /\ pc' = "write"
    /\ UNCHANGED <<mem, v, n, p, s, buf, len, iovec, nwritten, out, text>>

\* Mutants: a failed call counts as one that wrote nwritten bytes; a call
\* that writes nothing is tried again; buf is not advanced.
AdvanceOnError ==
    /\ pc = "write" /\ errno # "none"
    /\ errno' = "none"
    /\ \/ /\ nwritten = 0
          /\ pc' = "idle"
          /\ UNCHANGED <<buf, len>>
       \/ /\ nwritten # 0
          /\ buf' = buf + nwritten /\ len' = len - nwritten
          /\ UNCHANGED pc
    /\ UNCHANGED <<mem, v, n, p, s, iovec, nwritten, out, text>>

AdvanceOnZero ==
    /\ pc = "write" /\ errno # "none"
    /\ errno' = "none"
    /\ \/ /\ errno = "error"
          /\ pc' = "idle"
          /\ UNCHANGED <<buf, len>>
       \/ /\ errno = "success"
          /\ buf' = buf + nwritten /\ len' = len - nwritten
          /\ UNCHANGED pc
    /\ UNCHANGED <<mem, v, n, p, s, iovec, nwritten, out, text>>

AdvanceLenOnly ==
    /\ pc = "write" /\ errno # "none"
    /\ errno' = "none"
    /\ \/ /\ errno = "error" \/ nwritten = 0
          /\ pc' = "idle"
          /\ UNCHANGED len
       \/ /\ errno = "success" /\ nwritten # 0
          /\ len' = len - nwritten
          /\ UNCHANGED pc
    /\ UNCHANGED <<mem, v, n, p, s, buf, iovec, nwritten, out, text>>

\* fd_write has answered: give up, or advance past the bytes written.
Advance ==
    /\ pc = "write" /\ errno # "none"
    /\ errno' = "none"
    /\ \/ /\ errno = "error" \/ nwritten = 0
          /\ pc' = "idle"
          /\ UNCHANGED <<buf, len>>
       \/ /\ errno = "success" /\ nwritten # 0
          /\ buf' = buf + nwritten /\ len' = len - nwritten
          /\ UNCHANGED pc
    /\ UNCHANGED <<mem, v, n, p, s, iovec, nwritten, out, text>>

HostAnswers == HostFails \/ \E k \in 0..iovec.len : HostTakes(k)

\* What the running print does by itself.
Runs == Scan \/ Digit \/ Sign \/ CallHost \/ Advance

Next ==
    \/ \E a \in DOMAIN Strings : PrintStr(a)
    \/ \E i \in Ints : PrintInt(i)
    \/ Runs \/ HostAnswers

\* The engine runs what was called, and fd_write returns; nobody has to call.
Spec == Init /\ [][Next]_vars /\ WF_vars(Runs) /\ WF_vars(HostAnswers)

-----------------------------------------------------------------------------
(* What printing must guarantee. *)

TypeOK ==
    /\ pc \in {"idle", "scan", "digits", "sign", "write", "host"}
    /\ mem \in [Buffer \cup DOMAIN Strings -> Bytes]
    /\ v \in Ints \cup {0} /\ n \in 0..(Word - 1)
    /\ p \in Nat /\ s \in Nat /\ buf \in Nat /\ len \in Nat
    /\ iovec \in [buf : Nat, len : Nat] /\ nwritten \in Nat
    /\ errno \in {"none", "success", "error"}
    /\ errno # "none" => pc = "write"

\* Writing digits backwards never leaves the itoa buffer, for the most
\* negative number too, so no print changes a string of the program; and
\* every range handed to fd_write lies in the buffer or in the strings.
BufferSafe ==
    /\ pc \in {"digits", "sign"} => p \in ItoaStart..ItoaEnd
    /\ pc = "digits" => p > ItoaStart
    /\ pc = "sign" /\ v < 0 => p > ItoaStart
    /\ \A a \in DOMAIN Strings : mem[a] = Strings[a]
    /\ pc = "host" =>
          iovec.buf..(iovec.buf + iovec.len - 1) \subseteq
              (IF iovec.buf < ItoaEnd THEN Buffer ELSE DOMAIN Strings)

\* The bytes memory holds from address a on.
Held(a, k) == [i \in 1..k |-> mem[a + i - 1]]

\* At the head of write_all's loop and while the host has the call, what the
\* host has taken so far and the range still to write make up the text: the
\* decimal numeral, or the string, with no byte lost or sent twice by a
\* short write, a failure, or what an earlier print left in scratch.
NothingLostOrRepeated ==
    /\ pc = "write" /\ errno = "none" => out \o Held(buf, len) = text
    /\ pc = "host" => out \o Held(iovec.buf, iovec.len) = text

\* Printing keeps the promises of AbstractOutput.
Status ==
    IF pc = "idle" THEN "idle"
    ELSE IF errno = "error" \/ (errno = "success" /\ nwritten = 0) THEN "refused"
    ELSE "printing"

Abstract == INSTANCE AbstractOutput WITH
    Texts <- {Decimal(i) : i \in Ints} \cup {StringAt(a) : a \in DOMAIN Strings},
    sent <- out,
    status <- Status

ImplementsOutput == Abstract!Spec

\* "so it always terminates" (runtime.go:17): every print comes to an end,
\* whatever the host answers, as long as it answers.
PrintsEnd == pc # "idle" ~> pc = "idle"
=============================================================================
