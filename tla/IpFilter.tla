------------------------------ MODULE IpFilter ------------------------------
(***************************************************************************)
(* loadIpFilterFile: the text file of address rules, one rule to a line,   *)
(* is turned into the filter of the session.                               *)
(*                                                                         *)
(* A line is a single address, a CIDR prefix or a range of two addresses,  *)
(* of IPv4 or IPv6.  What is neither is skipped: a bad line must not keep  *)
(* the others out, and must not block what nobody asked for.  The two      *)
(* families are computed differently in the code, by a mask of 32 bits and *)
(* by a loop over the bits of 16 bytes.  An address is the row of its      *)
(* bits, from the highest to the lowest.                                   *)
(***************************************************************************)
EXTENDS Integers, Sequences, FiniteSets

CONSTANTS
    Bits4,      \* the width of an IPv4 address: 32
    Bits6,      \* the width of an IPv6 address: 128
    MaxLines    \* bound: lines of the file

VARIABLES
    file,       \* the lines of the file
    read,       \* lines taken by readLine
    blocked,    \* the addresses the filter blocks
    applied     \* rules_applied

vars == <<file, read, blocked, applied>>

Families == {4, 6}
Bits == [f \in Families |-> IF f = 4 THEN Bits4 ELSE Bits6]
Numbers(f) == [0 .. Bits[f] - 1 -> {0, 1}]
Addresses == UNION {{f} \X Numbers(f) : f \in Families}

\* The order of addresses, which is that of their bytes (memcmp).
Below(x, y) ==
    x = y \/ \E k \in DOMAIN x : x[k] < y[k] /\ \A j \in 0 .. k - 1 : x[j] = y[j]

\* A rule is written with a prefix that may be out of range, or with ends
\* in any order and of any family.
Lines ==
    {[kind |-> k] : k \in {"comment", "junk"}}
        \cup [kind : {"single"}, ip : Addresses]
        \cup [kind : {"range"}, left : Addresses, right : Addresses]
        \cup UNION {[kind : {"cidr"}, ip : {f} \X Numbers(f), prefix : -1 .. Bits[f] + 1] :
                        f \in Families}

Init ==
    /\ \E n \in 0 .. MaxLines : file \in [1 .. n -> Lines]
    /\ read = 0 /\ blocked = {} /\ applied = 0

-----------------------------------------------------------------------------
(* The rules.  Each gives the ends of an interval, or nothing.             *)

Refused == <<>>

Between(f, first, last) == {f} \X {x \in Numbers(f) : Below(first, x) /\ Below(x, last)}

\* The operators of C++ on the bits of a word.
And(x, y) == [k \in DOMAIN x |-> IF x[k] = 1 THEN y[k] ELSE 0]
Or(x, y) == [k \in DOMAIN x |-> IF x[k] = 1 THEN 1 ELSE y[k]]
Not(x) == [k \in DOMAIN x |-> 1 - x[k]]
ShiftLeft(x, n) == [k \in DOMAIN x |-> IF k + n \in DOMAIN x THEN x[k + n] ELSE 0]
Fill(f, b) == [k \in 0 .. Bits[f] - 1 |-> b]

\* parseAnySingleIp
ParseSingle(line) == <<line.ip[1], line.ip[2], line.ip[2]>>

\* Mutant of CidrIpv4: the block begins at the address as it is written.
CidrIpv4FromIp(ip, prefix) ==
    LET mask == ShiftLeft(Fill(4, 1), Bits[4] - prefix)
    IN  IF prefix = 0 THEN <<4, Fill(4, 0), Fill(4, 1)>>
        ELSE <<4, ip, Or(And(ip, mask), Not(mask))>>

\* appendCidrIpv4.  A shift by the width of the word is undefined in C++.
CidrIpv4(ip, prefix) ==
    LET mask == ShiftLeft(Fill(4, 1), Bits[4] - prefix)
    IN  IF prefix = 0 THEN <<4, Fill(4, 0), Fill(4, 1)>>
        ELSE <<4, And(ip, mask), Or(And(ip, mask), Not(mask))>>

\* Bit k is cleared in the one and set in the other, for each k from the prefix on.
ipv6ApplyPrefixRange(ip, prefix) ==
    IF prefix = 0 THEN <<6, Fill(6, 0), Fill(6, 1)>>
    ELSE IF prefix = Bits[6] THEN <<6, ip, ip>>
    ELSE <<6, [k \in DOMAIN ip |-> IF k < prefix THEN ip[k] ELSE 0],
              [k \in DOMAIN ip |-> IF k < prefix THEN ip[k] ELSE 1]>>

ParseCidr(line) ==
    LET f == line.ip[1]
    IN  IF line.prefix \notin 0 .. Bits[f] THEN Refused
        ELSE IF f = 4 THEN CidrIpv4(line.ip[2], line.prefix)
        ELSE ipv6ApplyPrefixRange(line.ip[2], line.prefix)

\* Mutant of ParseRange: the ends are taken as they are written.
ParseRangeOrdered(line) ==
    IF line.left[1] # line.right[1] THEN Refused
    ELSE <<line.left[1], line.left[2], line.right[2]>>

\* appendRangeIpv4 and appendRangeIpv6
ParseRange(line) ==
    LET a == line.left
        b == line.right
    IN  IF a[1] # b[1] THEN Refused
        ELSE IF ~Below(a[2], b[2]) THEN <<a[1], b[2], a[2]>>
        ELSE <<a[1], a[2], b[2]>>

\* appendIpFilterLine
Parse(line) ==
    CASE line.kind = "single" -> ParseSingle(line)
      [] line.kind = "cidr" -> ParseCidr(line)
      [] line.kind = "range" -> ParseRange(line)
      [] OTHER -> Refused

-----------------------------------------------------------------------------
(* The file.                                                               *)

\* Mutant of ReadLine: the file is given up at the first line that is bad.
ReadLineStrict ==
    /\ read < Len(file)
    /\ LET rule == Parse(file[read + 1])
       IN  IF rule = Refused
           THEN read' = Len(file) /\ UNCHANGED <<blocked, applied>>
           ELSE /\ read' = read + 1
                /\ blocked' = blocked \cup Between(rule[1], rule[2], rule[3])
                /\ applied' = applied + 1
    /\ UNCHANGED file

ReadLine ==
    /\ read < Len(file)
    /\ read' = read + 1
    /\ LET rule == Parse(file[read + 1])
       IN  IF rule = Refused THEN UNCHANGED <<blocked, applied>>
           ELSE /\ blocked' = blocked \cup Between(rule[1], rule[2], rule[3])
                /\ applied' = applied + 1
    /\ UNCHANGED file

Next == ReadLine

Spec == Init /\ [][Next]_vars

-----------------------------------------------------------------------------
(* Properties                                                              *)

\* What a reader of the file takes a line for: the addresses that agree with
\* the one written on the bits of the prefix, or that lie between the two.
Meant(line) ==
    CASE line.kind = "single" -> {line.ip}
      [] line.kind = "cidr" ->
            {a \in Addresses :
                /\ a[1] = line.ip[1]
                /\ line.prefix \in 0 .. Bits[a[1]]
                /\ \A k \in 0 .. line.prefix - 1 : a[2][k] = line.ip[2][k]}
      [] line.kind = "range" ->
            {a \in Addresses :
                /\ a[1] = line.left[1] /\ a[1] = line.right[1]
                /\ \/ Below(line.left[2], a[2]) /\ Below(a[2], line.right[2])
                   \/ Below(line.right[2], a[2]) /\ Below(a[2], line.left[2])}
      [] OTHER -> {}

\* The filter blocks the addresses that the lines read so far name, whatever
\* is between them, and no other.
BlocksWhatIsMeant == blocked = UNION {Meant(file[i]) : i \in 1 .. read}

\* The rules that are counted are the lines that name some address.
CountsRules == applied = Cardinality({i \in 1 .. read : Meant(file[i]) # {}})

\* The lines read are lines of the file, the addresses are addresses.
TypeOK == read \in 0 .. Len(file) /\ blocked \subseteq Addresses /\ applied \in Nat
=============================================================================
