------------------------------ MODULE Averages ------------------------------
(***************************************************************************)
(* What the master of supertel/task1 (src/master-private.c) makes of the   *)
(* responses: the table of slaves, running sums, averages and the messages *)
(* that announce them.  The regular master hears the slaves; a slave that  *)
(* acts as the master also feeds itself, from address 0.                   *)
(*                                                                         *)
(* Numbers keep their C types: int8_t and uint8_t modulo Byte, uint32_t    *)
(* and int32_t modulo Word, size_t modulo Size.                            *)
(***************************************************************************)
EXTENDS Integers, FiniteSets, Functions

CONSTANTS
    Addr,   \* addresses of slaves
    Byte,   \* 2^8
    Word,   \* 2^32
    Size    \* 2^64

ASSUME AveragesAssumption ==
    /\ IsFiniteSet(Addr)
    /\ Byte \in Nat /\ Word \in Nat /\ Size \in Nat
    /\ Byte > 0 /\ Byte % 2 = 0
    /\ Word > 0 /\ Word % Byte = 0
    /\ Size > 0 /\ Size % Word = 0
    \* Size and Byte are powers of two, and there are fewer slaves than Size \div Byte.
    /\ \A n \in 1 .. Cardinality(Addr) : Size % n = 0 => Size % (n * Byte) = 0

\* At most 2^24 slaves: their sums fit into 32 bits.
ASSUME SumsFit == Cardinality(Addr) * Byte <= Word

int8 == -(Byte \div 2) .. Byte \div 2 - 1
uint8 == 0 .. Byte - 1

\* Conversions to a signed and to an unsigned type of m values.
Signed(x, m) == LET y == x % m IN IF y < m \div 2 THEN y ELSE y - m
Unsigned(x, m) == x % m

VARIABLES
    slaves,     \* m->slaves: address -> slave_description_t
    sum,        \* m->sum
    avg,        \* m->avg
    told        \* the last message of this master, a set of at most one

vars == <<slaves, sum, avg, told>>

Zero == [temperature |-> 0, illumination |-> 0]

-----------------------------------------------------------------------------

\* Faulty variant: what the slave said before is not taken out of the sums.
update_slave_adds(a, sd) ==
    /\ slaves' = [b \in DOMAIN slaves \cup {a} |-> IF b = a THEN sd ELSE slaves[b]]
    /\ sum' = [temperature  |-> Signed(sum.temperature + sd.temperature, Word),
               illumination |-> Unsigned(sum.illumination + sd.illumination, Word)]

\* A new slave is entered as zeros; then its old values leave the sums and its
\* new ones enter.
master_update_slave(a, sd) ==
    LET old == IF a \in DOMAIN slaves THEN slaves[a] ELSE Zero IN
    /\ slaves' = [b \in DOMAIN slaves \cup {a} |-> IF b = a THEN sd ELSE slaves[b]]
    /\ sum' = [temperature  |-> Signed(sum.temperature - old.temperature + sd.temperature, Word),
               illumination |-> Unsigned(sum.illumination - old.illumination + sd.illumination, Word)]

\* Faulty variant: a quotient one too large.
averages_rounded_up(s, count) ==
    IF count = 0 THEN Zero
    ELSE [temperature  |-> Signed(Unsigned(s.temperature, Size) \div count, Byte),
          illumination |-> Unsigned((s.illumination + count) \div count, Byte)]

\* The averages of the sums s over count slaves.  The count is a size_t, so the
\* sum of temperatures is converted to size_t before the division.
master_calculate_averages(s, count) ==
    IF count = 0 THEN Zero
    ELSE [temperature  |-> Signed(Unsigned(s.temperature, Size) \div count, Byte),
          illumination |-> Unsigned(s.illumination \div count, Byte)]

master_calculate_brightenss(av) == Unsigned(av.illumination + 1, Byte)

send_info_message(av) ==
    told' = {[avg_temperature |-> av.temperature, brightness |-> master_calculate_brightenss(av)]}

\* Faulty variant: only a change of the temperature is announced.
act_on_temperature(a, sd) ==
    /\ master_update_slave(a, sd)
    /\ avg' = master_calculate_averages(sum', Cardinality(DOMAIN slaves'))
    /\ IF avg'.temperature # avg.temperature THEN send_info_message(avg') ELSE UNCHANGED told

\* master_act on the description sd of the slave at a.
master_act_response(a, sd) ==
    /\ master_update_slave(a, sd)
    /\ avg' = master_calculate_averages(sum', Cardinality(DOMAIN slaves'))
    /\ IF avg' # avg THEN send_info_message(avg') ELSE UNCHANGED told

\* A response with temperature t and illumination il.  master_act takes the
\* response to begin after the signature, which is its first byte: the byte il is
\* read as the temperature, and the byte beyond the packet as the illumination.
Response(a, t, il, beyond) ==
    master_act_response(a, [temperature |-> Signed(il, Byte), illumination |-> beyond])

Init ==
    /\ slaves = << >>
    /\ sum = Zero
    /\ avg = Zero
    /\ told = {}

\* The master stops and a new one begins (master_deinit_, master_init_).
Restart ==
    /\ slaves' = << >>
    /\ sum' = Zero
    /\ avg' = Zero
    /\ told' = {}

Next ==
    \/ \E a \in Addr, t \in int8, il \in uint8, beyond \in uint8 : Response(a, t, il, beyond)
    \/ Restart

Spec == Init /\ [][Next]_vars

-----------------------------------------------------------------------------
(* Properties.                                                             *)

Temperatures == [a \in DOMAIN slaves |-> slaves[a].temperature]
Illuminations == [a \in DOMAIN slaves |-> slaves[a].illumination]

\* The running sums are the sums over the table, whatever slaves said before
\* (master-private.h: the sums "will be updated appropriately").
SumsExact ==
    /\ sum.temperature = SumFunction(Temperatures)
    /\ sum.illumination = SumFunction(Illuminations)

\* What the slaves were last told is what the master has now: no change of an
\* average goes unannounced (master_act), and nothing is announced only while the
\* averages are those the master began with.
ToldIsCurrent ==
    told = IF told = {} /\ avg = Zero THEN {}
           ELSE {[avg_temperature |-> avg.temperature,
                  brightness |-> (avg.illumination + 1) % Byte]}

Lies(x, S) == \E y, z \in S : y <= x /\ x <= z

\* The averages are between the lowest and the highest value in the table
\* (master-private.h: "Calculate averages of parameters"), with one exception: a
\* negative sum of temperatures is divided as an unsigned number, which is right
\* only when the number of slaves divides 2^64 (master_calculate_averages).
AveragesAreMeans ==
    slaves # << >> =>
        /\ Lies(avg.illumination, Range(Illuminations))
        /\ sum.temperature >= 0 \/ Size % Cardinality(DOMAIN slaves) = 0 =>
              Lies(avg.temperature, Range(Temperatures))
=============================================================================
