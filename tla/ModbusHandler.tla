--------------------------- MODULE ModbusHandler ---------------------------
(***************************************************************************)
(* The Modbus connector (src/internal/app/modbus/handler/handler.go): how  *)
(* it packs bits and registers into bytes and back, with the device at the *)
(* other end of the goburrow client.  The device keeps one table of bits,  *)
(* read as coils and as discrete inputs, and one of registers, read as     *)
(* holding and as input registers.                                         *)
(*                                                                         *)
(* ByteBits is 8 in the code, a word has 2 * ByteBits bits; MaxBits and    *)
(* MaxWords are the largest quantities the client lets pass (2000 and 125  *)
(* for reads, 1968 and 123 for writes).                                    *)
(***************************************************************************)
EXTENDS Handler, SequencesExt

CONSTANTS
    ByteBits,   \* the bits of a byte
    MaxBits,    \* the largest quantity of coils or inputs in a call
    MaxWords,   \* the largest quantity of registers in a call
    Bits,       \* the number of bits of the device
    Words,      \* its number of registers
    Numbers,    \* the numbers given as address, quantity or value
    Slaves,     \* those given as slave_id
    Lists       \* the arrays given as values

VARIABLES
    coils,      \* [0..Bits-1 -> {0, 1}]
    regs        \* [0..Words-1 -> Uint16]

modbusVars == <<coils, regs>>

ASSUME DeviceAssumption ==
    /\ ByteBits \in Nat \ {0} /\ Bits \in Nat /\ Words \in Nat
    /\ Numbers \subseteq Int
    /\ \A list \in Lists : list \in Seq(Int)

MaxUint == 2 ^ (2 * ByteBits) - 1
Uint16 == 0..MaxUint
ASSUME WordAssumption == MaxUint \in Nat

\* ------------------------------------------------------------------ packing
(* A byte is its bits, from the lowest place on.                           *)
Places == 0..ByteBits - 1

CeilDiv(a, b) == (a + b - 1) \div b

(* The bytes of a table of bits from `first` on, as they travel.           *)
Packed(table, first, n) ==
    [k \in 1..CeilDiv(n, ByteBits) |-> [i \in Places |->
        IF (k - 1) * ByteBits + i < n THEN table[first + (k - 1) * ByteBits + i] ELSE 0]]

(* The digits of a byte from the lowest on: none above the highest digit   *)
(* that is set.                                                            *)
Digits(byte) ==
    LET set == {i \in Places : byte[i] = 1}
    IN [i \in 1..IF set = {} THEN 0 ELSE Max(set) + 1 |-> byte[i - 1]]

(* The digits of the first n bytes, one after the other.                   *)
Strung(bytes, n) ==
    LET upTo[k \in 0..n] == IF k = 0 THEN <<>> ELSE upTo[k - 1] \o Digits(bytes[k])
    IN upTo[n]

(* parseResultByteToBits: the rest of the slice up to the quantity is zero *)
ByteToBits(bytes, quantity) ==
    LET digits == Strung(bytes, Len(bytes))
    IN [i \in 1..quantity |-> IF i <= Len(digits) THEN digits[i] ELSE 0]

(* parseResult: pairs of bytes, the last byte of an odd number is left out *)
ToWords(bytes) ==
    [w \in 1..Len(bytes) \div 2 |-> [i \in 0..2 * ByteBits - 1 |->
        IF i < ByteBits THEN bytes[2 * w][i] ELSE bytes[2 * w - 1][i - ByteBits]]]

(* buildProcessCoilsArray: bit i of the list goes to byte i/8, place i%8.  *)
CoilBytes(list) ==
    [k \in 1..CeilDiv(Len(list), ByteBits) |-> [i \in Places |->
        LET at == (k - 1) * ByteBits + i + 1
        IN IF at <= Len(list) THEN list[at] ELSE 0]]

(* What the device unpacks from the bytes it is sent.                      *)
Unpacked(bytes, i) == bytes[(i \div ByteBits) + 1][i % ByteBits]

(* The registers there is room for: make([]byte, quantity*2) is computed   *)
(* in 16 bits.                                                             *)
Room(quantity) == ((quantity * 2) % (MaxUint + 1)) \div 2

\* --------------------------------------------------------------- parameters
(* getUint16, getSlaveID.                                                  *)
IsUint16(n) == n \in Uint16
IsSlave(n) == n \in 0..2 ^ ByteBits - 1

Request(op, addr, quantity, slave, list) ==
    [op |-> op, addr |-> addr, quantity |-> quantity, slave |-> slave, list |-> list]

Valid(r) == IsUint16(r.addr) /\ IsUint16(r.quantity) /\ IsSlave(r.slave)

(* The device has the cells a request names.                               *)
Within(r, n, size) == n >= 1 /\ r.addr + n <= size

Same == UNCHANGED modbusVars

Refuse(r) == Call([op |-> r.op], Error) /\ Same

ModbusInit ==
    /\ coils = [i \in 0..Bits - 1 |-> 0]
    /\ regs = [i \in 0..Words - 1 |-> 0]

(* The entry point: an unknown mode ends the process.                      *)
ModbusOpen == (\E known \in BOOLEAN : Open(known, TRUE)) /\ Same

\* ----------------------------------------------------------------- handlers
(* A read ends with what the device answered, or with an error: of the     *)
(* parameters, the client's limits, the device or the line.                *)
Read(r, limit, size, answer) ==
    \/ Refuse(r)
    \/ /\ Valid(r) /\ r.quantity <= limit /\ Within(r, r.quantity, size)
       /\ Call(r, Result(answer))
       /\ Same

ReadCoils(r) ==
    /\ r.op = "read-coil"
    /\ Read(r, MaxBits, Bits, ByteToBits(Packed(coils, r.addr, r.quantity), r.quantity))

ReadDiscreteInputs(r) ==
    /\ r.op = "read-discrete"
    /\ Read(r, MaxBits, Bits, ToWords(Packed(coils, r.addr, r.quantity)))

ReadRegisters(r) ==
    /\ r.op \in {"read-input", "read-holding"}
    /\ Read(r, MaxWords, Words, [i \in 1..r.quantity |-> regs[r.addr + i - 1]])

(* A write that reaches the device is done; its answer may still be lost.  *)
Done(r, answer) == Call(r, Result(answer)) \/ Call([op |-> r.op], Error)

WriteSingleCoil(r) ==
    /\ r.op = "write-coil"
    /\ \/ Refuse(r)
       \/ /\ Valid(r) /\ r.quantity <= 1 /\ Within(r, 1, Bits)
          /\ coils' = [coils EXCEPT ![r.addr] = r.quantity]
          /\ UNCHANGED regs
          /\ Done(r, <<r.quantity>>)

WriteMultipleCoils(r) ==
    /\ r.op = "write-multiple-coils"
    /\ \/ Refuse(r)
       \/ /\ Valid(r) /\ r.quantity = Len(r.list) /\ r.quantity <= MaxBits
          /\ \A i \in DOMAIN r.list : r.list[i] \in {0, 1}
          /\ Within(r, r.quantity, Bits)
          /\ LET bytes == CoilBytes(r.list)
             IN coils' = [c \in DOMAIN coils |->
                            IF c \in r.addr..r.addr + r.quantity - 1
                            THEN Unpacked(bytes, c - r.addr) ELSE coils[c]]
          /\ UNCHANGED regs
          /\ Done(r, <<r.quantity>>)

WriteSingleRegister(r) ==
    /\ r.op = "write-register"
    /\ \/ Refuse(r)
       \/ /\ Valid(r) /\ Within(r, 1, Words)
          /\ regs' = [regs EXCEPT ![r.addr] = r.quantity]
          /\ UNCHANGED coils
          /\ Done(r, <<r.quantity>>)

(* The list is stored item by item: a value that is no uint16 ends it with *)
(* an error, the first item there is no room for with a panic.             *)
WriteMultipleRegisters(r) ==
    /\ r.op = "write-multiple-registers"
    /\ LET bad  == {i \in DOMAIN r.list : ~IsUint16(r.list[i])}
           over == {i \in DOMAIN r.list : i > Room(r.quantity)}
           asks == IsUint16(r.addr) /\ IsUint16(r.quantity) /\ r.quantity = Len(r.list)
       IN \/ Refuse(r) /\ (asks => over = {} \/ \E b \in bad : \A o \in over : b <= o)
          \/ /\ asks /\ over # {} /\ \A b \in bad : \E o \in over : o < b
             /\ Call(r, Panic) /\ Same
          \/ /\ asks /\ IsSlave(r.slave) /\ bad = {} /\ over = {}
             /\ r.quantity <= MaxWords /\ Within(r, r.quantity, Words)
             /\ regs' = [c \in DOMAIN regs |->
                           IF c \in r.addr..r.addr + r.quantity - 1
                           THEN r.list[c - r.addr + 1] ELSE regs[c]]
             /\ UNCHANGED coils
             /\ Done(r, <<r.quantity>>)

Reads == {"read-coil", "read-discrete", "read-input", "read-holding"}
Writes == {"write-coil", "write-register", "write-multiple-coils",
           "write-multiple-registers"}

(* A request for one cell gives its value in `quantity`.                   *)
CallSingle ==
    \E addr, quantity \in Numbers, slave \in Slaves,
       op \in Reads \cup {"write-coil", "write-register"} :
       LET r == Request(op, addr, quantity, slave, <<>>)
       IN \/ ReadCoils(r)
          \/ ReadDiscreteInputs(r)
          \/ ReadRegisters(r)
          \/ WriteSingleCoil(r)
          \/ WriteSingleRegister(r)

CallMultiple ==
    \E addr \in Numbers, slave \in Slaves, list \in Lists,
       op \in {"write-multiple-coils", "write-multiple-registers"} :
       \E quantity \in {-1, Len(list), Len(list) + 1} :
          LET r == Request(op, addr, quantity, slave, list)
          IN WriteMultipleCoils(r) \/ WriteMultipleRegisters(r)

ModbusNext ==
    \/ ModbusOpen
    \/ CallSingle
    \/ CallMultiple
    \/ UnknownMethod /\ Same

\* --------------------------------------------------------------- properties
(* What is read is what the device holds: registers always; bits as long   *)
(* as every byte before a set bit has its highest bit set, for the digits  *)
(* of the bytes are strung together (handler.go:88-93); discrete inputs    *)
(* come as words of two bytes, an odd last byte is missing (253).          *)
ModbusReadIsExact ==
    (reply.kind = "result" /\ asked.op \in Reads) =>
        LET cells(table) == [i \in 1..asked.quantity |-> table[asked.addr + i - 1]]
            bit(i) == i <= asked.quantity /\ cells(coils)[i] = 1
        IN /\ asked.op \in {"read-input", "read-holding"} => reply.value = cells(regs)
           /\ asked.op = "read-coil" =>
                 ((reply.value = cells(coils)) <=>
                    \A i, k \in 1..asked.quantity :
                       bit(i) /\ k * ByteBits < i => bit(k * ByteBits))
           /\ asked.op = "read-discrete" =>
                 /\ Len(reply.value) = CeilDiv(asked.quantity, ByteBits) \div 2
                 /\ \A w \in 1..Len(reply.value) : \A i \in 0..2 * ByteBits - 1 :
                       LET place == IF i < ByteBits THEN i + ByteBits ELSE i - ByteBits
                       IN (reply.value[w][i] = 1)
                             <=> bit((w - 1) * 2 * ByteBits + place + 1)

(* A write that is answered has changed the cells it names to the values   *)
(* it gives, all of them, and no other cell (handler.go:295-354, 419-469). *)
(* One that panics has changed none, and only lists that are too long for  *)
(* `quantity*2` in 16 bits (449) bring it there.                           *)
ModbusWriteIsExact ==
    [][/\ (reply'.kind = "panic" /\ asked'.op \in Writes) =>
             2 * Len(asked'.list) > MaxUint /\ UNCHANGED modbusVars
       /\ (reply'.kind = "result" /\ asked'.op \in Writes) =>
          LET values == IF asked'.list = <<>> THEN <<asked'.quantity>> ELSE asked'.list
              updated(table) == [c \in DOMAIN table |->
                                   IF c \in asked'.addr..asked'.addr + Len(values) - 1
                                   THEN values[c - asked'.addr + 1] ELSE table[c]]
          IN IF asked'.op \in {"write-coil", "write-multiple-coils"}
             THEN coils' = updated(coils) /\ regs' = regs
             ELSE regs' = updated(regs) /\ coils' = coils]_<<handlerVars, modbusVars>>
=============================================================================
