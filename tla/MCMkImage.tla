----------------------------- MODULE MCMkImage -----------------------------
(* Model checking of mkimage.py and the loader.  A file has a text of four *)
(* words, perhaps initializers, a plt and .rodata, two words of data if it *)
(* is not empty, one of bss and a GOT of five slots, three of them the     *)
(* loader's; it knows main, a function f of a library and v.  Odd files,   *)
(* as no linker makes them, have a GOT too short for their relocations or  *)
(* one for the loader where there is neither data nor bss.                 *)
EXTENDS YaffLoader

CONSTANTS Optional,     \* the sections a file may have, each with one word
          Odd,          \* what an odd file has, or lacks
          Homes,        \* where v may be defined
          Entries       \* entry points

Sizes(has) == [s \in Section |->
  CASE s = "text" -> 4
    [] s = "data" -> IF "empty" \in has THEN 0 ELSE 2
    [] s = "bss" -> IF "nobss" \in has THEN 0 ELSE 1
    [] s = "got" -> IF "nogot" \in has THEN 0 ELSE 10
    [] s \in has -> 1
    [] OTHER -> 0]
Layout == <<"text", "init", "plt", "rodata", "data", "bss", "got", "gotplt", "extab",
            "exidx">>
Packed(size) ==
  LET Begin[k \in DOMAIN Layout] ==
        IF k = 1 THEN 0 ELSE Begin[k - 1] + size[Layout[k - 1]]
  IN  [s \in Section |-> Begin[CHOOSE k \in DOMAIN Layout : Layout[k] = s]]

Sym(n, home, binding, value) ==
  [name |-> n, type |-> "STT_NOTYPE", binding |-> binding,
   visibility |-> IF home = "hidden" THEN "STV_HIDDEN" ELSE "STV_DEFAULT",
   section |-> IF home = "hidden" THEN "data" ELSE home, value |-> value]

(* The words: an absolute relocation stands where the address of its       *)
(* symbol is; else data leads to bss and data, constants and the slots of  *)
(* the GOT lead to text and data.  (Where there is no data, text.)         *)
Linked(addr, rels) ==
  [a \in 0..MaxAddress |->
    CASE \E i \in DOMAIN rels : rels[i].type = "R_ARM_ABS32" /\ rels[i].offset = a ->
           rels[CHOOSE i \in DOMAIN rels : rels[i].type = "R_ARM_ABS32"].symbol.value
      [] a = addr["data"] /\ a < addr["bss"] -> addr["bss"]
      [] a = addr["data"] + 1 -> addr["data"]
      [] a = addr["rodata"] -> 2
      [] a = addr["got"] + 6 -> addr["data"]
      [] a = addr["got"] + 8 -> 1
      [] OTHER -> 0]

(* A relocation: its type, the section it is in, the word there.           *)
Rel(c, addr, f, v) ==
  [type |-> c[1], offset |-> addr[c[2]] + c[3],
   symbol |-> CASE c[1] = "R_ARM_RELATIVE" -> NoSymbol
                [] c[1] \in {"R_ARM_JUMP_SLOT", "R_ARM_THM_CALL"} -> f
                [] OTHER -> v]
Cases ==
  {"R_ARM_RELATIVE"} \X {"init", "rodata", "data", "bss"} \X {0}
  \cup {<<"R_ARM_RELATIVE", "data", 1>>}
  \cup {"R_ARM_RELATIVE"} \X {"got"} \X {6, 8, 10}
  \cup {"R_ARM_ABS32"} \X {"text", "init", "data"} \X {0}
  \cup {"R_ARM_GLOB_DAT"} \X {"got"} \X {6, 8}
  \cup {<<"R_ARM_JUMP_SLOT", "got", 8>>}
  \cup {"R_ARM_GOT_BREL", "R_ARM_THM_CALL", "R_ARM_TLS"} \X {"text"} \X {1}

(* Files that do not start at main need more libraries.                    *)
Needed == << <<"libc">>, <<"libc", "libm", "libdl", "libpthread">> >>

File(has, home, entry, r(_, _, _)) ==
  LET size == Sizes(has)
      addr == Packed(size)
      v == Sym("v", home, "STB_GLOBAL", IF home \in Section THEN addr[home] ELSE addr["data"])
      f == Sym("f", Undefined, "STB_WEAK", 0)
      main == Sym("main", "text", "STB_GLOBAL", 1)
  IN  [has |-> (has \cap Section) \cup {"text", "data", "bss", "got"},
       size |-> size, addr |-> addr,
       word |-> Linked(addr, r(addr, f, v)),
       dynsym |-> <<main, Sym("", Undefined, "STB_LOCAL", 0), v, f>>,
       relocations |-> r(addr, f, v), needed |-> Needed[entry], entry |-> entry]

Singles == {<<>>, << <<"R_ARM_RELATIVE", "got", 0>> >>}
           \cup {<<a>> : a \in {c \in Cases : c[2] \in {"got", "text"}}}
Pairs == {<<>>} \cup {<<a>> : a \in Cases} \cup {<<a, b>> : a \in Cases, b \in Cases}
Contents == Optional \X Homes \X Entries \X Pairs \cup Odd \X Homes \X {1} \X Singles
Files == [c \in Contents |->
  File(c[1], c[2], c[3], LAMBDA addr, f, v :
    [i \in DOMAIN c[4] |-> Rel(c[4][i], addr, f, v)])]
Libraries == {<<>>}
OnlyV == [n \in {"v"} |-> [address |-> 900, got |-> 990]]
Both == [n \in {"f", "v"} |-> [address |-> IF n = "f" THEN 901 ELSE 900, got |-> 990]]
=============================================================================
