----------------------------- MODULE MCFallback -----------------------------
(* Four numbers; two rows that can be handled, one of which starts, an     *)
(* entry of another system, a row without a label and one that is short.   *)
EXTENDS Fallback

MCRows      == {"shim", "old", "bare", "blank", "other"}
MCMalformed == {"blank"}
MCShort     == {"bare"}
MCBootable  == {"shim", "other"}

(* BOOTX64.CSV and BOOT.CSV; two directories, one without a file; a row    *)
(* that is there twice; a short row, which hides what follows the next.    *)
MCDisks == { << << <<"old", "blank", "shim">>, <<"shim">> >> >>,
             << << <<"shim">> >>, <<>>, << <<"old", "shim">> >> >>,
             << << <<"bare", "shim", "old">> >> >> }

Entries(s) == [n \in Numbers |-> IF n < Len(s) THEN s[n + 1] ELSE Free]
Store(s, o) == [entries |-> Entries(s), order |-> o]

(* A new machine; another system's entry first or last; an order that      *)
(* names an entry that does not exist.                                     *)
MCStores == { Store(<<>>, <<>>),
              Store(<<"shim", "other">>, <<1, 0>>),
              Store(<<"old", "other">>, <<0, 2, 1>>) }

(* The hypothesis under which no entry comes to be there twice.            *)
ASSUME MCFoundOnce == FoundOnce
=============================================================================
