--------------------------- MODULE MCSettingsLanes ---------------------------
(***************************************************************************)
(* Two servers with different models, and one key or a burst of two per    *)
(* read.  The store is full, with one slot kept from an earlier session.   *)
(***************************************************************************)
EXTENDS SettingsLanes

MCInventory == "ollama" :> <<"tiny", "mid">> @@ "openai" :> <<"remote">>
MCBytes     == "tiny" :> 1 @@ "mid" :> 4 @@ "remote" :> 9
MCFavorites == <<"remote">>
MCReachable == {{}}
MCKey(k)    == [k |-> k, c |-> ""]
MCKeys      == {<<MCKey(k)>> : k \in {"Down", "Enter", "Esc", "Delete", "Backspace"}}
               \cup {<<[k |-> "Char", c |-> "9"]>>}
MCChunks    == MCKeys \cup {<<MCKey(k), MCKey(k)>> : k \in {"Esc", "Delete"}}
MCMatching  == {"mode", "limit", "tiny", "remote", "slot"}
MCStored    == [DefaultStore(1) EXCEPT !.next = 2, !.slots = <<[id |-> 1, text |-> <<"x">>]>>]
MCCommands  == {Command("off", 0, <<>>), Command("modify", 1, <<"9">>)}
MCAnswers   == { << <<1>>, << <<Echo, "9">>, <<"x">> >> >> }
==============================================================================
