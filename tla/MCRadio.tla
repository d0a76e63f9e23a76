-------------------------------- MODULE MCRadio --------------------------------
(* Radio on small instances. *)
EXTENDS Radio

Wlan0    == [name |-> "wlan0", type |-> "managed", up |-> TRUE, owned |-> FALSE, no |-> 0]
Wlan0cli == [name |-> "wlan0cli", type |-> "managed", up |-> TRUE, owned |-> TRUE, no |-> 1]
Wlan1mon == [name |-> "wlan1mon", type |-> "monitor", up |-> TRUE, owned |-> FALSE, no |-> 2]
Wlan2    == [name |-> "wlan2", type |-> "managed", up |-> FALSE, owned |-> FALSE, no |-> 3]

\* iw not installed, the pager as it comes, with an adapter, adapter only.
SomeListings == {{}, {Wlan0cli, Wlan1mon}, {Wlan0, Wlan1mon, Wlan2}, {Wlan2}}

TwoPlans == {<<"2g", "5g", "2g", "6g">>, <<"5g", "all">>}

FourFreqs == <<2412, 2437, 5180, 5955>>
TwoAnchors == <<2412, 2437>>
===============================================================================
