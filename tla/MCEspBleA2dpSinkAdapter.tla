---------------------- MODULE MCEspBleA2dpSinkAdapter ----------------------
(* Small instances of EspBleA2dpSinkAdapter. *)
EXTENDS EspBleA2dpSinkAdapter

Sbc44 == [codec |-> "Sbc", rate |-> 44]
Sbc48 == [codec |-> "Sbc", rate |-> 48]
Aac   == [codec |-> "Aac", rate |-> 44]

TwoCodecs == {Sbc44, Sbc48}
AllCodecs == {Sbc44, Sbc48, Aac}
=============================================================================
