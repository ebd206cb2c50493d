---------------------------- MODULE MCDeviceSession ----------------------------
(* Scenarios for TLC. *)
EXTENDS DeviceSession

Alone == [loads |-> 0, edits |-> 0, saves |-> 0, imports |-> 0, swaps |-> 0]

MCSyncScenarios == {<<"Machinedrum", Alone>>, <<"Monomachine", [Alone EXCEPT !.swaps = 1]>>}

MCBudgets == {Alone, [Alone EXCEPT !.swaps = 1],
    [Alone EXCEPT !.loads = 2, !.edits = 1],
    [Alone EXCEPT !.loads = 1, !.edits = 1, !.saves = 1],
    [Alone EXCEPT !.loads = 1, !.imports = 2],
    [Alone EXCEPT !.loads = 1, !.imports = 1, !.swaps = 1]}
===============================================================================
