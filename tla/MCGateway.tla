----------------------------- MODULE MCGateway ------------------------------
(* Inputs for Gateway: configurations and flags that agree, replace, add,  *)
(* repeat and leave out.                                                   *)
EXTENDS Gateway

Route(l, d, t) == [listen |-> l, device |-> d, target |-> t]

Flag(l, d, t) == <<[key |-> "device", value |-> d], [key |-> "listen", value |-> l],
                   [key |-> "target", value |-> t]>>

TwoDevices == <<Route("a1", "d1", "t1"), Route("a2", "d2", "t1")>>
OneDevice  == <<Route("a1", "d1", "t1"), Route("a2", "d1", "t2")>>

Configs ==
    {<<>>, TwoDevices, OneDevice,
     <<Route("a1", "d1", "t1"), Route("a1", "d2", "t1")>>,
     <<Route("a1", "", "t1")>>}

Moved    == <<Flag("a1", "d2", "t2")>>
LastWins == <<Flag("a1", "d2", "t1"), Flag("a1", "d1", "t2")>>

Flags ==
    {<<>>, Moved, LastWins,
     <<Flag("a2", "d2", "t2") \o <<[key |-> "device", value |-> "d1"]>>>>,
     <<Flag("a1", "d1", "")>>,
     <<Flag("a1", "d1", "t1") \o <<[key |-> "name", value |-> "t1"]>>>>}

(* Two of the combinations end, like TwoDevices without flags, with one    *)
(* address at each device; once is enough.                                 *)
MCInputs ==
    [config : Configs, flags : Flags]
        \ {[config |-> TwoDevices, flags |-> LastWins], [config |-> OneDevice, flags |-> Moved]}

=============================================================================
