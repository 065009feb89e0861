---------------------------- MODULE MCServiceGraph ----------------------------
(* Instances of ServiceGraph for TLC. *)
EXTENDS ServiceGraph

\* Three services, a fourth that nobody defines.  Each is any of three kinds and
\* requires any of the others; the second also needs two of them at times only.
MCNames == 1..4

Kinds == {"always", "addon", "vpn_enabled"}

Plain(n) == [selector : Kinds, required : SUBSET ({1, 2, 3} \ {n}), conditional : {{}}]

Conditional ==
    [selector : Kinds, required : {{}, {3}},
     conditional : SUBSET {<<1, "VPNEnabled">>, <<4, "cloudflared">>}]

MCCatalogs ==
    {<<a, b, c, Missing>> : a \in Plain(1), b \in Conditional, c \in Plain(3)}

Configuration(vpn, mode, addons) ==
    [vpn |-> vpn, mode |-> mode, plex |-> FALSE, jellyfin |-> FALSE, addons |-> addons]

MCConfigs ==
    {Configuration(TRUE, "lan", {1, 2, 3}), Configuration(FALSE, "direct", {3}),
     Configuration(TRUE, "cloudflared", {2})}
=============================================================================
