------------------------------ MODULE MCTunnel ------------------------------
(* Tunnel with one mask of each behaviour. *)
EXTENDS Tunnel

const_Header == [m \in {"vk", "ozon"} |-> IF m = "vk" THEN 16 ELSE 24]
const_Day == <<"vk">>
const_Night == <<"webrtc">>
const_ClientPools == {<<"ozon", "webrtc">>, <<"rutube", "quic">>}
const_NewPools == {<<"vk", "webrtc">>}
const_TwoModes == {<<"vk", "ozon">>}
const_None == {}
=============================================================================
