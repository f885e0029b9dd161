---------------------------- MODULE MCMaskMixer ----------------------------
(* MaskMixer on three known modes and one without a mask of its own. *)
EXTENDS MaskMixer

const_Day == <<"vk", "webrtc">>
const_Night == <<"browser", "vk">>
const_Pools == {<<>>, <<"vk">>, <<"browser", "browser", "vk">>, <<"other", "vk">>,
                <<"webrtc", "browser", "vk">>}
=============================================================================
