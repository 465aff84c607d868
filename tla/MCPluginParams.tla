---------------------------- MODULE MCPluginParams ----------------------------
(* Instance of PluginParams for TLC: two plain values, so that a knob can be *)
(* right or wrong, and a saved state of the one parameter.                   *)
EXTENDS PluginParams

NoChunks == {}
SavedStates == {<<<<1, 2>>>>}

Host(onHostThread, direct, refuses) ==
    [gui_on_host_thread |-> onHostThread, direct |-> direct, refuses |-> refuses]

\* Linux: a GUI thread of its own, the host told by the audio thread.
X11 == {Host(FALSE, FALSE, FALSE)}
\* macOS and Windows: a VST3 host told at once, a CLAP host by the audio thread.
\* A CLAP host that refuses events, on either platform.
EveryHost == {Host(TRUE, TRUE, FALSE), Host(TRUE, FALSE, TRUE), Host(FALSE, FALSE, TRUE)}
===============================================================================
