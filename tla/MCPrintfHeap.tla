---------------------------- MODULE MCPrintfHeap ----------------------------
EXTENDS PrintfHeapInvariant

d == <<"%", "d">>
MCFormats == {<<"c">>, d \o <<"c">>, d \o <<"x", "x">>, d \o d \o d,
              <<"%", "s">>, <<"%", "s", "%", "s">>}
MCHandles == {<<"mine", 0, 0>>}
  \cup {<<kind, c, 0>> : kind \in {"array", "buffer"}, c \in 1..MaxCalls}
  \cup {<<"expansion", c, n>> : c \in 1..MaxCalls, n \in 0..48}
MCMine == <<"mine", 0, 0>>
MCNoHandle == <<"none", 0, 0>>

(* The formats are ones that the theorem about the first page is about. *)
ASSUME FormatsFit == ArraysSmall
=============================================================================
