--------------------------- MODULE MCBytesVidRender ---------------------------
(***************************************************************************)
(* The decoders of a Linux build, three messages, frames of up to two    *)
(* bytes.                                                                  *)
(***************************************************************************)
EXTENDS BytesVidRender

MCMainDecoders == <<"nvh265dec", "vah265dec", "vaapih265dec", "avdec_h265">>
MCBytesDecoders == <<"nvh265dec", "avdec_h265">>
=============================================================================
