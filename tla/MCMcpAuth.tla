----------------------------- MODULE MCMcpAuth -----------------------------
(***************************************************************************)
(* Two clients.  The upstream lifetime is one tick, the default three; the *)
(* settings are each kind of value that configure_mcp_auth tells apart.    *)
(***************************************************************************)
EXTENDS McpAuth

AllSettings == {NoSetting, -1, 0, 2}
Unset == {NoSetting}
=============================================================================
