-------------------------- MODULE MCModuleLoader ----------------------------
(* Files of a few entries over two signatures, two builtins and a name that *)
(* is not one, words of two bits and pages of two bytes.                    *)
EXTENDS ModuleLoader, TLC

MCByte == 0 .. 1
MCBuiltinNames == <<"wasm_close_fd", "wasm_write_fd">>
MCImportName == {"wasm_close_fd", "wasm_write_fd", "unknown"}
MCExportName == {"memory", "main"}

(* The loader only compares signatures. *)
Renaming == Permutations(Signature)
=============================================================================
