-------------------------- MODULE MC_GeeRPCServer --------------------------
(* Constants for checking GeeRPCServer with TLC.                           *)
EXTENDS GeeRPCServer

\* Two receivers named S: the one registered first wins, with method M or N.
MCReceivers == {[name |-> <<"S">>, methods |-> {<<"M">>}],
                [name |-> <<"S">>, methods |-> {<<"N">>}]}

\* "S.M", "S.N", an unknown service "T.M" and an ill-formed "SM".
MCServiceMethods == {<<"S", ".", "M">>, <<"S", ".", "N">>,
                     <<"T", ".", "M">>, <<"S", "M">>}

\* A valid Option with no HandleTimeout and with one, a wrong MagicNumber,
\* the unimplemented JSON codec, and bytes that do not decode as an Option.
MCOptions ==
    {[decodes |-> TRUE,  magic |-> MagicNumber, codec |-> GobType, timeout |-> 0],
     [decodes |-> TRUE,  magic |-> MagicNumber, codec |-> GobType, timeout |-> 1],
     [decodes |-> TRUE,  magic |-> "0x0",       codec |-> GobType, timeout |-> 0],
     [decodes |-> TRUE,  magic |-> MagicNumber, codec |-> "application/json",
      timeout |-> 0],
     [decodes |-> FALSE, magic |-> "",          codec |-> "",      timeout |-> 0]}

=============================================================================
