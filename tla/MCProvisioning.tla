---------------------------- MODULE MCProvisioning ----------------------------
(* A small instance of Provisioning, with the assets the program really    *)
(* fetches but for the second of the two sherpa-onnx models.               *)
EXTENDS Provisioning

MCSpecs == [sherpa |-> <<"asr">>, piper |-> <<"runtime", "voice", "conf">>, dict |-> <<"dict">>,
            llm |-> <<"gguf">>]
=============================================================================
