------------------------------- MODULE MCGateway -------------------------------
(* Small instances of Gateway for TLC: the values of its constants. *)
EXTENDS Gateway

CONSTANTS groq, deepseek, gemini, openai, llama, chat, reasoner, flash, gpt

\* One provider with two active models, one with none.
Offers == [m \in Models |->
    CASE m = llama -> groq [] m \in {chat, reasoner} -> deepseek
      [] m = flash -> gemini [] m = gpt -> openai]

\* The fallback may be dearer than the credit held.
Tariff == [m \in Models |->
    CASE m = llama -> 2 [] m = chat -> 1 [] OTHER -> 3]

Markups == [m \in Models |-> IF m = llama THEN 2 ELSE 1]
===============================================================================
