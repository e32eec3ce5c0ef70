-------------------------------- MODULE Launch ------------------------------
(***************************************************************************)
(* What the command line asks before a run, src/engine/cli/main.py         *)
(* get_user_selections and cli/utils.py, and the LLM client that is built  *)
(* from the answers, src/engine/tradingagents/llm_clients.                 *)
(*                                                                         *)
(* A variable of the environment answers its question instead of the user, *)
(* each on its own.  Endpoints are named by the platform that serves them; *)
(* a key is named by the account it belongs to, which is the provider      *)
(* whose variable it is in.  "none" is no address, no key.                 *)
(***************************************************************************)
EXTENDS DebateGraph

CONSTANTS
    Crypto,     \* the tickers whose asset type is crypto
    Depths,     \* research depths on offer
    EnvRounds   \* values of the environment's round counts, Unset among them

Unset == -1

(***************************************************************************)
(* The shape of the run.                                                   *)
(***************************************************************************)
AnalystOrder == <<"market", "social", "news", "fundamentals">>

FilterAnalystsForAssetType(ticker) ==
    AnalystKeys \ (IF ticker \in Crypto THEN {"fundamentals"} ELSE {})

\* Each round count of the environment wins over the depth, by itself.
Rounds(env, depth) == IF env = Unset THEN depth ELSE env

Selectable(ticker, c) ==
    \E chosen \in (SUBSET FilterAnalystsForAssetType(ticker)) \ {{}},
       debate, risk \in EnvRounds, depth \in Depths :
        c = [analysts |-> SelectSeq(AnalystOrder, LAMBDA a : a \in chosen),
             debate |-> Rounds(debate, depth), risk |-> Rounds(risk, depth),
             asset |-> IF ticker \in Crypto THEN "crypto" ELSE "stock"]

(***************************************************************************)
(* The provider and its address.                                           *)
(***************************************************************************)
Hosted == {"openai", "anthropic", "xai", "deepseek", "openrouter", "mistral", "kimi", "groq", "nvidia"}
Regional == {"qwen", "glm", "minimax"}
Addressless == {"google", "azure", "bedrock", "openai_compatible"}
Menu == Hosted \union Regional \union Addressless \union {"ollama"}
Mainland == {"qwen-cn", "glm-cn", "minimax-cn"}

ProviderDefaultUrl(p) ==
    CASE p \in Hosted -> p
      [] p = "qwen" -> "dashscope-intl"
      [] p = "glm" -> "bigmodel"
      [] p = "minimax" -> "minimax.io"
      [] p = "ollama" -> "localhost"
      [] OTHER -> "none"

AskRegion(p) ==
    CASE p = "qwen" -> {<<"qwen", "dashscope-intl">>, <<"qwen-cn", "dashscope">>}
      [] p = "glm" -> {<<"glm", "z.ai">>, <<"glm-cn", "bigmodel">>}
      [] p = "minimax" -> {<<"minimax", "minimax.io">>, <<"minimax-cn", "minimaxi">>}

SelectLLMProvider ==    \* <<provider, address>>
    UNION {IF p \in Regional THEN AskRegion(p) ELSE {<<p, ProviderDefaultUrl(p)>>} : p \in Menu}

FirstUrl(urls) ==       \* a chain of Python's "or"
    IF \E i \in DOMAIN urls : urls[i] # "none"
    THEN urls[CHOOSE i \in DOMAIN urls : urls[i] # "none" /\ \A k \in 1..i - 1 : urls[k] = "none"]
    ELSE "none"

\* Slip: the region's address is dropped for the default of the provider.
ResolveWithoutMenu(p, menuUrl, envUrl) == FirstUrl(<<envUrl, ProviderDefaultUrl(p)>>)

ResolveBackendUrl(p, menuUrl, envUrl) == FirstUrl(<<envUrl, menuUrl, ProviderDefaultUrl(p)>>)

(***************************************************************************)
(* The key.  Ollama and Bedrock have no variable to ask for, and the       *)
(* generic endpoint's is never asked for.                                  *)
(***************************************************************************)
Keyless == {"ollama", "bedrock"}
KeyOptional == {"ollama", "openai_compatible"}

EnsureApiKey(p) ==      \* the key is set, pasted, or skipped
    IF p \in Keyless THEN {"none"} ELSE {p, "none"}

(***************************************************************************)
(* The answers: a provider from the menu or from the environment, the      *)
(* address that is resolved for it and the key that is there for it.  An   *)
(* address in the environment overrides either's.  Only the menu asks for  *)
(* the address of a generic endpoint.                                      *)
(***************************************************************************)
EnvUrls == {"none", "custom"}

PromptUrl(p, url) == IF p = "openai_compatible" /\ url = "none" THEN "custom" ELSE url

Answer(asked, p, url, env) ==
    {[asked |-> asked, override |-> env # "none", provider |-> p, url |-> url, key |-> k] :
        k \in EnsureApiKey(p)}

FromMenu(env) ==
    UNION {Answer(TRUE, m[1], PromptUrl(m[1], ResolveBackendUrl(m[1], m[2], env)), env) :
              m \in SelectLLMProvider}

FromEnvironment(env) ==
    UNION {Answer(FALSE, p, ResolveBackendUrl(p, "none", env), env) : p \in Menu \union Mainland}

Answers == UNION {FromMenu(env) \union FromEnvironment(env) : env \in EnvUrls}

(***************************************************************************)
(* The client.  A provider of the OpenAI-compatible registry falls back on *)
(* the registry's address, and raises without an address it requires or a  *)
(* key it requires; the others leave both to their SDK, which may raise.   *)
(***************************************************************************)
Native == {"anthropic", "google", "azure", "bedrock"}

SpecUrl(p) ==
    CASE p \in Hosted -> p
      [] p = "qwen" -> "dashscope-intl"   [] p = "qwen-cn" -> "dashscope"
      [] p = "glm" -> "z.ai"              [] p = "glm-cn" -> "bigmodel"
      [] p = "minimax" -> "minimax.io"    [] p = "minimax-cn" -> "minimaxi"
      [] p = "ollama" -> "localhost"
      [] OTHER -> "none"

ClientUrl(a) == FirstUrl(<<a.url, SpecUrl(a.provider)>>)

GetLLM(a) ==    \* it may return a client
    IF a.provider \in Native THEN TRUE
    ELSE /\ a.provider = "openai_compatible" => ClientUrl(a) # "none"
         /\ a.key # "none" \/ a.provider \in KeyOptional

GetLLMRaises(a) == a.provider \in Native \/ ~GetLLM(a)

\* The account whose keys a platform takes (external).
AccountAt(url) ==
    CASE url = "dashscope-intl" -> "qwen"   [] url = "dashscope" -> "qwen-cn"
      [] url = "z.ai" -> "glm"              [] url = "bigmodel" -> "glm-cn"
      [] url = "minimax.io" -> "minimax"    [] url = "minimaxi" -> "minimax-cn"
      [] OTHER -> url
=============================================================================
