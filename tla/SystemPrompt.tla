---------------------------- MODULE SystemPrompt ----------------------------
(***************************************************************************)
(* The system prompt of an agent's requests: its layers, put together anew *)
(* for every request from the framework's sticky blocks, the personality,  *)
(* the skills and the memories (src/internal/agent/agent.go, context.go),  *)
(* and what each of the two API formats makes of it (src/internal/llm/     *)
(* anthropic.go, openai_compat.go).  Personality and memories change       *)
(* between requests.  A content is a sequence of parts, <<>> if empty.     *)
(***************************************************************************)
EXTENDS Integers, Sequences, FiniteSets

CONSTANTS
  Sticky,      \* content of the sticky blocks
  Personalities, \* contents of SOUL.md with IDENTITY.md
  Skills,      \* contents of the skills index
  Memories,    \* memory IDs
  MaxMemoryTokens, \* 0: no limit
  MaxChanges   \* bound: saves, deletions and reloads

\* The block about the agent's own identity is there for every agent.
ASSUME PromptAssumption ==
  /\ Sticky \in Seq(STRING) \ {<<>>}
  /\ Personalities \subseteq Seq(STRING) /\ Skills \subseteq Seq(STRING)

VARIABLES
  backend,     \* "anthropic" or "openai"
  PromptCaching,
  skillsSection,
  persona,     \* the personality, as last loaded
  memories,    \* memory ID -> [size, updated], for those there are
  sentPrompt,  \* blocks of the last request's system prompt: [content, cached]
  sentPersona, \* the personality at that time
  requested,   \* there was a request
  changes

agentVars == <<backend, PromptCaching, skillsSection, persona, memories, changes>>
requestVars == <<sentPrompt, sentPersona, requested>>
promptVars == <<agentVars, requestVars>>

PromptInit ==
  /\ backend \in {"anthropic", "openai"}
  /\ PromptCaching \in BOOLEAN
  /\ skillsSection \in Skills
  /\ persona \in Personalities
  /\ memories = [id \in {} |-> 0]
  /\ sentPrompt = <<>> /\ sentPersona = persona /\ requested = FALSE
  /\ changes = 0

----------------------------------------------------------------------------
(* The layers *)

\* Without a sticky block: the agent's id is always there.
BuildSystemPrompt == persona \o <<"agent_id">>

HeaderSize == 1
Newer(id) == {other \in DOMAIN memories : memories[other].updated > memories[id].updated}
TotalSize(ids) ==
  LET sum[S \in SUBSET ids] ==
        IF S = {} THEN 0
        ELSE LET id == CHOOSE x \in S : TRUE IN memories[id].size + sum[S \ {id}]
  IN sum[ids]
Fits(id) ==
  MaxMemoryTokens = 0 \/ HeaderSize + TotalSize(Newer(id) \union {id}) <= MaxMemoryTokens

\* Most recently updated first, up to the first memory that no longer fits.
BuildMemoriesSection ==
  LET listed == {id \in DOMAIN memories : Fits(id)}
      nth(n) == CHOOSE id \in listed : Cardinality(Newer(id)) = n - 1
  IN IF listed = {} THEN <<>> ELSE <<"[Memories]">> \o [n \in 1..Cardinality(listed) |-> nth(n)]

Section(content, checkpoint) ==
  IF content = <<>> THEN <<>> ELSE <<[content |-> content, checkpoint |-> checkpoint]>>

\* Mutant of agentSystemSections: the personality comes first.
agentSystemSectionsSoulFirst(systemPrompt) ==
  Section(systemPrompt, skillsSection = <<>>)
    \o Section(Sticky, TRUE) \o Section(skillsSection, TRUE)

\* The last of the stable sections gets the second checkpoint.
agentSystemSections(systemPrompt) ==
  Section(Sticky, TRUE) \o Section(systemPrompt, skillsSection = <<>>)
    \o Section(skillsSection, TRUE)

\* Agent.run: sections if there is more than the personality, memories last.
SystemOf(systemPrompt) ==
  IF Sticky # <<>> \/ skillsSection # <<>>
    THEN [SystemPrompt |-> <<>>,
          SystemSections |->
            agentSystemSections(systemPrompt) \o Section(BuildMemoriesSection, FALSE)]
    ELSE [SystemPrompt |-> systemPrompt \o BuildMemoriesSection, SystemSections |-> <<>>]

----------------------------------------------------------------------------
(* The API formats *)

SystemBlock(content, cached) == [content |-> content, cached |-> cached]

toAnthropicRequest(req) ==
  IF req.SystemSections # <<>>
    THEN [i \in DOMAIN req.SystemSections |->
            SystemBlock(req.SystemSections[i].content,
                  PromptCaching /\ req.SystemSections[i].checkpoint)]
  ELSE IF req.SystemPrompt # <<>> THEN <<SystemBlock(req.SystemPrompt, PromptCaching)>>
  ELSE <<>>

\* SystemSections is not looked at.
toOpenAISystem(req) ==
  IF req.SystemPrompt # <<>> THEN <<SystemBlock(req.SystemPrompt, FALSE)>> ELSE <<>>

----------------------------------------------------------------------------
(* Actions *)

Request ==
  /\ LET req == SystemOf(BuildSystemPrompt)
     IN sentPrompt' = IF backend = "anthropic" THEN toAnthropicRequest(req)
                                               ELSE toOpenAISystem(req)
  /\ sentPersona' = persona
  /\ requested' = TRUE
  /\ UNCHANGED agentVars

Changes == changes < MaxChanges /\ changes' = changes + 1

\* memory_save, of a new memory or over an old one.
Save(id) ==
  /\ Changes
  /\ \E size \in 1..2 :
       memories' = [x \in DOMAIN memories \union {id} |->
                      IF x = id THEN [size |-> size, updated |-> changes'] ELSE memories[x]]
  /\ UNCHANGED <<backend, PromptCaching, skillsSection, persona, requestVars>>

Delete(id) ==
  /\ Changes
  /\ id \in DOMAIN memories
  /\ memories' = [x \in DOMAIN memories \ {id} |-> memories[x]]
  /\ UNCHANGED <<backend, PromptCaching, skillsSection, persona, requestVars>>

ReloadPersonality ==
  /\ Changes
  /\ persona' \in Personalities \ {persona}
  /\ UNCHANGED <<backend, PromptCaching, skillsSection, memories, requestVars>>

PromptNext ==
  \/ Request \/ ReloadPersonality
  \/ \E id \in Memories : Save(id) \/ Delete(id)

PromptSpec == PromptInit /\ [][PromptNext]_promptVars

----------------------------------------------------------------------------
(* Properties *)

\* The parts of a prompt.
PromptParts(blocks) ==
  UNION {{b.content[i] : i \in DOMAIN b.content} : b \in {blocks[j] : j \in DOMAIN blocks}}

\* The blocks up to the last cache checkpoint, which the server may reuse.
CachedPrefix(blocks) ==
  LET marked == {i \in DOMAIN blocks : blocks[i].cached}
  IN SubSeq(blocks, 1, IF marked = {} THEN 0 ELSE CHOOSE i \in marked : \A j \in marked : j <= i)

\* From one Anthropic request to the next the cached part of the system prompt
\* stays what it was, whatever is remembered or forgotten in between; a new
\* personality still leaves the sticky blocks' checkpoint in place; and nothing
\* of the layers is left out for it.
LayersCached ==
  [][ backend = "anthropic" /\ requested =>
        /\ sentPersona' = sentPersona => CachedPrefix(sentPrompt') = CachedPrefix(sentPrompt)
        /\ PromptCaching => /\ sentPrompt'[1] = sentPrompt[1]
                            /\ sentPrompt[1].content = Sticky /\ sentPrompt[1].cached
        /\ {sentPersona'[i] : i \in DOMAIN sentPersona'} \subseteq PromptParts(sentPrompt')
        /\ {skillsSection[i] : i \in DOMAIN skillsSection} \subseteq PromptParts(sentPrompt')
    ]_requestVars

\* The framework's instructions are in every system prompt sent.
StickyAlwaysSent ==
  requested => {Sticky[i] : i \in DOMAIN Sticky} \subseteq PromptParts(sentPrompt)
=============================================================================
